------------------------ MODULE FileTreatmentProofs ------------------------
(***************************************************************************)
(* The verdict about a file, for files of any size, any limit on clamd's   *)
(* answer, any names of threats and any way of cutting the answer into     *)
(* pieces; and the copy of an image without metadata, for images of any    *)
(* parts, cut anywhere.                                                    *)
(***************************************************************************)
EXTENDS FileTreatment, SequenceTheorems, WellFoundedInduction, TLAPS

\* An answer is about the whole file, unless it is an error.
AnswerAboutFile ==
  /\ answer \in Approvals => streamed = Chunks + 1 /\ ~threat
  /\ answer \in Detections => streamed = Chunks + 1 /\ threat

(***************************************************************************)
(* What of the answer has left clamd, wherever it is.  While scan() waits  *)
(* no piece is lost: what was received and what is on its way are a        *)
(* beginning of the answer.                                                *)
(***************************************************************************)
Sent == chunks \o wire

SentInv == verdict = "pending" => \E n \in 0 .. Len(answer) : Sent = SubSeq(answer, 1, n)

\* A connection that gave a verdict has ended: nothing more is received.
SettledInv == verdict = "clean" => socket \notin {"connecting", "open"}

IInv == TypeOK /\ AnswerAboutFile /\ SentInv /\ SettledInv /\ VerdictIsAboutTheFile

-----------------------------------------------------------------------------
(***************************************************************************)
(* The answers and what is cut from them                                   *)
(***************************************************************************)

LEMMA OKLetters == OK \in Seq(Letters) /\ Len(OK) = 2 /\ OK[1] = "O" /\ OK[2] = "K"
  BY DEF OK, Letters

LEMMA NameTyped ==
  ASSUME NEW name \in Names
  PROVE  /\ name \in Seq(Letters) /\ Len(name) \in Nat /\ Len(name) >= 1
         /\ \A i \in 1 .. Len(name) : name[i] # NUL
  <1>1. name \in Seq(Signature) /\ name # <<>> /\ NUL \notin Signature
    BY TreatmentAssumption
  <1>2. Len(name) \in Nat /\ \A i \in 1 .. Len(name) : name[i] \in Signature
    BY <1>1, LenProperties, ElementOfSeq
  <1>3. Len(name) # 0
    BY <1>1, EmptySeq
  <1>4. name \in Seq(Letters)
    <2>1. \A i \in 1 .. Len(name) : name[i] \in Letters
      BY <1>2 DEF Letters
    <2> QED
      BY <1>1, <2>1, ElementOfSeq
  <1> QED
    BY <1>1, <1>2, <1>3, <1>4

LEMMA LettersJoined ==
  ASSUME NEW u \in Seq(Letters), NEW v \in Seq(Letters)
  PROVE  /\ u \o v \in Seq(Letters) /\ Len(u \o v) = Len(u) + Len(v)
         /\ \A i \in 1 .. Len(u) : (u \o v)[i] = u[i]
         /\ \A i \in 1 .. Len(v) : (u \o v)[Len(u) + i] = v[i]
  <1>1. Len(u) \in Nat /\ Len(v) \in Nat
    BY LenProperties
  <1>2. /\ u \o v \in Seq(Letters) /\ Len(u \o v) = Len(u) + Len(v)
        /\ \A i \in 1 .. Len(u) + Len(v) : (u \o v)[i] = IF i <= Len(u) THEN u[i] ELSE v[i - Len(u)]
    BY ConcatProperties
  <1>3. ASSUME NEW i \in 1 .. Len(u)
        PROVE  (u \o v)[i] = u[i]
    <2>1. i \in 1 .. Len(u) + Len(v) /\ i <= Len(u)
      BY <1>1
    <2> QED
      BY <1>2, <2>1
  <1>4. ASSUME NEW i \in 1 .. Len(v)
        PROVE  (u \o v)[Len(u) + i] = v[i]
    <2>1. Len(u) + i \in 1 .. Len(u) + Len(v) /\ ~(Len(u) + i <= Len(u)) /\ (Len(u) + i) - Len(u) = i
      BY <1>1
    <2> QED
      BY <1>2, <2>1
  <1> QED
    BY <1>2, <1>3, <1>4

\* The letters of an answer that names a threat.
LEMMA DetectionTyped ==
  ASSUME NEW name \in Names
  PROVE  /\ Found(name) \in Seq(Letters) /\ Len(Found(name)) = Len(name) + 2
         /\ Found(name)[Len(name) + 2] = "D"
         /\ Terminated(Found(name)) \in Seq(Letters)
         /\ Len(Terminated(Found(name))) = Len(name) + 3
         /\ \A i \in 1 .. Len(name) : Terminated(Found(name))[i] = name[i]
         /\ Terminated(Found(name))[Len(name) + 1] = "F"
  <1> DEFINE n    == Len(name)
             fd   == <<"F", "D">>
             text == Found(name)
             end  == <<NUL>>
             all  == Terminated(text)
  <1>1. name \in Seq(Letters) /\ n \in Nat
    BY NameTyped
  <1>2. fd \in Seq(Letters) /\ Len(fd) = 2 /\ fd[1] = "F" /\ fd[2] = "D"
    BY DEF Letters
  <1>3. end \in Seq(Letters) /\ Len(end) = 1
    BY DEF Letters
  <1>4. text = name \o fd /\ all = text \o end
    BY DEF Found, Terminated
  <1>5. Len(name) = n
    OBVIOUS
  <1> HIDE DEF n, fd, text, end, all
  <1>6. /\ text \in Seq(Letters) /\ Len(text) = n + 2
        /\ \A i \in 1 .. n : text[i] = name[i]
        /\ \A i \in 1 .. 2 : text[n + i] = fd[i]
    <2>1. /\ name \o fd \in Seq(Letters) /\ Len(name \o fd) = Len(name) + Len(fd)
          /\ \A i \in 1 .. Len(name) : (name \o fd)[i] = name[i]
          /\ \A i \in 1 .. Len(fd) : (name \o fd)[Len(name) + i] = fd[i]
      BY <1>1, <1>2, LettersJoined
    <2> QED
      BY <1>2, <1>4, <1>5, <2>1
  <1>7. text[n + 1] = "F" /\ text[n + 2] = "D"
    BY <1>2, <1>6
  <1>8. /\ all \in Seq(Letters) /\ Len(all) = (n + 2) + 1
        /\ \A i \in 1 .. n + 2 : all[i] = text[i]
    <2>1. /\ text \o end \in Seq(Letters) /\ Len(text \o end) = Len(text) + Len(end)
          /\ \A i \in 1 .. Len(text) : (text \o end)[i] = text[i]
      BY <1>3, <1>6, LettersJoined
    <2> QED
      BY <1>3, <1>4, <1>6, <2>1
  <1>9. /\ \A i \in 1 .. n : i \in 1 .. n + 2
        /\ n + 1 \in 1 .. n + 2 /\ (n + 2) + 1 = n + 3
    BY <1>1
  <1>10. (\A i \in 1 .. n : all[i] = name[i]) /\ all[n + 1] = "F" /\ Len(all) = n + 3
    BY <1>6, <1>7, <1>8, <1>9
  <1> QED
    BY <1>6, <1>7, <1>8, <1>10 DEF n, text, all

LEMMA TerminatedTyped ==
  ASSUME NEW text \in Seq(Letters), Len(text) = 2, text[1] # "D", text[2] # "D"
  PROVE  /\ Terminated(text) \in Seq(Letters) /\ Len(Terminated(text)) = 3
         /\ Terminated(text)[1] = text[1]
         /\ \A i \in 1 .. 3 : Terminated(text)[i] # "D"
  <1> DEFINE end == <<NUL>>
             all == Terminated(text)
  <1>1. end \in Seq(Letters) /\ Len(end) = 1 /\ end[1] = NUL
    BY DEF Letters
  <1>2. all = text \o end
    BY DEF Terminated
  <1> HIDE DEF end, all
  <1>3. /\ all \in Seq(Letters) /\ Len(all) = 2 + 1
        /\ \A i \in 1 .. 2 : all[i] = text[i]
        /\ \A i \in 1 .. 1 : all[2 + i] = end[i]
    <2>1. /\ text \o end \in Seq(Letters) /\ Len(text \o end) = Len(text) + Len(end)
          /\ \A i \in 1 .. Len(text) : (text \o end)[i] = text[i]
          /\ \A i \in 1 .. Len(end) : (text \o end)[Len(text) + i] = end[i]
      BY <1>1, LettersJoined
    <2> QED
      BY <1>1, <1>2, <2>1
  <1>4. all[1] = text[1] /\ all[2] = text[2] /\ all[3] = NUL
    BY <1>1, <1>3
  <1>5. NUL # "D" /\ (\A i \in 1 .. 3 : i = 1 \/ i = 2 \/ i = 3) /\ 2 + 1 = 3
    BY DEF NUL
  <1> QED
    BY <1>3, <1>4, <1>5 DEF all

LEMMA ApprovalTyped ==
  ASSUME NEW text \in Approvals
  PROVE  text \in Seq(Letters) /\ Len(text) \in {3, 6} /\ \A i \in 1 .. Len(text) : text[i] # "D"
  <1> DEFINE one == Terminated(OK)
  <1>1. one \in Seq(Letters) /\ Len(one) = 3 /\ \A i \in 1 .. 3 : one[i] # "D"
    BY OKLetters, TerminatedTyped
  <1>2. text = one \/ text = one \o one
    BY DEF Approvals
  <1> HIDE DEF one
  <1>3. ASSUME text = one
        PROVE  text \in Seq(Letters) /\ Len(text) \in {3, 6} /\ \A i \in 1 .. Len(text) : text[i] # "D"
    BY <1>1, <1>3
  <1>4. ASSUME text = one \o one
        PROVE  text \in Seq(Letters) /\ Len(text) = 6 /\ \A i \in 1 .. 6 : text[i] # "D"
    <2>1. /\ one \o one \in Seq(Letters) /\ Len(one \o one) = 3 + 3
          /\ \A i \in 1 .. 3 : (one \o one)[i] = one[i]
          /\ \A i \in 1 .. 3 : (one \o one)[3 + i] = one[i]
      <3>1. /\ one \o one \in Seq(Letters) /\ Len(one \o one) = Len(one) + Len(one)
            /\ \A i \in 1 .. Len(one) : (one \o one)[i] = one[i]
            /\ \A i \in 1 .. Len(one) : (one \o one)[Len(one) + i] = one[i]
        BY <1>1, LettersJoined
      <3> QED
        BY <1>1, <3>1
    <2>2. /\ text \in Seq(Letters) /\ Len(text) = 3 + 3
          /\ \A i \in 1 .. 3 : text[i] # "D" /\ text[3 + i] # "D"
      BY <1>1, <1>4, <2>1
    <2>3. \A i \in 1 .. 6 : i \in 1 .. 3 \/ (i - 3 \in 1 .. 3 /\ 3 + (i - 3) = i)
      OBVIOUS
    <2>4. ASSUME NEW i \in 1 .. 6
          PROVE  text[i] # "D"
      <3>1. CASE i \in 1 .. 3
        BY <2>2, <3>1
      <3>2. CASE i - 3 \in 1 .. 3 /\ 3 + (i - 3) = i
        BY <2>2, <3>2
      <3> QED
        BY <2>3, <3>1, <3>2
    <2> QED
      BY <2>2, <2>4
  <1> QED
    BY <1>2, <1>3, <1>4

LEMMA ErrorTyped ==
  /\ Terminated(Error) \in Seq(Letters) /\ Len(Terminated(Error)) = 3
  /\ Terminated(Error)[1] # "O" /\ \A i \in 1 .. 3 : Terminated(Error)[i] # "D"
  <1>1. Error \in Seq(Letters) /\ Len(Error) = 2 /\ Error[1] = "E" /\ Error[2] = "R"
    BY DEF Error, Letters
  <1> QED
    BY <1>1, TerminatedTyped

LEMMA AnswersTyped ==
  ASSUME NEW text \in Answers
  PROVE  text \in Seq(Letters) /\ text # <<>>
  <1>1. CASE text \in Approvals
    BY <1>1, ApprovalTyped, EmptySeq
  <1>2. CASE text \in Detections
    <2>1. PICK name \in Names : text = Terminated(Found(name))
      BY <1>2 DEF Detections
    <2>2. text \in Seq(Letters) /\ Len(text) = Len(name) + 3 /\ Len(name) \in Nat
      BY <2>1, DetectionTyped, NameTyped
    <2>3. Len(text) # 0
      BY <2>2
    <2> QED
      BY <2>2, <2>3, EmptySeq
  <1>3. CASE text = Terminated(Error)
    BY <1>3, ErrorTyped, EmptySeq
  <1> QED
    BY <1>1, <1>2, <1>3 DEF Answers

\* A beginning of an answer has its letters.
LEMMA Beginning ==
  ASSUME NEW text \in Seq(Letters), NEW n \in 0 .. Len(text)
  PROVE  /\ SubSeq(text, 1, n) \in Seq(Letters) /\ Len(SubSeq(text, 1, n)) = n /\ n \in Nat
         /\ \A i \in 1 .. n : i \in 1 .. Len(text) /\ SubSeq(text, 1, n)[i] = text[i]
  <1>1. Len(text) \in Nat
    BY LenProperties
  <1>2. \A i \in 1 .. n : i \in 1 .. Len(text)
    BY <1>1
  <1>3. \A i \in 1 .. n : text[i] \in Letters
    BY <1>2, ElementOfSeq
  <1> QED
    BY <1>1, <1>2, <1>3, SubSeqProperties

\* The line of what was received has its letters, but for a terminator at its end.
LEMMA LineRead ==
  ASSUME NEW reply \in Seq(Letters)
  PROVE  /\ \A i \in 1 .. Len(Line(reply)) : i \in 1 .. Len(reply) /\ Line(reply)[i] = reply[i]
         /\ \/ Line(reply) = reply
            \/ Len(reply) = Len(Line(reply)) + 1 /\ reply[Len(reply)] = NUL
  <1>1. Len(reply) \in Nat
    BY LenProperties
  <1>2. CASE reply # <<>> /\ reply[Len(reply)] = NUL
    <2> DEFINE n == Len(reply) - 1
    <2>1. n \in 0 .. Len(reply) /\ n + 1 = Len(reply)
      BY <1>1, <1>2, EmptySeq
    <2>2. Line(reply) = SubSeq(reply, 1, n)
      BY <1>2 DEF Line
    <2> HIDE DEF n
    <2>3. Len(Line(reply)) = n /\ \A i \in 1 .. n : i \in 1 .. Len(reply) /\ Line(reply)[i] = reply[i]
      BY <2>1, <2>2, Beginning
    <2> QED
      BY <1>2, <2>1, <2>3
  <1>3. CASE ~(reply # <<>> /\ reply[Len(reply)] = NUL)
    BY <1>3 DEF Line
  <1> QED
    BY <1>2, <1>3

(***************************************************************************)
(* What the client makes of an answer that is cut.  Only one that names a  *)
(* threat is read as a detection; and one that is read as OK is OK, or     *)
(* the beginning of such a name.                                           *)
(***************************************************************************)
LEMMA DetectionCut ==
  ASSUME NEW text \in Answers, NEW n \in 0 .. Len(text), NEW reply, reply = SubSeq(text, 1, n),
         NEW name \in Names, Line(reply) = Found(name)
  PROVE  text \in Detections
  <1>1. text \in Seq(Letters)
    BY AnswersTyped
  <1>2. /\ reply \in Seq(Letters) /\ Len(reply) = n
        /\ \A i \in 1 .. n : i \in 1 .. Len(text) /\ reply[i] = text[i]
    BY <1>1, Beginning
  <1>3. /\ Len(Found(name)) = Len(name) + 2 /\ Found(name)[Len(name) + 2] = "D"
        /\ Len(name) \in Nat
    BY DetectionTyped, NameTyped
  <1>4. \A i \in 1 .. Len(Line(reply)) : i \in 1 .. Len(reply) /\ Line(reply)[i] = reply[i]
    BY <1>2, LineRead
  <1>5. PICK k \in 1 .. Len(reply) : reply[k] = "D"
    <2>1. Len(name) + 2 \in 1 .. Len(name) + 2
      BY <1>3
    <2>2. Len(name) + 2 \in 1 .. Len(Line(reply))
      BY <1>3, <2>1
    <2>3. Len(name) + 2 \in 1 .. Len(reply) /\ reply[Len(name) + 2] = "D"
      BY <1>3, <1>4, <2>2
    <2> QED
      BY <2>3
  <1>6. k \in 1 .. Len(text) /\ text[k] = "D"
    BY <1>2, <1>5
  <1>7. text \notin Approvals
    BY <1>6, ApprovalTyped
  <1>8. text # Terminated(Error)
    BY <1>6, ErrorTyped
  <1> QED
    BY <1>7, <1>8 DEF Answers

LEMMA OKCut ==
  ASSUME NEW text \in Answers, NEW n \in 0 .. Len(text), NEW reply, reply = SubSeq(text, 1, n),
         Line(reply) = OK
  PROVE  \/ text \in Approvals
         \/ /\ text \in Detections /\ reply = OK
            /\ \E name \in Names : Len(name) >= 2 /\ SubSeq(name, 1, 2) = OK
  <1>1. text \in Seq(Letters)
    BY AnswersTyped
  <1>2. /\ reply \in Seq(Letters) /\ Len(reply) = n
        /\ \A i \in 1 .. n : i \in 1 .. Len(text) /\ reply[i] = text[i]
    BY <1>1, Beginning
  <1>3. \A i \in 1 .. 2 : i \in 1 .. n /\ reply[i] = OK[i]
    BY <1>2, LineRead, OKLetters
  <1>4. text[1] = "O" /\ text[2] = "K" /\ 1 \in 1 .. Len(text)
    <2>1. 1 \in 1 .. 2 /\ 2 \in 1 .. 2
      OBVIOUS
    <2> QED
      BY <1>2, <1>3, <2>1, OKLetters
  <1>5. text # Terminated(Error)
    BY <1>4, ErrorTyped
  <1>6. ASSUME text \in Detections
        PROVE  reply = OK /\ \E name \in Names : Len(name) >= 2 /\ SubSeq(name, 1, 2) = OK
    <2>1. PICK name \in Names : text = Terminated(Found(name))
      BY <1>6 DEF Detections
    <2>2. name \in Seq(Letters) /\ Len(name) \in Nat /\ Len(name) >= 1 /\ \A i \in 1 .. Len(name) : name[i] # NUL
      BY NameTyped
    <2>3. /\ \A i \in 1 .. Len(name) : text[i] = name[i]
          /\ text[Len(name) + 1] = "F"
      BY <2>1, DetectionTyped
    <2>4. Len(name) >= 2
      <3>1. Len(name) = 1 => text[1 + 1] = "F"
        BY <2>3
      <3>2. Len(name) # 1
        <4>1. 1 + 1 = 2
          OBVIOUS
        <4> QED
          BY <1>4, <3>1, <4>1
      <3>3. \A m \in Nat : m >= 1 /\ m # 1 => m >= 2
        OBVIOUS
      <3> QED
        BY <2>2, <3>2, <3>3
    <2>5. 1 \in 1 .. Len(name) /\ 2 \in 1 .. Len(name) /\ 2 \in 0 .. Len(name)
      BY <2>2, <2>4
    <2>6. name[1] = "O" /\ name[2] = "K"
      BY <1>4, <2>3, <2>5
    <2>7. SubSeq(name, 1, 2) = OK
      <3>1. /\ SubSeq(name, 1, 2) \in Seq(Letters) /\ Len(SubSeq(name, 1, 2)) = 2
            /\ \A i \in 1 .. 2 : SubSeq(name, 1, 2)[i] = name[i]
        BY <2>2, <2>5, Beginning
      <3>2. \A i \in 1 .. 2 : i = 1 \/ i = 2
        OBVIOUS
      <3>3. \A i \in 1 .. 2 : SubSeq(name, 1, 2)[i] = OK[i]
        BY <2>6, <3>1, <3>2, OKLetters
      <3> QED
        BY <3>1, <3>3, OKLetters, SeqEqual
    <2>8. reply = OK
      <3>1. SUFFICES ASSUME Len(reply) = Len(Line(reply)) + 1, reply[Len(reply)] = NUL PROVE FALSE
        BY <1>2, LineRead
      <3>2. n = 3 /\ text[3] = NUL
        <4>1. Len(reply) = 3
          <5>1. Len(Line(reply)) = 2 /\ 2 + 1 = 3
            BY OKLetters
          <5> QED
            BY <3>1, <5>1
        <4>2. n = 3 /\ 3 \in 1 .. n
          BY <1>2, <4>1
        <4> QED
          BY <1>2, <3>1, <4>1, <4>2
      <3>3. CASE Len(name) = 2
        <4>1. text[3] = "F"
          BY <2>3, <3>3
        <4> QED
          BY <3>2, <4>1 DEF NUL
      <3>4. CASE Len(name) # 2
        <4>1. 3 \in 1 .. Len(name)
          <5>1. \A m \in Nat : m >= 2 /\ m # 2 => 3 \in 1 .. m
            OBVIOUS
          <5> QED
            BY <2>2, <2>4, <3>4, <5>1
        <4>2. text[3] = name[3] /\ name[3] # NUL
          BY <2>2, <2>3, <4>1
        <4> QED
          BY <3>2, <4>2
      <3> QED
        BY <3>3, <3>4
    <2> QED
      BY <2>4, <2>7, <2>8
  <1> QED
    BY <1>5, <1>6 DEF Answers

-----------------------------------------------------------------------------
\* A piece read from the wire joins what was received.
LEMMA PieceRead ==
  ASSUME TypeOK, NEW n \in 1 .. Len(wire)
  PROVE  /\ SubSeq(wire, 1, n) \in Seq(Letters) /\ Len(SubSeq(wire, 1, n)) = n
         /\ SubSeq(wire, n + 1, Len(wire)) \in Seq(Letters)
         /\ (chunks \o SubSeq(wire, 1, n)) \o SubSeq(wire, n + 1, Len(wire)) = Sent
  <1> DEFINE piece == SubSeq(wire, 1, n)
             left  == SubSeq(wire, n + 1, Len(wire))
  <1>1. wire \in Seq(Letters) /\ chunks \in Seq(Letters) /\ Len(wire) \in Nat
    BY LenProperties DEF TypeOK
  <1>2. \A i \in 1 .. Len(wire) : wire[i] \in Letters
    BY <1>1, ElementOfSeq
  <1>3. piece \in Seq(Letters) /\ Len(piece) = n
    BY <1>1, <1>2, SubSeqProperties
  <1>4. left \in Seq(Letters)
    BY <1>1, <1>2, SubSeqProperties
  <1>5. piece \o left = wire
    <2>1. piece \o left = SubSeq(wire, 1, Len(wire))
      BY <1>1, ConcatAdjacentSubSeq
    <2> QED
      BY <1>1, <2>1, SubSeqFull
  <1> HIDE DEF piece, left
  <1>6. (chunks \o piece) \o left = chunks \o (piece \o left)
    <2>1. chunks \in Seq(Letters) /\ piece \in Seq(Letters) /\ left \in Seq(Letters)
      BY <1>1, <1>3, <1>4
    <2> QED
      BY <2>1, ConcatAssociative
  <1>7. (chunks \o piece) \o left = Sent
    BY <1>5, <1>6 DEF Sent
  <1> QED
    BY <1>3, <1>4, <1>7 DEF piece, left

LEMMA InitIInv == Init => IInv
  <1> SUFFICES ASSUME Init PROVE IInv
    OBVIOUS
  <1>1. wire = <<>> /\ chunks = <<>> /\ answer = <<>> /\ <<>> \in Seq(Letters) /\ Len(<<>>) = 0
    BY EmptySeq DEF Init
  <1>2. Sent = <<>> /\ SubSeq(answer, 1, 0) = <<>> /\ 0 \in 0 .. Len(answer)
    <2>1. Sent = <<>>
      BY <1>1, ConcatEmptySeq DEF Sent
    <2>2. 0 \in 0 .. Len(answer)
      BY <1>1
    <2>3. SubSeq(answer, 1, 0) \in Seq(Letters) /\ Len(SubSeq(answer, 1, 0)) = 0
      BY <1>1, <2>2, Beginning
    <2>4. SubSeq(answer, 1, 0) = <<>>
      BY <2>3, EmptySeq
    <2> QED
      BY <2>1, <2>2, <2>4
  <1>3. streamed \in 0 .. Chunks + 1 /\ Len(chunks) <= MaxReply
    BY <1>1, TreatmentAssumption DEF Init
  <1>4. TypeOK
    BY <1>1, <1>3 DEF Init, TypeOK
  <1>5. AnswerAboutFile
    <2>1. <<>> \notin Answers
      BY AnswersTyped
    <2> QED
      BY <1>1, <2>1 DEF AnswerAboutFile, Answers
  <1>6. SentInv
    BY <1>2 DEF SentInv
  <1> QED
    BY <1>4, <1>5, <1>6 DEF Init, IInv, SettledInv, VerdictIsAboutTheFile

-----------------------------------------------------------------------------
LEMMA TypedNext == TypeOK /\ [Next]_vars => TypeOK'
  <1> SUFFICES ASSUME TypeOK, [Next]_vars PROVE TypeOK'
    OBVIOUS
  <1> USE TreatmentAssumption DEF TypeOK
  <1>1. CASE Receive
    BY <1>1 DEF Receive, rest
  <1>2. ASSUME NEW text \in Answers, Answer(text) PROVE TypeOK'
    <2>1. PICK n \in 0 .. Len(text) : wire' = SubSeq(text, 1, n)
      BY <1>2 DEF Answer
    <2>2. wire' \in Seq(Letters)
      BY <2>1, AnswersTyped, Beginning
    <2> QED
      BY <1>2, <2>2 DEF Answer, rest
  <1>3. CASE Data
    <2>1. PICK n \in 1 .. Len(wire) :
            /\ wire' = SubSeq(wire, n + 1, Len(wire))
            /\ IF Len(chunks) + n > MaxReply
               THEN Settle("error") /\ socket' = FailedSocket /\ chunks' = chunks
               ELSE chunks' = chunks \o SubSeq(wire, 1, n) /\ UNCHANGED <<verdict, socket>>
      BY <1>3 DEF Data
    <2>2. /\ wire' \in Seq(Letters)
          /\ SubSeq(wire, 1, n) \in Seq(Letters) /\ Len(SubSeq(wire, 1, n)) = n
      BY <2>1, PieceRead
    <2>3. chunks' \in Seq(Letters) /\ Len(chunks') <= MaxReply
      <3>1. /\ chunks \o SubSeq(wire, 1, n) \in Seq(Letters)
            /\ Len(chunks \o SubSeq(wire, 1, n)) = Len(chunks) + n
        BY <2>2, ConcatProperties
      <3>2. Len(chunks) \in Nat /\ n \in Nat
        BY LenProperties
      <3>3. CASE Len(chunks) + n > MaxReply
        BY <2>1, <3>3
      <3>4. CASE ~(Len(chunks) + n > MaxReply)
        <4>1. chunks' = chunks \o SubSeq(wire, 1, n)
          BY <2>1, <3>4
        <4>2. Len(chunks) + n <= MaxReply
          BY <3>2, <3>4
        <4> QED
          BY <3>1, <4>1, <4>2
      <3> QED
        BY <3>3, <3>4
    <2> QED
      BY <1>3, <2>1, <2>2, <2>3 DEF Data, clamdVars, rest, Settle, FailedSocket, TimerAfterData
  <1>4. CASE Connect \/ Sanitize
    BY <1>4 DEF Connect, Sanitize, clamdVars, rest
  <1>5. CASE End
    BY <1>5 DEF End, clamdVars, rest, Settle, ParseClamdReply
  <1>6. CASE Reset
    BY <1>6, EmptySeq DEF Reset, clamdVars, rest, Settle
  <1>7. CASE Close \/ Timeout
    BY <1>7 DEF Close, Timeout, clamdVars, rest, Settle, FailedSocket
  <1>8. CASE UNCHANGED vars
    BY <1>8 DEF vars
  <1> QED
    BY <1>1, <1>2, <1>3, <1>4, <1>5, <1>6, <1>7, <1>8 DEF Next, Events

LEMMA AboutFileNext == TypeOK /\ AnswerAboutFile /\ [Next]_vars => AnswerAboutFile'
  <1> SUFFICES ASSUME TypeOK, AnswerAboutFile, [Next]_vars PROVE AnswerAboutFile'
    OBVIOUS
  <1>1. CASE Receive
    <2>1. answer' = <<>> /\ <<>> \notin Answers
      BY <1>1, AnswersTyped DEF Receive
    <2> QED
      BY <2>1 DEF AnswerAboutFile, Answers
  <1>2. ASSUME NEW text \in Answers, Answer(text) PROVE AnswerAboutFile'
    <2>1. streamed > Chunks => streamed = Chunks + 1
      BY TreatmentAssumption DEF TypeOK
    <2> QED
      BY <1>2, <2>1 DEF Answer, AnswerAboutFile
  <1>3. CASE Events \/ Sanitize \/ UNCHANGED vars
    BY <1>3 DEF Events, Connect, Data, End, Reset, Close, Timeout, Sanitize, vars, clamdVars, AnswerAboutFile
  <1> QED
    BY <1>1, <1>2, <1>3 DEF Next

LEMMA SentNext == TypeOK /\ SentInv /\ [Next]_vars => SentInv'
  <1> SUFFICES ASSUME TypeOK, SentInv, [Next]_vars, verdict' = "pending" PROVE SentInv'
    BY DEF SentInv
  <1>1. CASE Receive
    BY <1>1 DEF Receive, SentInv, Sent
  <1>2. ASSUME NEW text \in Answers, Answer(text) PROVE SentInv'
    <2>1. PICK n \in 0 .. Len(text) : wire' = SubSeq(text, 1, n)
      BY <1>2 DEF Answer
    <2>2. answer = <<>> /\ answer' = text /\ UNCHANGED <<verdict, chunks>>
      BY <1>2 DEF Answer
    <2>3. Sent = <<>>
      <3>1. PICK m \in 0 .. Len(answer) : Sent = SubSeq(answer, 1, m)
        BY <2>2 DEF SentInv
      <3>2. answer \in Seq(Letters) /\ Len(answer) = 0
        BY <2>2, EmptySeq
      <3>3. Sent \in Seq(Letters) /\ Len(Sent) = 0
        <4>1. m = 0
          BY <3>2
        <4> QED
          BY <3>1, <3>2, <4>1, Beginning
      <3> QED
        BY <3>3, EmptySeq
    <2>4. chunks = <<>>
      <3>1. chunks \in Seq(Letters) /\ wire \in Seq(Letters)
        BY DEF TypeOK
      <3>2. Len(chunks) + Len(wire) = 0
        BY <2>3, <3>1, ConcatProperties, EmptySeq DEF Sent
      <3>3. Len(chunks) = 0
        BY <3>1, <3>2, LenProperties
      <3> QED
        BY <3>1, <3>3, EmptySeq
    <2>5. Sent' = SubSeq(text, 1, n)
      <3>1. SubSeq(text, 1, n) \in Seq(Letters)
        BY AnswersTyped, Beginning
      <3> QED
        BY <2>1, <2>2, <2>4, <3>1, ConcatEmptySeq DEF Sent
    <2> QED
      BY <2>2, <2>5 DEF SentInv
  <1>3. CASE Data
    <2>1. PICK n \in 1 .. Len(wire) :
            /\ wire' = SubSeq(wire, n + 1, Len(wire))
            /\ IF Len(chunks) + n > MaxReply
               THEN Settle("error") /\ socket' = FailedSocket /\ chunks' = chunks
               ELSE chunks' = chunks \o SubSeq(wire, 1, n) /\ UNCHANGED <<verdict, socket>>
      BY <1>3 DEF Data
    <2>2. verdict = "pending" /\ chunks' = chunks \o SubSeq(wire, 1, n)
      BY <2>1 DEF Settle
    <2>3. Sent' = Sent
      BY <2>1, <2>2, PieceRead DEF Sent
    <2>4. answer' = answer
      BY <1>3 DEF Data, clamdVars
    <2> QED
      BY <2>2, <2>3, <2>4 DEF SentInv
  <1>4. CASE Connect \/ Sanitize
    BY <1>4 DEF SentInv, Sent, Connect, Sanitize, clamdVars
  \* Each of these settles the scan.
  <1>5. CASE End \/ Reset \/ Close \/ Timeout
    BY <1>5 DEF End, Reset, Close, Timeout, Settle, ParseClamdReply
  <1>6. CASE UNCHANGED vars
    BY <1>6 DEF vars, SentInv, Sent
  <1> QED
    BY <1>1, <1>2, <1>3, <1>4, <1>5, <1>6 DEF Next, Events

LEMMA SettledNext == SettledInv /\ [Next]_vars => SettledInv'
  <1> SUFFICES ASSUME SettledInv, [Next]_vars PROVE SettledInv'
    OBVIOUS
  <1>1. CASE Receive
    BY <1>1 DEF Receive, SettledInv
  <1>6. CASE \E text \in Answers : Answer(text)
    <2> PICK text \in Answers : Answer(text)
      BY <1>6
    <2>1. verdict' = verdict /\ socket' = socket
      BY DEF Answer
    <2> QED
      BY <2>1 DEF SettledInv
  <1>2. CASE Connect
    BY <1>2 DEF Connect, SettledInv
  <1>4. CASE Data
    <2>1. verdict' \in {verdict, "error"} /\ socket' \in {socket, "destroyed"}
      BY <1>4 DEF Data, Settle, FailedSocket
    <2> QED
      BY <2>1 DEF SettledInv
  <1>5. CASE Sanitize \/ UNCHANGED vars
    BY <1>5 DEF Sanitize, vars, SettledInv
  <1>3. CASE End \/ Reset \/ Close \/ Timeout
    BY <1>3 DEF End, Reset, Close, Timeout, Settle, FailedSocket, SettledInv
  <1> QED
    BY <1>1, <1>2, <1>3, <1>4, <1>5, <1>6 DEF Next, Events

LEMMA VerdictNext == IInv /\ [Next]_vars => VerdictIsAboutTheFile'
  <1> SUFFICES ASSUME IInv, [Next]_vars PROVE VerdictIsAboutTheFile'
    OBVIOUS
  <1> USE DEF VerdictIsAboutTheFile, IInv
  <1>1. CASE Receive
    BY <1>1, TreatmentAssumption DEF Receive, TypeOK
  <1>2. CASE End
    <2>1. /\ UNCHANGED <<threat, streamed, chunks>> /\ wire = <<>> /\ Settle(ParseClamdReply(chunks))
          /\ answer # <<>>
      BY <1>2 DEF End, clamdVars
    <2>2. Sent = chunks
      BY <2>1, ConcatEmptySeq DEF Sent, TypeOK
    <2>3. CASE verdict = "pending"
      <3>1. verdict' = ParseClamdReply(chunks)
        BY <2>1, <2>3 DEF Settle
      <3>2. answer \in Answers
        BY <2>1 DEF TypeOK
      <3>3. PICK n \in 0 .. Len(answer) : chunks = SubSeq(answer, 1, n)
        BY <2>2, <2>3 DEF SentInv
      <3>4. CASE verdict' = "clean"
        <4>1. Line(chunks) = OK
          BY <3>1, <3>4 DEF ParseClamdReply
        <4>2. \/ answer \in Approvals
              \/ /\ answer \in Detections /\ chunks = OK
                 /\ \E name \in Names : Len(name) >= 2 /\ SubSeq(name, 1, 2) = OK
          BY <3>2, <3>3, <4>1, OKCut
        <4> QED
          BY <2>1, <3>4, <4>2 DEF AnswerAboutFile
      <3>5. CASE verdict' = "infected"
        <4>1. PICK name \in Names : Line(chunks) = Found(name)
          BY <3>1, <3>5 DEF ParseClamdReply
        <4>2. answer \in Detections
          BY <3>2, <3>3, <4>1, DetectionCut
        <4> QED
          BY <2>1, <3>5, <4>2 DEF AnswerAboutFile
      <3>6. verdict' \in {"clean", "infected", "error"}
        BY <3>1 DEF ParseClamdReply
      <3> QED
        BY <3>4, <3>5, <3>6
    <2>4. CASE verdict # "pending"
      BY <2>1, <2>4 DEF Settle
    <2> QED
      BY <2>3, <2>4
  <1>3. CASE Data
    <2>1. verdict' \in {verdict, "error"} /\ verdict # "clean" /\ UNCHANGED <<threat, streamed>>
      BY <1>3 DEF Data, Settle, clamdVars, SettledInv
    <2> QED
      BY <2>1
  <1>4. CASE Reset \/ Close \/ Timeout
    BY <1>4 DEF Reset, Close, Timeout, Settle, clamdVars
  <1>5. CASE Connect \/ Sanitize \/ \E text \in Answers : Answer(text)
    BY <1>5 DEF Connect, Sanitize, Answer, clamdVars
  <1>6. CASE UNCHANGED vars
    BY <1>6 DEF vars
  <1> QED
    BY <1>1, <1>2, <1>3, <1>4, <1>5, <1>6 DEF Next, Events

LEMMA Invariance == Spec => []IInv
  <1>1. IInv /\ [Next]_vars => IInv'
    BY TypedNext, AboutFileNext, SentNext, SettledNext, VerdictNext DEF IInv
  <1> QED
    BY <1>1, InitIInv, PTL DEF Spec

-----------------------------------------------------------------------------
\* The events of the socket in clamav.ts keep what the client has received within
\* MAX_REPLY_BYTES, and the rest of its state of its type.
THEOREM TreatmentTypeCorrect == Spec => []TypeOK
  <1>1. IInv => TypeOK
    BY DEF IInv
  <1> QED
    BY <1>1, Invariance, PTL

\* parseClamdReply() takes a verdict from an answer about the whole file, in whatever pieces it
\* comes and wherever it is cut, and the right one; but for the answer that names a threat whose
\* name begins with OK and is cut after these letters.
THEOREM VerdictCorrect == Spec => []VerdictIsAboutTheFile
  <1>1. IInv => VerdictIsAboutTheFile
    BY DEF IInv
  <1> QED
    BY <1>1, Invariance, PTL
-----------------------------------------------------------------------------
(***************************************************************************)
(* The values of recursive functions.  A function that CHOOSE takes among  *)
(* the solutions of its equation is the one solution there is, when each   *)
(* of its values looks only at those of positions further on; and what is  *)
(* made of pieces put one after the other.                                 *)
(***************************************************************************)

\* Every inhabited set of numbers has a least one.
LEMMA LeastNumber ==
  ASSUME NEW T \in SUBSET Nat, T # {}
  PROVE  \E x \in T : \A y \in T : x <= y
  <1>1. PICK x \in T : \A y \in T : ~(<<y, x>> \in OpToRel(<, Nat))
    BY NatLessThanWellFounded, WFMin
  <1>2. \A y \in T : <<y, x>> \in OpToRel(<, Nat) <=> y < x
    BY DEF OpToRel
  <1>3. \A y \in T : y \in Nat /\ ~(y < x)
    BY <1>1, <1>2
  <1> QED
    BY <1>3

\* A set that has m and, with every number below n, the next one, has all from m to n.
LEMMA Reached ==
  ASSUME NEW m \in Nat, NEW n \in Nat, NEW T, m \in T,
         \A k \in m .. n : k \in T /\ k < n => k + 1 \in T
  PROVE  \A k \in m .. n : k \in T
  <1> DEFINE Missing == {k \in m .. n : k \notin T}
  <1>1. SUFFICES ASSUME Missing # {} PROVE FALSE
    OBVIOUS
  <1>2. Missing \in SUBSET Nat
    OBVIOUS
  <1>3. PICK k \in Missing : \A j \in Missing : k <= j
    BY <1>1, <1>2, LeastNumber
  <1>4. k # m /\ k - 1 \in m .. n /\ k - 1 \notin Missing /\ k \in Nat
    BY <1>3
  <1>5. k - 1 \in T /\ k - 1 < n /\ (k - 1) + 1 = k
    BY <1>4
  <1> QED
    BY <1>4, <1>5

\* The same, from the last to the first.
Downward(m, n, T) ==
  /\ m \in Nat /\ n \in Nat
  /\ \A k \in m .. n : (\A j \in m .. n : j > k => j \in T) => k \in T

\* A set that has each number of m .. n with which it has all those after it has them all.
LEMMA ReachedDown ==
  ASSUME NEW m, NEW n, NEW T, Downward(m, n, T)
  PROVE  \A k \in m .. n : k \in T
  <1> SUFFICES ASSUME m \in Nat, n \in Nat,
                      \A k \in m .. n : (\A j \in m .. n : j > k => j \in T) => k \in T
               PROVE  \A k \in m .. n : k \in T
    BY DEF Downward
  <1> DEFINE Missing == {i \in 0 .. n : n - i >= m /\ n - i \notin T}
  <1>1. SUFFICES ASSUME Missing # {} PROVE FALSE
    <2>1. ASSUME NEW k \in m .. n, k \notin T PROVE n - k \in Missing
      BY <2>1
    <2> QED BY <2>1
  <1>2. Missing \in SUBSET Nat
    OBVIOUS
  <1>3. PICK i \in Missing : \A j \in Missing : i <= j
    BY <1>1, <1>2, LeastNumber
  <1>4. ASSUME NEW j \in m .. n, j > n - i PROVE j \in T
    <2>1. n - j \in 0 .. n /\ n - j < i /\ n - (n - j) = j
      BY <1>4
    <2>2. n - j \notin Missing
      BY <2>1, <1>3
    <2> QED BY <2>1, <2>2
  <1>5. n - i \in m .. n /\ n - i \notin T
    BY <1>3
  <1> QED
    BY <1>4, <1>5

\* What a recursive definition makes of the values at n positions at each of them, when it only
\* looks at those after it; and its solutions.
LooksAhead(step, n, V) ==
  /\ n \in Nat /\ V # {}
  /\ step \in [1 .. n -> [[1 .. n -> V] -> V]]
  /\ \A i \in 1 .. n : \A g, h \in [1 .. n -> V] :
       (\A j \in 1 .. n : j > i => g[j] = h[j]) => step[i][g] = step[i][h]

Solves(f, step, n, V) == f \in [1 .. n -> V] /\ \A i \in 1 .. n : f[i] = step[i][f]

\* Such a definition has a solution.
LEMMA Recursion ==
  ASSUME NEW n, NEW V, NEW step, LooksAhead(step, n, V)
  PROVE  \E f : Solves(f, step, n, V)
  <1> SUFFICES ASSUME n \in Nat, V # {}, step \in [1 .. n -> [[1 .. n -> V] -> V]],
                      \A i \in 1 .. n : \A g, h \in [1 .. n -> V] :
                        (\A j \in 1 .. n : j > i => g[j] = h[j]) => step[i][g] = step[i][h]
               PROVE  \E f \in [1 .. n -> V] : \A i \in 1 .. n : f[i] = step[i][f]
    BY DEF LooksAhead, Solves
  <1> DEFINE T == {k \in 1 .. n + 1 : \E f \in [1 .. n -> V] : \A i \in k .. n : f[i] = step[i][f]}
  <1>1. \A k \in 1 .. n + 1 : (\A j \in 1 .. n + 1 : j > k => j \in T) => k \in T
    <2> SUFFICES ASSUME NEW k \in 1 .. n + 1, \A j \in 1 .. n + 1 : j > k => j \in T PROVE k \in T
      OBVIOUS
    <2>1. CASE k = n + 1
      <3>0. PICK any \in V : TRUE
        OBVIOUS
      <3>1. [i \in 1 .. n |-> any] \in [1 .. n -> V]
        OBVIOUS
      <3>2. k .. n = {}
        BY <2>1
      <3> QED
        BY <3>1, <3>2
    <2>2. CASE k # n + 1
      <3>1. k \in 1 .. n /\ k + 1 \in T
        <4>1. k \in 1 .. n /\ k + 1 \in 1 .. n + 1 /\ k + 1 > k
          BY <2>2
        <4> HIDE DEF T
        <4> QED BY <4>1
      <3>2. PICK f \in [1 .. n -> V] : \A i \in k + 1 .. n : f[i] = step[i][f]
        BY <3>1
      <3> DEFINE g == [f EXCEPT ![k] = step[k][f]]
      <3>3. g \in [1 .. n -> V] /\ g[k] = step[k][f] /\ \A j \in 1 .. n : j # k => g[j] = f[j]
        BY <3>1
      <3> HIDE DEF g
      <3>4. \A i \in k .. n : step[i][g] = step[i][f]
        BY <3>1, <3>3
      <3>5. \A i \in k .. n : g[i] = step[i][g]
        BY <3>1, <3>2, <3>3, <3>4
      <3> QED
        BY <3>1, <3>3, <3>5
    <2> QED
      BY <2>1, <2>2
  <1> HIDE DEF T
  <1>2. \A k \in 1 .. n + 1 : k \in T
    <2>1. 1 \in Nat /\ n + 1 \in Nat
      OBVIOUS
    <2>2. Downward(1, n + 1, T)
      BY <1>1, <2>1 DEF Downward
    <2> QED BY <2>2, ReachedDown
  <1>3. 1 \in T
    BY <1>2
  <1> QED
    BY <1>3 DEF T

\* What FlattenSeq makes of some pieces, piece by piece.
LEMMA Flattened ==
  ASSUME NEW S, NEW seqs \in Seq(Seq(S))
  PROVE  \E fl \in [0 .. Len(seqs) -> Seq(S)] :
           /\ fl[0] = <<>>
           /\ \A k \in 1 .. Len(seqs) : fl[k] = fl[k - 1] \o seqs[k]
           /\ FlattenSeq(seqs) = fl[Len(seqs)]
  <1> DEFINE n == Len(seqs)
             T == {m \in 0 .. n : \E fl \in [0 .. n -> Seq(S)] :
                     fl[0] = <<>> /\ \A k \in 1 .. m : fl[k] = fl[k - 1] \o seqs[k]}
  <1>0. n \in Nat /\ \A k \in 1 .. n : seqs[k] \in Seq(S)
    BY LenProperties, ElementOfSeq
  <1> HIDE DEF n
  <1>1. 0 \in T
    <2>1. [k \in 0 .. n |-> <<>>] \in [0 .. n -> Seq(S)]
      BY EmptySeq
    <2>2. 1 .. 0 = {} /\ 0 \in 0 .. n
      BY <1>0
    <2>3. \A k \in 0 .. n : [i \in 0 .. n |-> <<>>][k] = <<>>
      OBVIOUS
    <2> QED
      BY <2>1, <2>2, <2>3
  <1>2. ASSUME NEW m \in 0 .. n, m \in T, m < n PROVE m + 1 \in T
    <2>1. PICK fl \in [0 .. n -> Seq(S)] :
            fl[0] = <<>> /\ \A k \in 1 .. m : fl[k] = fl[k - 1] \o seqs[k]
      BY <1>2
    <2> DEFINE g == [fl EXCEPT ![m + 1] = fl[m] \o seqs[m + 1]]
    <2>2. m + 1 \in 1 .. n /\ fl[m] \in Seq(S) /\ seqs[m + 1] \in Seq(S)
      BY <1>0, <1>2
    <2>3. fl[m] \o seqs[m + 1] \in Seq(S)
      BY <2>2, ConcatProperties
    <2>4. /\ g \in [0 .. n -> Seq(S)]
          /\ g[m + 1] = fl[m] \o seqs[m + 1]
          /\ \A k \in 0 .. n : k # m + 1 => g[k] = fl[k]
      <3>1. m + 1 \in 0 .. n
        BY <1>0, <2>2
      <3>2. \A x \in Seq(S) : LET h == [fl EXCEPT ![m + 1] = x]
                              IN /\ h \in [0 .. n -> Seq(S)]
                                 /\ h[m + 1] = x
                                 /\ \A k \in 0 .. n : k # m + 1 => h[k] = fl[k]
        BY <3>1
      <3> QED BY <2>3, <3>2
    <2> HIDE DEF g
    <2>5. g[0] = <<>> /\ \A k \in 1 .. m + 1 : g[k] = g[k - 1] \o seqs[k]
      <3>1. g[0] = <<>>
        BY <1>0, <2>1, <2>2, <2>4
      <3>2. ASSUME NEW k \in 1 .. m + 1 PROVE g[k] = g[k - 1] \o seqs[k]
        <4>1. k \in 0 .. n /\ k - 1 \in 0 .. n /\ k - 1 # m + 1
          BY <1>0, <2>2
        <4>2. g[k - 1] = fl[k - 1]
          BY <4>1, <2>4
        <4>3. CASE k = m + 1
          BY <4>2, <4>3, <2>4
        <4>4. CASE k # m + 1
          <5>1. k \in 1 .. m
            BY <4>4
          <5> QED BY <4>1, <4>2, <4>4, <5>1, <2>1, <2>4
        <4> QED BY <4>3, <4>4
      <3> QED BY <3>1, <3>2
    <2>6. m + 1 \in 0 .. n
      BY <1>0, <2>2
    <2>7. \E h \in [0 .. n -> Seq(S)] :
            h[0] = <<>> /\ \A k \in 1 .. m + 1 : h[k] = h[k - 1] \o seqs[k]
      BY <2>4, <2>5
    <2> QED
      BY <2>6, <2>7
  <1> HIDE DEF T
  <1>3. n \in T
    <2>1. 0 \in Nat /\ n \in 0 .. n
      BY <1>0
    <2>2. \A k \in 0 .. n : k \in T /\ k < n => k + 1 \in T
      BY <1>2
    <2> QED
      BY <1>0, <1>1, <2>1, <2>2, Reached
  <1>4. PICK fl \in [0 .. n -> Seq(S)] :
          fl[0] = <<>> /\ \A k \in 1 .. n : fl[k] = fl[k - 1] \o seqs[k]
    BY <1>3 DEF T
  <1> DEFINE Def(g) == [i \in 1 .. n |-> IF i = 1 THEN seqs[i] ELSE g[i - 1] \o seqs[i]]
             r == [i \in 1 .. n |-> fl[i]]
             c == CHOOSE g : g = Def(g)
  <1>5. r = Def(r)
    <2>1. ASSUME NEW i \in 1 .. n
          PROVE  r[i] = IF i = 1 THEN seqs[i] ELSE r[i - 1] \o seqs[i]
      <3>1. CASE i = 1
        <4>0. 1 \in 1 .. n /\ 1 - 1 = 0
          BY <3>1
        <4>1. fl[1] = <<>> \o seqs[1] /\ seqs[1] \in Seq(S)
          BY <1>0, <1>4, <4>0
        <4>2. fl[1] = seqs[1]
          BY <4>1, ConcatEmptySeq
        <4> QED BY <4>2, <3>1
      <3>2. CASE i # 1
        <4>1. i \in 1 .. n /\ i - 1 \in 1 .. n
          BY <1>0, <3>2
        <4>2. fl[i] = fl[i - 1] \o seqs[i]
          BY <1>4
        <4> QED BY <4>1, <4>2, <3>2
      <3> QED BY <3>1, <3>2
    <2> QED BY <2>1
  <1>6. c = Def(c)
    BY <1>5
  <1>6a. \A i \in 1 .. n : c[i] = IF i = 1 THEN seqs[i] ELSE c[i - 1] \o seqs[i]
    <2> HIDE DEF c
    <2> QED BY <1>6
  <1>7. CASE n = 0
    <2>1. FlattenSeq(seqs) = seqs /\ seqs = <<>>
      BY <1>7, EmptySeq DEF FlattenSeq, n
    <2> QED
      BY <1>4, <1>7, <2>1 DEF n
  <1>8. CASE n # 0
    <2>1. FlattenSeq(seqs) = c[n]
      BY <1>8 DEF FlattenSeq, n
    <2>2. \A i \in 1 .. n : c[i] = fl[i]
      <3> DEFINE U == {i \in 1 .. n : c[i] = fl[i]}
      <3> HIDE DEF c
      <3>1. 1 \in U
        <4>1. 1 \in 1 .. n /\ fl[1] = r[1] /\ r[1] = seqs[1]
          BY <1>5, <1>8, <1>0
        <4> QED BY <1>6a, <4>1
      <3>2. ASSUME NEW i \in 1 .. n, i \in U, i < n PROVE i + 1 \in U
        <4>1. i + 1 \in 1 .. n /\ i + 1 # 1 /\ (i + 1) - 1 = i
          BY <1>0, <3>2
        <4>2. c[i + 1] = c[i] \o seqs[i + 1] /\ fl[i + 1] = fl[i] \o seqs[i + 1]
          BY <1>6a, <1>4, <4>1
        <4> QED BY <4>1, <4>2, <3>2
      <3> HIDE DEF U
      <3>3. \A i \in 1 .. n : i \in U
        <4>1. 1 \in Nat
          OBVIOUS
        <4> QED BY <3>1, <3>2, <4>1, <1>0, Reached
      <3> QED BY <3>3 DEF U
    <2>3. n \in 1 .. n
      BY <1>8, <1>0
    <2> HIDE DEF c
    <2>4. FlattenSeq(seqs) = fl[n]
      BY <2>1, <2>2, <2>3
    <2> QED BY <2>4, <1>4 DEF n
  <1> QED
    BY <1>7, <1>8

\* A function on 1 .. n is a sequence.
LEMMA FunctionIsSeq ==
  ASSUME NEW n \in Nat, NEW S, NEW f \in [1 .. n -> S]
  PROVE  f \in Seq(S) /\ Len(f) = n
  <1>1. f \in Seq(S)
    OBVIOUS
  <1> QED
    BY <1>1, LenProperties

\* What is where in two sequences put together.
LEMMA Joined ==
  ASSUME NEW S, NEW s \in Seq(S), NEW t \in Seq(S)
  PROVE  /\ s \o t \in Seq(S) /\ Len(s \o t) = Len(s) + Len(t)
         /\ \A j \in 1 .. Len(s) : (s \o t)[j] = s[j]
         /\ \A j \in 1 .. Len(t) : (s \o t)[Len(s) + j] = t[j]
  <1> DEFINE m == Len(s)
             n == Len(t)
             u == s \o t
  <1>1. m \in Nat /\ n \in Nat
    BY LenProperties
  <1>2. /\ u \in Seq(S) /\ Len(u) = m + n
        /\ \A i \in 1 .. m + n : u[i] = IF i <= m THEN s[i] ELSE t[i - m]
    BY ConcatProperties
  <1> HIDE DEF m, n, u
  <1>3. \A j \in 1 .. m : u[j] = s[j]
    <2>1. \A j \in 1 .. m : j \in 1 .. m + n /\ j <= m
      BY <1>1
    <2> QED BY <1>2, <2>1
  <1>4. \A j \in 1 .. n : u[m + j] = t[j]
    <2>1. \A j \in 1 .. n : m + j \in 1 .. m + n /\ ~(m + j <= m) /\ (m + j) - m = j
      BY <1>1
    <2> QED BY <1>2, <2>1
  <1> QED
    BY <1>2, <1>3, <1>4 DEF m, n, u

\* Where the pieces of a sequence end in it.
Ends(at, seqs, S) ==
  /\ at \in [0 .. Len(seqs) -> Nat] /\ at[0] = 0
  /\ FlattenSeq(seqs) \in Seq(S) /\ Len(FlattenSeq(seqs)) = at[Len(seqs)]
  /\ \A k \in 1 .. Len(seqs) :
       /\ at[k] = at[k - 1] + Len(seqs[k])
       /\ at[k] <= at[Len(seqs)]
       /\ \A j \in 1 .. Len(seqs[k]) : FlattenSeq(seqs)[at[k - 1] + j] = seqs[k][j]

\* Every sequence of pieces has such positions.
LEMMA Layout ==
  ASSUME NEW S, NEW seqs \in Seq(Seq(S))
  PROVE  \E at : Ends(at, seqs, S)
  <1> DEFINE n == Len(seqs)
  <1>1. n \in Nat /\ \A k \in 1 .. n : seqs[k] \in Seq(S) /\ Len(seqs[k]) \in Nat
    BY ElementOfSeq, LenProperties
  <1>2. PICK fl \in [0 .. n -> Seq(S)] :
           /\ fl[0] = <<>>
           /\ \A k \in 1 .. n : fl[k] = fl[k - 1] \o seqs[k]
           /\ FlattenSeq(seqs) = fl[n]
    BY Flattened
  <1> HIDE DEF n
  <1> DEFINE at == [k \in 0 .. n |-> Len(fl[k])]
             by == [k \in 1 .. n |-> Len(seqs[k])]
  <1>3. at \in [0 .. n -> Nat] /\ \A k \in 0 .. n : at[k] = Len(fl[k]) /\ fl[k] \in Seq(S)
    BY LenProperties
  <1>4. by \in [1 .. n -> Nat] /\ \A k \in 1 .. n : by[k] = Len(seqs[k])
    BY <1>1
  <1> HIDE DEF at, by
  <1>5. \A k \in 1 .. n : k - 1 \in 0 .. n /\ k \in 0 .. n
    BY <1>1
  <1>6. \A k \in 1 .. n :
          /\ at[k] = at[k - 1] + by[k]
          /\ \A j \in 1 .. at[k - 1] : fl[k][j] = fl[k - 1][j]
          /\ \A j \in 1 .. by[k] : fl[k][at[k - 1] + j] = seqs[k][j]
    <2> SUFFICES ASSUME NEW k \in 1 .. n
                 PROVE  /\ at[k] = at[k - 1] + by[k]
                        /\ \A j \in 1 .. at[k - 1] : fl[k][j] = fl[k - 1][j]
                        /\ \A j \in 1 .. by[k] : fl[k][at[k - 1] + j] = seqs[k][j]
      OBVIOUS
    <2> DEFINE p == fl[k - 1]
               q == seqs[k]
    <2>1. p \in Seq(S) /\ q \in Seq(S) /\ fl[k] = p \o q
      BY <1>1, <1>2, <1>3, <1>5
    <2>2. at[k] = Len(fl[k]) /\ at[k - 1] = Len(p) /\ by[k] = Len(q)
      BY <1>3, <1>4, <1>5
    <2> HIDE DEF p, q
    <2>3. /\ Len(p \o q) = Len(p) + Len(q)
          /\ \A j \in 1 .. Len(p) : (p \o q)[j] = p[j]
          /\ \A j \in 1 .. Len(q) : (p \o q)[Len(p) + j] = q[j]
      BY <2>1, Joined
    <2>4. /\ at[k] = at[k - 1] + by[k]
          /\ \A j \in 1 .. at[k - 1] : fl[k][j] = p[j]
          /\ \A j \in 1 .. by[k] : fl[k][at[k - 1] + j] = q[j]
      BY <2>1, <2>2, <2>3
    <2> QED BY <2>4 DEF p, q
  <1>7. ASSUME NEW m \in 0 .. n
        PROVE  at[m] <= at[n] /\ \A j \in 1 .. at[m] : fl[n][j] = fl[m][j]
    <2> DEFINE T == {k \in m .. n : at[m] <= at[k] /\ \A j \in 1 .. at[m] : fl[k][j] = fl[m][j]}
    <2>1. m \in T
      BY <1>3, <1>1
    <2>2. ASSUME NEW k \in m .. n, k \in T, k < n PROVE k + 1 \in T
      <3>1. k + 1 \in 1 .. n /\ k + 1 \in m .. n /\ (k + 1) - 1 = k /\ k \in 0 .. n /\ k + 1 \in 0 .. n
        BY <1>1, <2>2
      <3>2. /\ at[k + 1] = at[k] + by[k + 1]
            /\ \A j \in 1 .. at[k] : fl[k + 1][j] = fl[k][j]
        BY <3>1, <1>6
      <3>3. at[k] \in Nat /\ by[k + 1] \in Nat /\ at[m] \in Nat /\ at[k + 1] \in Nat
        BY <3>1, <1>3, <1>4
      <3>4. at[m] <= at[k] /\ \A j \in 1 .. at[m] : fl[k][j] = fl[m][j]
        BY <2>2
      <3>5. at[m] <= at[k + 1] /\ \A j \in 1 .. at[m] : j \in 1 .. at[k]
        BY <3>2, <3>3, <3>4
      <3>6. \A j \in 1 .. at[m] : fl[k + 1][j] = fl[m][j]
        BY <3>2, <3>4, <3>5
      <3> QED
        BY <3>1, <3>5, <3>6
    <2> HIDE DEF T
    <2>3. n \in T
      <3>1. m \in Nat /\ n \in m .. n
        BY <1>1
      <3> QED BY <1>1, <2>1, <2>2, <3>1, Reached
    <2> QED
      BY <2>3 DEF T
  <1>8. ASSUME NEW k \in 1 .. n, NEW j \in 1 .. by[k] PROVE fl[n][at[k - 1] + j] = seqs[k][j]
    <2>1. at[k - 1] \in Nat /\ by[k] \in Nat /\ at[k] = at[k - 1] + by[k]
      BY <1>3, <1>4, <1>5, <1>6
    <2>2. at[k - 1] + j \in 1 .. at[k]
      BY <2>1
    <2>3. fl[n][at[k - 1] + j] = fl[k][at[k - 1] + j]
      BY <2>2, <1>5, <1>7
    <2> QED BY <2>3, <1>6
  <1>9. at[0] = 0 /\ fl[n] \in Seq(S) /\ Len(fl[n]) = at[n]
    <2>1. 0 \in 0 .. n /\ n \in 0 .. n
      BY <1>1
    <2>2. at[0] = Len(fl[0])
      BY <2>1, <1>3
    <2>3. Len(fl[0]) = 0
      BY <1>2, EmptySeq
    <2> QED BY <2>1, <2>2, <2>3, <1>3
  <1>10. \A k \in 1 .. n : at[k] <= at[n]
    BY <1>7, <1>5
  <1>11. \A k \in 1 .. n : at[k] = at[k - 1] + Len(seqs[k])
    BY <1>4, <1>6
  <1>12. \A k \in 1 .. n : \A j \in 1 .. Len(seqs[k]) : FlattenSeq(seqs)[at[k - 1] + j] = seqs[k][j]
    BY <1>2, <1>4, <1>8
  <1>13. Ends(at, seqs, S)
    BY <1>2, <1>3, <1>9, <1>10, <1>11, <1>12 DEF n, Ends
  <1> QED
    BY <1>13

\* Something put before something else that is put before a foot, when there is no refusal.
LEMMA Assembled ==
  ASSUME NEW S, NEW head \in Seq(S), NEW s \in Seq(S), NEW foot \in Seq(S), foot # Refused
  PROVE  Before(head, Before(s, foot)) = (head \o s) \o foot
  <1>1. Before(s, foot) = s \o foot
    BY DEF Before
  <1>2. s \o foot # <<>>
    BY ConcatEqualIffEmpty DEF Refused
  <1>3. Before(head, Before(s, foot)) = head \o (s \o foot)
    BY <1>1, <1>2 DEF Before, Refused
  <1>4. (head \o s) \o foot = head \o (s \o foot)
    BY ConcatAssociative
  <1> QED BY <1>3, <1>4

\* From each piece on, what is V has the piece before what it has from the next.
Chained(V, seqs, S) ==
  /\ V \in [0 .. Len(seqs) -> Seq(S)]
  /\ \A k \in 1 .. Len(seqs) : V[k - 1] = Before(seqs[k], V[k])

\* Pieces put before something one after the other are all before it.
LEMMA PutBefore ==
  ASSUME NEW S, NEW seqs \in Seq(Seq(S)), NEW V, Chained(V, seqs, S)
  PROVE  V[0] = Before(FlattenSeq(seqs), V[Len(seqs)]) /\ FlattenSeq(seqs) \in Seq(S)
  <1> DEFINE n == Len(seqs)
  <1>0. /\ V \in [0 .. n -> Seq(S)]
        /\ \A k \in 1 .. n : V[k - 1] = Before(seqs[k], V[k])
    BY DEF Chained
  <1>1. n \in Nat /\ \A k \in 1 .. n : seqs[k] \in Seq(S)
    BY LenProperties, ElementOfSeq
  <1>2. PICK fl \in [0 .. n -> Seq(S)] :
           /\ fl[0] = <<>>
           /\ \A k \in 1 .. n : fl[k] = fl[k - 1] \o seqs[k]
           /\ FlattenSeq(seqs) = fl[n]
    BY Flattened
  <1> HIDE DEF n
  <1>3. \A k \in 1 .. n : V[k - 1] = Before(seqs[k], V[k])
    BY <1>0
  <1>4. \A k \in 0 .. n : fl[k] \in Seq(S) /\ V[k] \in Seq(S)
    BY <1>0
  <1>5. FlattenSeq(seqs) \in Seq(S)
    BY <1>1, <1>2, <1>4
  <1>6. CASE V[n] = <<>>
    <2> DEFINE T == {k \in 0 .. n : V[k] = <<>>}
    <2>1. ASSUME NEW k \in 0 .. n, \A j \in 0 .. n : j > k => j \in T PROVE k \in T
      <3>1. CASE k = n
        BY <3>1, <1>6
      <3>2. CASE k # n
        <4>1. k + 1 \in 1 .. n /\ k + 1 \in 0 .. n /\ k + 1 > k /\ (k + 1) - 1 = k
          BY <1>1, <3>2
        <4>2. V[k + 1] = <<>>
          BY <4>1, <2>1
        <4>3. V[k] = Before(seqs[k + 1], V[k + 1])
          BY <4>1, <1>3
        <4> QED BY <4>2, <4>3 DEF Before, Refused
      <3> QED BY <3>1, <3>2
    <2> HIDE DEF T
    <2>2. 0 \in T
      <3>1. 0 \in Nat /\ 0 \in 0 .. n
        BY <1>1
      <3>2. Downward(0, n, T)
        BY <2>1, <3>1, <1>1 DEF Downward
      <3> QED BY <3>1, <3>2, ReachedDown
    <2> QED
      BY <2>2, <1>6, <1>5 DEF T, Before, Refused, n
  <1>7. CASE V[n] # <<>>
    <2> DEFINE N == {k \in 0 .. n : V[k] # <<>>}
    <2>1. ASSUME NEW k \in 0 .. n, \A j \in 0 .. n : j > k => j \in N PROVE k \in N
      <3>1. CASE k = n
        BY <3>1, <1>7
      <3>2. CASE k # n
        <4>1. k + 1 \in 1 .. n /\ k + 1 \in 0 .. n /\ k + 1 > k /\ (k + 1) - 1 = k
          BY <1>1, <3>2
        <4>2. V[k + 1] # <<>>
          BY <4>1, <2>1
        <4>3. V[k] = seqs[k + 1] \o V[k + 1]
          BY <4>1, <4>2, <1>3 DEF Before, Refused
        <4>4. seqs[k + 1] \in Seq(S) /\ V[k + 1] \in Seq(S)
          BY <4>1, <1>1, <1>4
        <4>5. seqs[k + 1] \o V[k + 1] # <<>>
          BY <4>2, <4>4, ConcatEqualIffEmpty
        <4> QED BY <4>3, <4>5
      <3> QED BY <3>1, <3>2
    <2> HIDE DEF N
    <2>2. \A k \in 0 .. n : k \in N
      <3>1. 0 \in Nat
        OBVIOUS
      <3>2. Downward(0, n, N)
        BY <2>1, <3>1, <1>1 DEF Downward
      <3> QED BY <3>2, ReachedDown
    <2> DEFINE T == {k \in 0 .. n : V[0] = fl[k] \o V[k]}
    <2>3. 0 \in T
      <3>1. 0 \in 0 .. n /\ V[0] \in Seq(S)
        BY <1>1, <1>4
      <3>2. V[0] = <<>> \o V[0]
        BY <3>1, ConcatEmptySeq
      <3> QED BY <3>1, <3>2, <1>2
    <2>4. ASSUME NEW k \in 0 .. n, k \in T, k < n PROVE k + 1 \in T
      <3>1. k + 1 \in 1 .. n /\ k + 1 \in 0 .. n /\ (k + 1) - 1 = k
        BY <1>1, <2>4
      <3>2. V[k + 1] # <<>>
        BY <2>2, <3>1 DEF N
      <3>3. V[k] = seqs[k + 1] \o V[k + 1]
        BY <3>1, <3>2, <1>3 DEF Before, Refused
      <3>4. fl[k] \in Seq(S) /\ seqs[k + 1] \in Seq(S) /\ V[k + 1] \in Seq(S)
        BY <3>1, <1>1, <1>4
      <3>5. fl[k] \o (seqs[k + 1] \o V[k + 1]) = (fl[k] \o seqs[k + 1]) \o V[k + 1]
        <4> DEFINE p == fl[k]
                   q == seqs[k + 1]
                   v == V[k + 1]
        <4>1. p \in Seq(S) /\ q \in Seq(S) /\ v \in Seq(S)
          BY <3>4
        <4> HIDE DEF p, q, v
        <4>2. (p \o q) \o v = p \o (q \o v)
          BY <4>1, ConcatAssociative
        <4> QED BY <4>2 DEF p, q, v
      <3>6. fl[k + 1] = fl[k] \o seqs[k + 1]
        BY <3>1, <1>2
      <3>7. V[0] = fl[k] \o V[k]
        BY <2>4
      <3>8. V[0] = fl[k + 1] \o V[k + 1]
        BY <3>3, <3>5, <3>6, <3>7
      <3> QED BY <3>1, <3>8
    <2> HIDE DEF T
    <2>5. n \in T
      <3>1. 0 \in Nat /\ n \in 0 .. n
        BY <1>1
      <3> QED BY <2>3, <2>4, <3>1, <1>1, Reached
    <2>6. V[0] = fl[n] \o V[n]
      BY <2>5 DEF T
    <2> QED
      BY <2>6, <1>7, <1>5, <1>2 DEF Before, Refused, n
  <1> QED
    BY <1>6, <1>7

-----------------------------------------------------------------------------
(***************************************************************************)
(* Where the pieces of a file are in it, and the copy that a walk makes    *)
(* when it goes from each piece to the next.                               *)
(***************************************************************************)

\* What SubSeq(b, i, j) has when i .. j are positions of b.
LEMMA Slice ==
  ASSUME NEW S, NEW b \in Seq(S), NEW i \in Nat, NEW j \in Nat, 1 <= i, i <= j + 1, j <= Len(b)
  PROVE  /\ SubSeq(b, i, j) \in Seq(S)
         /\ Len(SubSeq(b, i, j)) = (j + 1) - i
         /\ \A k \in 1 .. (j + 1) - i : SubSeq(b, i, j)[k] = b[(i + k) - 1]
  <1>1. Len(b) \in Nat /\ i \in Int /\ j \in Int
    BY LenProperties
  <1>2. \A k \in i .. j : k \in 1 .. Len(b)
    BY <1>1
  <1>3. \A k \in i .. j : b[k] \in S
    BY <1>2, ElementOfSeq
  <1>4. /\ SubSeq(b, i, j) \in Seq(S)
        /\ Len(SubSeq(b, i, j)) = IF i <= j THEN j - i + 1 ELSE 0
        /\ \A k \in 1 .. j - i + 1 : SubSeq(b, i, j)[k] = b[i + k - 1]
    BY <1>1, <1>3, SubSeqProperties
  <1>5. Len(SubSeq(b, i, j)) = (j + 1) - i
    <2>1. CASE i <= j
      <3>1. Len(SubSeq(b, i, j)) = j - i + 1
        BY <1>4, <2>1
      <3>2. j - i + 1 = (j + 1) - i
        BY <1>1
      <3> QED BY <3>1, <3>2
    <2>2. CASE ~(i <= j)
      <3>1. Len(SubSeq(b, i, j)) = 0
        BY <1>4, <2>2
      <3>2. (j + 1) - i = 0
        BY <2>2, <1>1
      <3> QED BY <3>1, <3>2
    <2> QED BY <2>1, <2>2
  <1>6. j - i + 1 = (j + 1) - i /\ \A k \in 1 .. (j + 1) - i : i + k - 1 = (i + k) - 1
    BY <1>1
  <1> QED
    BY <1>4, <1>5, <1>6

\* Positions from an offset on.
LEMMA Offsets ==
  ASSUME NEW o \in Nat, NEW n \in Nat
  PROVE  /\ o + 1 \in Nat /\ o + n \in Nat /\ 1 <= o + 1 /\ o + 1 <= (o + n) + 1
         /\ ((o + n) + 1) - (o + 1) = n
         /\ \A k \in 1 .. n : ((o + 1) + k) - 1 = o + k
  OBVIOUS

\* SubSeq(b, i, j) is w when b has w there.
LEMMA SliceIs ==
  ASSUME NEW S, NEW b \in Seq(S), NEW w \in Seq(S), NEW o \in Nat, NEW n \in Nat,
         n = Len(w), o + n <= Len(b), \A j \in 1 .. n : b[o + j] = w[j]
  PROVE  SubSeq(b, o + 1, o + n) = w
  <1>1. /\ o + 1 \in Nat /\ o + n \in Nat /\ 1 <= o + 1 /\ o + 1 <= (o + n) + 1
        /\ ((o + n) + 1) - (o + 1) = n
    BY Offsets
  <1>2. /\ SubSeq(b, o + 1, o + n) \in Seq(S)
        /\ Len(SubSeq(b, o + 1, o + n)) = n
        /\ \A k \in 1 .. n : SubSeq(b, o + 1, o + n)[k] = b[((o + 1) + k) - 1]
    BY <1>1, Slice
  <1>3. \A k \in 1 .. n : ((o + 1) + k) - 1 = o + k
    BY Offsets
  <1>4. \A k \in 1 .. n : SubSeq(b, o + 1, o + n)[k] = w[k]
    BY <1>2, <1>3
  <1> QED
    BY <1>2, <1>4, SeqEqual

\* What is put before something is a sequence of the same elements.
LEMMA BeforeTyped ==
  ASSUME NEW S, NEW s \in Seq(S), NEW t \in Seq(S)
  PROVE  Before(s, t) \in Seq(S)
  BY ConcatProperties, EmptySeq DEF Before, Refused

\* A chunk that is whole is kept or not; it ends after where it begins.
LEMMA ChunkTyped ==
  ASSUME NEW b \in Seq(Nat), NEW i \in Nat, 1 <= i, i + 2 <= Len(b), ChunkEnd(b, i) - 1 <= Len(b)
  PROVE  /\ b[i] \in Nat /\ b[i + 1] \in Nat
         /\ ChunkEnd(b, i) \in 1 .. Len(b) + 1 /\ ChunkEnd(b, i) > i
         /\ KeptChunk(b, i) \in Seq(Nat)
  <1>1. Len(b) \in Nat
    BY LenProperties
  <1>2. i \in 1 .. Len(b) /\ i + 1 \in 1 .. Len(b)
    BY <1>1
  <1>3. b[i] \in Nat /\ b[i + 1] \in Nat
    BY <1>2, ElementOfSeq
  <1>4. ChunkEnd(b, i) \in 1 .. Len(b) + 1 /\ ChunkEnd(b, i) > i
    BY <1>1, <1>3 DEF ChunkEnd
  <1>5. SubSeq(b, i, ChunkEnd(b, i) - 1) \in Seq(Nat)
    <2>1. /\ ChunkEnd(b, i) - 1 \in Nat /\ i <= (ChunkEnd(b, i) - 1) + 1
      BY <1>4
    <2> QED BY <2>1, Slice
  <1> QED
    BY <1>3, <1>4, <1>5, EmptySeq DEF KeptChunk

\* The walk over chunks has the values its definition says, all of them sequences.
LEMMA PngWalkStep ==
  ASSUME NEW b \in Seq(Nat)
  PROVE  /\ PngWalk(b) \in [1 .. Len(b) + 1 -> Seq(Nat)]
         /\ \A i \in 1 .. Len(b) + 1 : PngWalk(b)[i] =
              IF i + 2 > Len(b) \/ b[i + 1] \notin PNG_CHUNKS \/ ChunkEnd(b, i) - 1 > Len(b) THEN Refused
              ELSE IF b[i + 1] = IEND THEN KeptChunk(b, i)
              ELSE Before(KeptChunk(b, i), PngWalk(b)[ChunkEnd(b, i)])
  <1> DEFINE top == Len(b) + 1
             Body(k, g) ==
               IF k + 2 > Len(b) \/ b[k + 1] \notin PNG_CHUNKS \/ ChunkEnd(b, k) - 1 > Len(b) THEN Refused
               ELSE IF b[k + 1] = IEND THEN KeptChunk(b, k)
               ELSE Before(KeptChunk(b, k), g[ChunkEnd(b, k)])
             walk == [k \in 1 .. top |-> [g \in [1 .. top -> Seq(Nat)] |-> Body(k, g)]]
  <1>1. top \in Nat /\ Len(b) \in Nat
    BY LenProperties
  <1>2. ASSUME NEW k \in 1 .. top,
               ~(k + 2 > Len(b) \/ b[k + 1] \notin PNG_CHUNKS \/ ChunkEnd(b, k) - 1 > Len(b))
        PROVE  ChunkEnd(b, k) \in 1 .. top /\ ChunkEnd(b, k) > k /\ KeptChunk(b, k) \in Seq(Nat)
    <2>1. k \in Nat /\ 1 <= k /\ k + 2 <= Len(b)
      BY <1>1, <1>2
    <2>2. ChunkEnd(b, k) - 1 <= Len(b)
      <3>1. k \in 1 .. Len(b)
        BY <2>1, <1>1
      <3>2. b[k] \in Nat
        BY <3>1, ElementOfSeq
      <3> QED BY <3>2, <2>1, <1>1, <1>2 DEF ChunkEnd
    <2> QED BY <2>1, <2>2, ChunkTyped
  <1>3. ASSUME NEW k \in 1 .. top, NEW g \in [1 .. top -> Seq(Nat)] PROVE Body(k, g) \in Seq(Nat)
    <2>1. CASE k + 2 > Len(b) \/ b[k + 1] \notin PNG_CHUNKS \/ ChunkEnd(b, k) - 1 > Len(b)
      BY <2>1, EmptySeq DEF Refused
    <2>2. CASE ~(k + 2 > Len(b) \/ b[k + 1] \notin PNG_CHUNKS \/ ChunkEnd(b, k) - 1 > Len(b))
      <3>1. ChunkEnd(b, k) \in 1 .. top /\ KeptChunk(b, k) \in Seq(Nat)
        BY <1>2, <2>2
      <3>2. Before(KeptChunk(b, k), g[ChunkEnd(b, k)]) \in Seq(Nat)
        BY <3>1, BeforeTyped
      <3> QED BY <2>2, <3>1, <3>2
    <2> QED BY <2>1, <2>2
  <1>4. ASSUME NEW k \in 1 .. top, NEW g, NEW h, \A j \in 1 .. top : j > k => g[j] = h[j]
        PROVE  Body(k, g) = Body(k, h)
    BY <1>2, <1>4
  <1>5. \A k \in 1 .. top : \A g \in [1 .. top -> Seq(Nat)] : walk[k][g] = Body(k, g)
    OBVIOUS
  <1>6. walk \in [1 .. top -> [[1 .. top -> Seq(Nat)] -> Seq(Nat)]]
    BY <1>3
  <1>7. LooksAhead(walk, top, Seq(Nat))
    <2> HIDE DEF walk, Body
    <2>1. ASSUME NEW k \in 1 .. top, NEW g \in [1 .. top -> Seq(Nat)], NEW h \in [1 .. top -> Seq(Nat)],
                 \A j \in 1 .. top : j > k => g[j] = h[j]
          PROVE  walk[k][g] = walk[k][h]
      <3>1. Body(k, g) = Body(k, h)
        BY <2>1, <1>4
      <3> QED BY <3>1, <1>5
    <2>2. Seq(Nat) # {}
      BY EmptySeq
    <2> QED BY <2>1, <2>2, <1>1, <1>6 DEF LooksAhead
  <1> HIDE DEF walk, Body, top
  <1>8. PICK f : Solves(f, walk, top, Seq(Nat))
    BY <1>7, Recursion
  <1>8a. f \in [1 .. top -> Seq(Nat)] /\ \A k \in 1 .. top : f[k] = walk[k][f]
    BY <1>8 DEF Solves
  <1> DEFINE Def(g) == [k \in 1 .. top |-> Body(k, g)]
             c == CHOOSE g : g = Def(g)
  <1>9. f = Def(f)
    BY <1>5, <1>8a
  <1>10. c = Def(c)
    BY <1>9
  <1>11. PngWalk(b) = c
    BY DEF PngWalk, Body, top
  <1>12. \A k \in 1 .. top : c[k] = Body(k, c)
    <2> HIDE DEF c
    <2> QED BY <1>10
  <1>13. \A k \in 1 .. top : f[k] = Body(k, f)
    BY <1>5, <1>8a
  <1> HIDE DEF c
  <1> DEFINE T == {k \in 1 .. top : c[k] = f[k]}
  <1>14. ASSUME NEW k \in 1 .. top, \A j \in 1 .. top : j > k => j \in T PROVE k \in T
    <2>1. \A j \in 1 .. top : j > k => c[j] = f[j]
      BY <1>14
    <2>2. Body(k, c) = Body(k, f)
      BY <2>1, <1>4
    <2> QED BY <2>2, <1>12, <1>13
  <1> HIDE DEF T
  <1>15. \A k \in 1 .. top : k \in T
    <2>1. 1 \in Nat
      OBVIOUS
    <2>2. Downward(1, top, T)
      BY <2>1, <1>1, <1>14 DEF Downward
    <2> QED BY <2>2, ReachedDown
  <1>16. c \in [1 .. top -> Seq(Nat)]
    <2>1. \A k \in 1 .. top : c[k] \in Seq(Nat)
      BY <1>8a, <1>15 DEF T
    <2>2. c = [k \in 1 .. top |-> c[k]]
      BY <1>10, <1>12
    <2> QED BY <2>1, <2>2
  <1> QED
    BY <1>11, <1>12, <1>16 DEF Body, top

\* b has w from o + 1 on, as far as b goes.
Holds(b, o, w) == \A j \in 1 .. Len(w) : o + j <= Len(b) => b[o + j] = w[j]

\* Where a head, some pieces and a foot are in b, as far as b goes.
Lies(at, b, head, seqs, foot) ==
  /\ at \in [0 .. Len(seqs) -> Nat] /\ at[0] = Len(head)
  /\ \A k \in 1 .. Len(seqs) : at[k] = at[k - 1] + Len(seqs[k]) /\ Holds(b, at[k - 1], seqs[k])
  /\ Holds(b, 0, head) /\ Holds(b, at[Len(seqs)], foot)
  /\ Len(head \o FlattenSeq(seqs) \o foot \o <<>>) = at[Len(seqs)] + Len(foot)

\* b has as much of a head, some pieces, a foot and a tail as there is of them.
CutOff(b, head, seqs, foot, tail, l, S) ==
  /\ head \in Seq(S) /\ seqs \in Seq(Seq(S)) /\ foot \in Seq(S) /\ tail \in Seq(S) /\ l \in Nat
  /\ l <= Len(head \o FlattenSeq(seqs) \o foot \o tail)
  /\ b = SubSeq(head \o FlattenSeq(seqs) \o foot \o tail, 1, l)

\* Where everything is in it.
LEMMA FileLayout ==
  ASSUME NEW b, NEW head, NEW seqs, NEW foot, NEW tail, NEW l, NEW S, CutOff(b, head, seqs, foot, tail, l, S)
  PROVE  /\ b \in Seq(S) /\ Len(b) = l
         /\ \E at : Lies(at, b, head, seqs, foot)
  <1> DEFINE n    == Len(seqs)
             F    == FlattenSeq(seqs)
             h    == Len(head)
             hf   == head \o F
             hff  == hf \o foot
             file == hff \o tail
  <1>0. /\ head \in Seq(S) /\ seqs \in Seq(Seq(S)) /\ foot \in Seq(S) /\ tail \in Seq(S) /\ l \in Nat
        /\ l <= Len(head \o FlattenSeq(seqs) \o foot \o tail)
        /\ b = SubSeq(head \o FlattenSeq(seqs) \o foot \o tail, 1, l)
    BY DEF CutOff
  <1>1. n \in Nat /\ h \in Nat /\ Len(foot) \in Nat /\ Len(tail) \in Nat
        /\ \A k \in 1 .. n : seqs[k] \in Seq(S) /\ Len(seqs[k]) \in Nat
    BY <1>0, ElementOfSeq, LenProperties
  <1>a. PICK pos : Ends(pos, seqs, S)
    BY <1>0, Layout
  <1> DEFINE p == pos[n]
             f == Len(foot)
             t == Len(tail)
  <1>2. /\ pos \in [0 .. n -> Nat] /\ pos[0] = 0
        /\ F \in Seq(S) /\ Len(F) = p
        /\ \A k \in 1 .. n :
             /\ pos[k] = pos[k - 1] + Len(seqs[k])
             /\ pos[k] <= p
             /\ \A j \in 1 .. Len(seqs[k]) : F[pos[k - 1] + j] = seqs[k][j]
    BY <1>a DEF Ends
  <1>3. l <= Len(file) /\ b = SubSeq(file, 1, l)
    BY <1>0
  <1>4. Len(head \o FlattenSeq(seqs) \o foot \o <<>>) = Len(hff \o <<>>)
    OBVIOUS
  <1>9. p \in Nat /\ f \in Nat /\ t \in Nat
    BY <1>1, <1>2
  <1> HIDE DEF n, F, file, hff, hf, h, p, f, t
  <1>5. /\ hf \in Seq(S) /\ Len(hf) = h + p
        /\ \A j \in 1 .. h : hf[j] = head[j]
        /\ \A j \in 1 .. p : hf[h + j] = F[j]
    <2>1. /\ hf \in Seq(S) /\ Len(hf) = Len(head) + Len(F)
          /\ \A j \in 1 .. Len(head) : hf[j] = head[j]
          /\ \A j \in 1 .. Len(F) : hf[Len(head) + j] = F[j]
      <3>1. F \in Seq(S)
        BY <1>2
      <3> QED BY <1>0, <3>1, Joined DEF hf
    <2> QED BY <2>1, <1>2 DEF h
  <1>6. /\ hff \in Seq(S) /\ Len(hff) = (h + p) + f
        /\ \A j \in 1 .. h + p : hff[j] = hf[j]
        /\ \A j \in 1 .. f : hff[(h + p) + j] = foot[j]
    <2>1. /\ hff \in Seq(S) /\ Len(hff) = Len(hf) + Len(foot)
          /\ \A j \in 1 .. Len(hf) : hff[j] = hf[j]
          /\ \A j \in 1 .. Len(foot) : hff[Len(hf) + j] = foot[j]
      <3>1. hf \in Seq(S)
        BY <1>5
      <3> QED BY <1>0, <3>1, Joined DEF hff
    <2> QED BY <2>1, <1>5 DEF f
  <1>7. /\ file \in Seq(S) /\ Len(file) = ((h + p) + f) + t
        /\ \A j \in 1 .. (h + p) + f : file[j] = hff[j]
    <2>1. /\ file \in Seq(S) /\ Len(file) = Len(hff) + Len(tail)
          /\ \A j \in 1 .. Len(hff) : file[j] = hff[j]
      BY <1>0, <1>6, Joined DEF file
    <2> QED BY <2>1, <1>6 DEF t
  <1>8. /\ b \in Seq(S) /\ Len(b) = l
        /\ \A j \in 1 .. l : b[j] = file[j]
    <2>1. 1 \in Nat /\ 1 <= 1 /\ 1 <= l + 1 /\ (l + 1) - 1 = l
      BY <1>0
    <2>2. /\ SubSeq(file, 1, l) \in Seq(S)
          /\ Len(SubSeq(file, 1, l)) = l
          /\ \A k \in 1 .. l : SubSeq(file, 1, l)[k] = file[(1 + k) - 1]
      BY <1>0, <2>1, <1>3, <1>7, Slice
    <2>3. \A k \in 1 .. l : (1 + k) - 1 = k
      BY <1>0
    <2> QED BY <2>2, <2>3, <1>3
  <1>10. \A j \in 1 .. h : file[j] = head[j]
    <2>1. \A j \in 1 .. h : j \in 1 .. h + p /\ j \in 1 .. (h + p) + f
      BY <1>1, <1>9
    <2> QED BY <2>1, <1>5, <1>6, <1>7
  <1>11. \A j \in 1 .. p : file[h + j] = F[j]
    <2>1. \A j \in 1 .. p : h + j \in 1 .. h + p /\ h + j \in 1 .. (h + p) + f
      BY <1>1, <1>9
    <2> QED BY <2>1, <1>5, <1>6, <1>7
  <1>12. \A j \in 1 .. f : file[(h + p) + j] = foot[j]
    <2>1. \A j \in 1 .. f : (h + p) + j \in 1 .. (h + p) + f
      BY <1>1, <1>9
    <2> QED BY <2>1, <1>5, <1>6, <1>7
  <1>13. Holds(b, 0, head)
    <2> SUFFICES ASSUME NEW j \in 1 .. h, 0 + j <= l PROVE b[0 + j] = head[j]
      BY <1>8 DEF Holds, h
    <2>1. 0 + j = j /\ j \in 1 .. l
      BY <1>1
    <2> QED BY <2>1, <1>8, <1>10
  <1>14. ASSUME NEW k \in 1 .. n PROVE Holds(b, h + pos[k - 1], seqs[k])
    <2> DEFINE q == pos[k - 1]
    <2>1. q \in Nat /\ pos[k] \in Nat /\ p \in Nat
      BY <1>1, <1>2, <1>9
    <2>2. pos[k] = q + Len(seqs[k]) /\ pos[k] <= p /\ Len(seqs[k]) \in Nat
      BY <1>1, <1>2
    <2> HIDE DEF q
    <2> SUFFICES ASSUME NEW j \in 1 .. Len(seqs[k]), (h + q) + j <= l PROVE b[(h + q) + j] = seqs[k][j]
      BY <1>8 DEF Holds, q
    <2>3. (h + q) + j \in 1 .. l /\ q + j \in 1 .. p /\ (h + q) + j = h + (q + j)
      BY <1>1, <2>1, <2>2
    <2>4. b[(h + q) + j] = file[h + (q + j)]
      BY <2>3, <1>8
    <2>5. file[h + (q + j)] = F[q + j]
      BY <2>3, <1>11
    <2> QED BY <2>4, <2>5, <1>2 DEF q
  <1>15. Holds(b, h + p, foot)
    <2> SUFFICES ASSUME NEW j \in 1 .. f, (h + p) + j <= l PROVE b[(h + p) + j] = foot[j]
      BY <1>8 DEF Holds, f
    <2>1. (h + p) + j \in 1 .. l
      BY <1>1, <1>9
    <2> QED BY <2>1, <1>8, <1>12
  <1>16. Len(hff \o <<>>) = (h + p) + f
    BY <1>6, ConcatEmptySeq
  <1> DEFINE at == [k \in 0 .. n |-> h + pos[k]]
  <1>17. at \in [0 .. n -> Nat] /\ at[0] = h /\ at[n] = h + p
    BY <1>1, <1>2 DEF p
  <1>18. ASSUME NEW k \in 1 .. n
         PROVE  at[k - 1] = h + pos[k - 1] /\ at[k] = at[k - 1] + Len(seqs[k])
    <2>1. k - 1 \in 0 .. n /\ k \in 0 .. n
      BY <1>1
    <2>2. at[k - 1] = h + pos[k - 1] /\ at[k] = h + pos[k]
      BY <2>1
    <2>3. pos[k - 1] \in Nat /\ Len(seqs[k]) \in Nat /\ pos[k] = pos[k - 1] + Len(seqs[k])
      BY <2>1, <1>1, <1>2
    <2> HIDE DEF at
    <2> QED BY <2>2, <2>3, <1>1
  <1> HIDE DEF at
  <1>19. \A k \in 1 .. n : at[k] = at[k - 1] + Len(seqs[k]) /\ Holds(b, at[k - 1], seqs[k])
    BY <1>14, <1>18
  <1>20. Lies(at, b, head, seqs, foot)
    BY <1>4, <1>13, <1>15, <1>16, <1>17, <1>19 DEF n, h, f, p, Lies
  <1> QED
    BY <1>8, <1>20

\* walk[k] has the values of a walk through b once it has passed k of the pieces: it puts what it
\* keeps of the next before the rest, and has nothing after what is not whole, or not valid.
Walks(walk, at, seqs, foot, keep, valid, b, S) ==
  /\ walk \in [0 .. Len(seqs) -> [1 .. Len(b) + 1 -> Seq(S)]]
  /\ \A k \in 1 .. Len(seqs) : at[k - 1] <= Len(b) =>
       walk[k - 1][at[k - 1] + 1] =
         IF at[k] <= Len(b) THEN Before(keep[k], walk[k][at[k] + 1]) ELSE Refused
  /\ at[Len(seqs)] <= Len(b) =>
       walk[Len(seqs)][at[Len(seqs)] + 1] =
         IF valid /\ at[Len(seqs)] + Len(foot) <= Len(b) THEN foot ELSE Refused

\* A sequence with a length has elements.
LEMMA NotEmpty ==
  ASSUME NEW S, NEW s \in Seq(S), Len(s) > 0
  PROVE  s # <<>>
  BY EmptySeq

\* The copy that a walk makes.
LEMMA Copying ==
  ASSUME NEW S, NEW head \in Seq(S), NEW seqs \in Seq(Seq(S)), NEW foot \in Seq(S), Len(foot) > 0,
         NEW keep \in Seq(Seq(S)), Len(keep) = Len(seqs),
         NEW b \in Seq(S), NEW at, Lies(at, b, head, seqs, foot),
         NEW valid, NEW walk, Walks(walk, at, seqs, foot, keep, valid, b, S)
  PROVE  Before(head, IF Len(head) <= Len(b) THEN walk[0][Len(head) + 1] ELSE Refused) =
           IF valid /\ Len(head \o FlattenSeq(seqs) \o foot \o <<>>) <= Len(b)
           THEN (head \o FlattenSeq(keep)) \o foot
           ELSE Refused
  <1> DEFINE n == Len(seqs)
             l == Len(b)
             V == [k \in 0 .. n |-> IF at[k] <= l THEN walk[k][at[k] + 1] ELSE Refused]
  <1>1. n \in Nat /\ l \in Nat /\ Len(foot) \in Nat /\ Len(keep) = n
        /\ \A k \in 1 .. n : seqs[k] \in Seq(S) /\ Len(seqs[k]) \in Nat
    BY LenProperties, ElementOfSeq
  <1>2. /\ at \in [0 .. n -> Nat] /\ at[0] = Len(head)
        /\ \A k \in 1 .. n : at[k] = at[k - 1] + Len(seqs[k])
        /\ Len(head \o FlattenSeq(seqs) \o foot \o <<>>) = at[n] + Len(foot)
    BY DEF Lies
  <1>3. \A k \in 1 .. n : at[k - 1] <= l =>
          walk[k - 1][at[k - 1] + 1] = IF at[k] <= l THEN Before(keep[k], walk[k][at[k] + 1]) ELSE Refused
    BY DEF Walks
  <1>4. at[n] <= l => walk[n][at[n] + 1] = IF valid /\ at[n] + Len(foot) <= l THEN foot ELSE Refused
    BY DEF Walks
  <1>5. walk \in [0 .. n -> [1 .. l + 1 -> Seq(S)]]
    BY DEF Walks
  <1>6. Refused \in Seq(S)
    BY EmptySeq DEF Refused
  <1> HIDE DEF n, l
  <1>7. /\ V \in [0 .. n -> Seq(S)]
        /\ \A k \in 0 .. n : V[k] = IF at[k] <= l THEN walk[k][at[k] + 1] ELSE Refused
    <2>1. ASSUME NEW k \in 0 .. n, at[k] <= l PROVE walk[k][at[k] + 1] \in Seq(S)
      <3>1. at[k] \in Nat
        BY <1>2
      <3>2. at[k] + 1 \in 1 .. l + 1
        BY <2>1, <3>1, <1>1
      <3> QED BY <3>2, <1>5
    <2> QED BY <2>1, <1>6
  <1> HIDE DEF V
  <1>8. ASSUME NEW k \in 1 .. n PROVE V[k - 1] = Before(keep[k], V[k])
    <2>1. k \in 0 .. n /\ k - 1 \in 0 .. n
      BY <1>1
    <2>2. /\ V[k] = IF at[k] <= l THEN walk[k][at[k] + 1] ELSE Refused
          /\ V[k - 1] = IF at[k - 1] <= l THEN walk[k - 1][at[k - 1] + 1] ELSE Refused
      BY <2>1, <1>7
    <2>3. at[k] <= l => at[k - 1] <= l
      <3>1. at[k - 1] \in Nat /\ at[k] = at[k - 1] + Len(seqs[k]) /\ Len(seqs[k]) \in Nat /\ at[k] \in Nat
        BY <2>1, <1>1, <1>2
      <3> QED BY <3>1, <1>1
    <2>4. CASE at[k] <= l
      BY <2>2, <2>3, <2>4, <1>3
    <2>5. CASE ~(at[k] <= l)
      <3>1. V[k] = Refused /\ V[k - 1] = Refused
        BY <2>2, <2>5, <1>3
      <3> QED BY <3>1 DEF Before
    <2> QED BY <2>4, <2>5
  <1>9. V[n] = IF valid /\ at[n] + Len(foot) <= l THEN foot ELSE Refused
    <2>1. n \in 0 .. n
      BY <1>1
    <2>2. V[n] = IF at[n] <= l THEN walk[n][at[n] + 1] ELSE Refused
      BY <2>1, <1>7
    <2>3. at[n] + Len(foot) <= l => at[n] <= l
      <3>1. at[n] \in Nat
        BY <2>1, <1>2
      <3> QED BY <3>1, <1>1
    <2> QED BY <2>2, <2>3, <1>4
  <1>10. V[0] = Before(FlattenSeq(keep), V[n]) /\ FlattenSeq(keep) \in Seq(S)
    <2>1. Chained(V, keep, S)
      BY <1>1, <1>7, <1>8 DEF Chained
    <2> QED BY <2>1, <1>1, PutBefore
  <1>11. V[0] = IF Len(head) <= l THEN walk[0][Len(head) + 1] ELSE Refused
    <2>1. 0 \in 0 .. n
      BY <1>1
    <2> QED BY <2>1, <1>2, <1>7
  <1>12. foot # Refused
    BY NotEmpty DEF Refused
  <1>13. CASE valid /\ at[n] + Len(foot) <= l
    <2>1. FlattenSeq(keep) \in Seq(S) /\ V[0] = Before(FlattenSeq(keep), foot)
      BY <1>9, <1>10, <1>13
    <2> DEFINE F == FlattenSeq(keep)
    <2>2. F \in Seq(S)
      BY <2>1
    <2> HIDE DEF F
    <2>3. Before(head, Before(F, foot)) = (head \o F) \o foot
      BY <2>2, <1>12, Assembled
    <2> QED BY <2>1, <2>3, <1>2, <1>11, <1>13 DEF l, F
  <1>14. CASE ~(valid /\ at[n] + Len(foot) <= l)
    <2>1. V[0] = Refused
      BY <1>9, <1>10, <1>14 DEF Before
    <2>2. Before(head, V[0]) = Refused
      BY <2>1 DEF Before
    <2> QED BY <2>2, <1>2, <1>11, <1>14 DEF l
  <1> QED
    BY <1>13, <1>14

-----------------------------------------------------------------------------
(***************************************************************************)
(* PNG: the walk at a chunk                                                *)
(***************************************************************************)

\* The words of a chunk.
LEMMA ChunkWords ==
  ASSUME NEW p, p.type \in Nat, p.payload \in Seq(Nat)
  PROVE  /\ PngWords(p) \in Seq(Nat)
         /\ Len(p.payload) \in Nat
         /\ Len(PngWords(p)) = Len(p.payload) + 3
         /\ PngWords(p)[1] = Len(p.payload) /\ PngWords(p)[2] = p.type
  <1> DEFINE n    == Len(p.payload)
             head == <<n, p.type>>
             body == head \o p.payload
  <1>1. n \in Nat
    BY LenProperties
  <1>2. head \in Seq(Nat) /\ Len(head) = 2 /\ head[1] = n /\ head[2] = p.type
    BY <1>1
  <1>3. <<CRC>> \in Seq(Nat) /\ Len(<<CRC>>) = 1
    BY DEF CRC
  <1> HIDE DEF head, n
  <1>4. /\ body \in Seq(Nat) /\ Len(body) = Len(head) + Len(p.payload)
        /\ \A j \in 1 .. Len(head) : body[j] = head[j]
    <2>1. head \in Seq(Nat)
      BY <1>2
    <2> QED BY <2>1, Joined
  <1>5. Len(body) = n + 2 /\ body[1] = n /\ body[2] = p.type
    <2>1. 1 \in 1 .. Len(head) /\ 2 \in 1 .. Len(head)
      BY <1>2
    <2>2. Len(body) = 2 + n
      BY <1>2, <1>4 DEF n
    <2> HIDE DEF body
    <2> QED BY <2>1, <2>2, <1>1, <1>2, <1>4
  <1> HIDE DEF body
  <1> DEFINE w == body \o <<CRC>>
  <1>6. /\ w \in Seq(Nat) /\ Len(w) = Len(body) + Len(<<CRC>>)
        /\ \A j \in 1 .. Len(body) : w[j] = body[j]
    <2>1. body \in Seq(Nat)
      BY <1>4
    <2> QED BY <2>1, <1>3, Joined
  <1>7. w[1] = n /\ w[2] = p.type /\ Len(w) = n + 3
    <2>1. 1 \in 1 .. Len(body) /\ 2 \in 1 .. Len(body)
      BY <1>1, <1>5
    <2> HIDE DEF w
    <2>2. Len(w) = (n + 2) + 1
      BY <1>3, <1>5, <1>6
    <2> QED BY <2>1, <2>2, <1>1, <1>5, <1>6
  <1>8. PngWords(p) = w
    BY DEF PngWords, body, head, n
  <1> QED
    BY <1>1, <1>6, <1>7, <1>8 DEF n

\* What the walk keeps of a chunk.
KeptWords(p) == IF p.type \in PNG_REMOVED_CHUNKS THEN <<>> ELSE PngWords(p)

\* b has a chunk at o, as far as it goes.
HasChunk(b, o, p) ==
  /\ b \in Seq(Nat) /\ o \in Nat /\ o <= Len(b)
  /\ p.type \in PNG_CHUNKS /\ p.payload \in Seq(Nat) /\ Holds(b, o, PngWords(p))

\* What the walk makes of a chunk: nothing unless the file has it whole; else it is kept or not,
\* before what is made of the rest, and the last chunk ends the copy.
LEMMA ChunkWalked ==
  ASSUME NEW b, NEW o, NEW p, HasChunk(b, o, p)
  PROVE  /\ Len(PngWords(p)) \in Nat
         /\ PngWalk(b)[o + 1] =
              IF o + Len(PngWords(p)) > Len(b) THEN Refused
              ELSE IF p.type = IEND THEN PngWords(p)
              ELSE Before(KeptWords(p), PngWalk(b)[(o + Len(PngWords(p))) + 1])
  <1> DEFINE n == Len(PngWords(p))
  <1>a. /\ b \in Seq(Nat) /\ o \in Nat /\ o <= Len(b)
        /\ p.type \in PNG_CHUNKS /\ p.payload \in Seq(Nat) /\ Holds(b, o, PngWords(p))
    BY DEF HasChunk
  <1> DEFINE w == PngWords(p)
             l == Len(b)
  <1>0. l \in Nat /\ p.type \in Nat /\ o \in Nat
    BY <1>a, LenProperties DEF PNG_CHUNKS, IHDR, ITXT
  <1>1. w \in Seq(Nat) /\ n = w[1] + 3 /\ w[1] \in Nat /\ w[2] = p.type
    BY <1>a, <1>0, ChunkWords
  <1>2. \A j \in 1 .. n : o + j <= l => b[o + j] = w[j]
    BY <1>a DEF Holds
  <1>3. o <= l /\ o \in Nat
    BY <1>a
  <1>4. n = Len(w)
    OBVIOUS
  <1>5. PngWalk(b)[o + 1] =
          IF (o + 1) + 2 > l \/ b[(o + 1) + 1] \notin PNG_CHUNKS \/ ChunkEnd(b, o + 1) - 1 > l THEN Refused
          ELSE IF b[(o + 1) + 1] = IEND THEN KeptChunk(b, o + 1)
          ELSE Before(KeptChunk(b, o + 1), PngWalk(b)[ChunkEnd(b, o + 1)])
    <2>1. o + 1 \in 1 .. Len(b) + 1
      BY <1>0, <1>a
    <2> QED BY <1>a, <2>1, PngWalkStep
  <1> HIDE DEF w, l, n
  <1>6. n \in Nat /\ n >= 3 /\ o \in Nat /\ o + 1 \in 1 .. l + 1
    BY <1>0, <1>1, <1>3
  <1> SUFFICES PngWalk(b)[o + 1] =
                 IF o + n > l THEN Refused
                 ELSE IF p.type = IEND THEN w ELSE Before(KeptWords(p), PngWalk(b)[(o + n) + 1])
    BY <1>6 DEF n, w, l
  <1>7. ASSUME ~((o + 1) + 2 > l)
        PROVE  b[(o + 1) + 1] = p.type /\ ChunkEnd(b, o + 1) = (o + n) + 1
    <2>1. 1 \in 1 .. n /\ 2 \in 1 .. n /\ o + 1 <= l /\ o + 2 <= l /\ (o + 1) + 1 = o + 2
      BY <1>0, <1>6, <1>7
    <2>2. b[o + 1] = w[1] /\ b[o + 2] = w[2]
      BY <2>1, <1>2
    <2>3. ChunkEnd(b, o + 1) = (o + 1) + 3 + w[1]
      BY <2>2 DEF ChunkEnd
    <2>4. (o + 1) + 3 + w[1] = (o + n) + 1
      <3> DEFINE m == w[1]
      <3>1. m \in Nat /\ n = m + 3 /\ o \in Nat
        BY <1>1, <1>0
      <3> HIDE DEF m
      <3>2. (o + 1) + 3 + m = (o + n) + 1
        BY <3>1
      <3> QED BY <3>2 DEF m
    <2> QED BY <2>1, <2>2, <2>3, <2>4, <1>1
  <1>8. CASE o + n > l
    <2>1. CASE (o + 1) + 2 > l
      BY <2>1, <1>5, <1>8
    <2>2. CASE ~((o + 1) + 2 > l)
      <3>1. ChunkEnd(b, o + 1) = (o + n) + 1
        BY <2>2, <1>7
      <3>2. ChunkEnd(b, o + 1) - 1 > l
        BY <3>1, <1>6, <1>8, <1>0
      <3> QED BY <3>2, <1>5, <1>8
    <2> QED BY <2>1, <2>2
  <1>9. CASE ~(o + n > l)
    <2>1. ~((o + 1) + 2 > l) /\ o + n <= l
      BY <1>6, <1>9, <1>0
    <2>2. b[(o + 1) + 1] = p.type /\ ChunkEnd(b, o + 1) = (o + n) + 1
      BY <2>1, <1>7
    <2>3. ChunkEnd(b, o + 1) - 1 = o + n
      BY <2>2, <1>6
    <2>4. \A j \in 1 .. n : b[o + j] = w[j]
      <3>1. \A j \in 1 .. n : o + j <= l
        BY <2>1, <1>6, <1>0
      <3> QED BY <3>1, <1>2
    <2>5. SubSeq(b, o + 1, o + n) = w
      <3>1. o + n <= Len(b)
        BY <2>1 DEF l
      <3> QED BY <3>1, <2>4, <1>a, <1>1, <1>4, <1>6, SliceIs
    <2>6. ~(ChunkEnd(b, o + 1) - 1 > l)
      BY <2>1, <2>3, <1>0, <1>6
    <2>7. SubSeq(b, o + 1, ChunkEnd(b, o + 1) - 1) = PngWords(p)
      BY <2>3, <2>5 DEF w
    <2>8. KeptChunk(b, o + 1) = KeptWords(p)
      BY <2>2, <2>7 DEF KeptChunk, KeptWords
    <2>9. IEND \notin PNG_REMOVED_CHUNKS
      BY DEF IEND, PNG_REMOVED_CHUNKS, EXIF, TEXT, ZTXT, ITXT
    <2>9a. p.type \in PNG_CHUNKS
      BY <1>a
    <2>10. PngWalk(b)[o + 1] =
             IF p.type = IEND THEN KeptWords(p) ELSE Before(KeptWords(p), PngWalk(b)[(o + n) + 1])
      BY <2>1, <2>2, <2>6, <2>8, <2>9a, <1>5
    <2>11. KeptWords(p) = w \/ p.type # IEND
      BY <2>9 DEF KeptWords, w
    <2> QED BY <2>10, <2>11, <1>9
  <1> QED
    BY <1>8, <1>9

\* A file of chunks, or as much of it as there is, is copied without the chunks that are removed.
LEMMA PngCopied ==
  ASSUME NEW parts \in Seq(PngParts), NEW tail \in Seq(Nat), NEW l \in Nat, l <= Len(PngFile(parts, tail))
  PROVE  /\ Len(PngFile(parts, <<>>)) \in Nat
         /\ StripPngMetadata(SubSeq(PngFile(parts, tail), 1, l)) =
              IF l < Len(PngFile(parts, <<>>)) THEN Refused ELSE PngCopy(parts)
  <1> DEFINE n    == Len(parts)
             all  == [i \in DOMAIN parts |-> PngWords(parts[i])]
             keep == [i \in DOMAIN parts |-> IF parts[i].type \in PNG_REMOVED_CHUNKS
                                             THEN <<>> ELSE PngWords(parts[i])]
             last == PngPart(IEND, <<>>)
             foot == PngWords(last)
             b    == SubSeq(PngFile(parts, tail), 1, l)
  <1>1. n \in Nat /\ DOMAIN parts = 1 .. n
    BY LenProperties
  <1>2. ASSUME NEW k \in 1 .. n
        PROVE  /\ parts[k].type \in PNG_CHUNKS /\ parts[k].type # IEND /\ parts[k].type \in Nat
               /\ parts[k].payload \in Seq(Nat)
               /\ all[k] = PngWords(parts[k]) /\ all[k] \in Seq(Nat)
               /\ keep[k] = KeptWords(parts[k]) /\ keep[k] \in Seq(Nat)
    <2>1. parts[k] \in PngParts
      BY ElementOfSeq
    <2>2. /\ parts[k].type \in PNG_CHUNKS /\ parts[k].type # IEND /\ parts[k].payload \in Seq(Nat)
      BY <2>1 DEF PngParts
    <2>3. parts[k].type \in Nat
      BY <2>2 DEF PNG_CHUNKS, IHDR, ITXT
    <2>4. PngWords(parts[k]) \in Seq(Nat)
      BY <2>2, <2>3, ChunkWords
    <2>5. all[k] = PngWords(parts[k]) /\ keep[k] = KeptWords(parts[k])
      BY <1>1 DEF KeptWords
    <2> HIDE DEF all, keep
    <2> QED BY <2>2, <2>3, <2>4, <2>5, EmptySeq DEF KeptWords
  <1>3. /\ all \in Seq(Seq(Nat)) /\ Len(all) = n
        /\ keep \in Seq(Seq(Nat)) /\ Len(keep) = n
    <2>1. all = [k \in 1 .. n |-> all[k]] /\ keep = [k \in 1 .. n |-> keep[k]]
      BY <1>1
    <2> HIDE DEF all, keep
    <2>2. all \in [1 .. n -> Seq(Nat)] /\ keep \in [1 .. n -> Seq(Nat)]
      BY <2>1, <1>2
    <2> QED BY <2>2, <1>1, FunctionIsSeq
  <1>4. /\ last.type = IEND /\ last.type \in PNG_CHUNKS /\ last.type \in Nat
        /\ last.payload = <<>> /\ last.payload \in Seq(Nat)
    BY EmptySeq DEF PngPart, IEND, PNG_CHUNKS, IHDR, ITXT
  <1>5. PNG_SIGNATURE \in Seq(Nat) /\ Len(PNG_SIGNATURE) = 2
    BY DEF PNG_SIGNATURE
  <1>6. foot \in Seq(Nat) /\ Len(foot) = 3
    <2>1. foot \in Seq(Nat) /\ Len(foot) = Len(last.payload) + 3
      BY <1>4, ChunkWords
    <2>2. Len(last.payload) = 0
      BY <1>4, EmptySeq
    <2> HIDE DEF foot, last
    <2> QED BY <2>1, <2>2
  <1>7. \A t : PngFile(parts, t) = PNG_SIGNATURE \o FlattenSeq(all) \o foot \o t
    BY DEF PngFile, PngEncoded
  <1>8. PngCopy(parts) = (PNG_SIGNATURE \o FlattenSeq(keep)) \o foot
    BY DEF PngCopy
  <1> HIDE DEF all, keep, n, last, foot
  <1>9. CutOff(b, PNG_SIGNATURE, all, foot, tail, l, Nat)
    BY <1>3, <1>5, <1>6, <1>7 DEF CutOff
  <1> HIDE DEF b
  <1>10. b \in Seq(Nat) /\ Len(b) = l /\ \E at : Lies(at, b, PNG_SIGNATURE, all, foot)
    BY <1>9, FileLayout
  <1>11a. PICK at : Lies(at, b, PNG_SIGNATURE, all, foot)
    BY <1>10
  <1>11. /\ at \in [0 .. n -> Nat] /\ at[0] = 2
         /\ \A k \in 1 .. n : at[k] = at[k - 1] + Len(all[k]) /\ Holds(b, at[k - 1], all[k])
         /\ Holds(b, 0, PNG_SIGNATURE) /\ Holds(b, at[n], foot)
         /\ Len(PNG_SIGNATURE \o FlattenSeq(all) \o foot \o <<>>) = at[n] + 3
    BY <1>3, <1>5, <1>6, <1>11a DEF Lies
  <1> DEFINE walk == [k \in 0 .. n |-> PngWalk(b)]
  <1>12. PngWalk(b) \in [1 .. l + 1 -> Seq(Nat)]
    BY <1>10, PngWalkStep
  <1>13. ASSUME NEW k \in 1 .. n, at[k - 1] <= l
         PROVE  PngWalk(b)[at[k - 1] + 1] =
                  IF at[k] <= l THEN Before(keep[k], PngWalk(b)[at[k] + 1]) ELSE Refused
    <2> DEFINE o == at[k - 1]
               m == Len(all[k])
               p == parts[k]
    <2>1. k - 1 \in 0 .. n
      BY <1>1 DEF n
    <2>2. o \in Nat /\ at[k] = o + m /\ Holds(b, o, all[k]) /\ o <= l
      BY <2>1, <1>11, <1>13
    <2>3. /\ all[k] = PngWords(p) /\ keep[k] = KeptWords(p)
          /\ p.type \in PNG_CHUNKS /\ p.type # IEND /\ p.payload \in Seq(Nat)
      BY <1>2
    <2>4. HasChunk(b, o, p) /\ m = Len(PngWords(p))
      BY <2>2, <2>3, <1>10 DEF HasChunk
    <2> HIDE DEF o, m, p
    <2>5. /\ m \in Nat
          /\ PngWalk(b)[o + 1] =
               IF o + m > Len(b) THEN Refused
               ELSE IF p.type = IEND THEN PngWords(p)
               ELSE Before(KeptWords(p), PngWalk(b)[(o + m) + 1])
      BY <2>4, ChunkWalked
    <2>6. o + m > l <=> ~(o + m <= l)
      BY <2>2, <2>5
    <2>7. PngWalk(b)[o + 1] = IF o + m <= l THEN Before(KeptWords(p), PngWalk(b)[(o + m) + 1]) ELSE Refused
      BY <2>3, <2>5, <2>6, <1>10
    <2> QED BY <2>2, <2>3, <2>7 DEF o
  <1>14. ASSUME at[n] <= l
         PROVE  PngWalk(b)[at[n] + 1] = IF TRUE /\ at[n] + Len(foot) <= l THEN foot ELSE Refused
    <2> DEFINE o == at[n]
    <2>0. n \in 0 .. n
      BY <1>1 DEF n
    <2>1. o \in Nat
      BY <2>0, <1>11
    <2>1a. HasChunk(b, o, last) /\ 3 = Len(PngWords(last))
      BY <2>1, <1>4, <1>6, <1>10, <1>11, <1>14 DEF foot, HasChunk
    <2> HIDE DEF o
    <2>2a. PngWalk(b)[o + 1] =
                IF o + Len(PngWords(last)) > Len(b) THEN Refused
                ELSE IF last.type = IEND THEN PngWords(last)
                ELSE Before(KeptWords(last), PngWalk(b)[(o + Len(PngWords(last))) + 1])
      BY <2>1a, ChunkWalked
    <2>2. PngWalk(b)[o + 1] = IF o + 3 > Len(b) THEN Refused ELSE PngWords(last)
      BY <2>1a, <2>2a, <1>4
    <2>3. o + 3 > l <=> ~(o + 3 <= l)
      BY <2>1
    <2> QED BY <2>2, <2>3, <1>4, <1>6, <1>10 DEF o, foot
  <1>15. Walks(walk, at, all, foot, keep, TRUE, b, Nat)
    <2>1. /\ walk \in [0 .. n -> [1 .. l + 1 -> Seq(Nat)]]
          /\ \A k \in 0 .. n : walk[k] = PngWalk(b)
      BY <1>12
    <2>2. n \in 0 .. n /\ \A k \in 1 .. n : k \in 0 .. n /\ k - 1 \in 0 .. n
      BY <1>1 DEF n
    <2> HIDE DEF walk
    <2> QED BY <2>1, <2>2, <1>3, <1>10, <1>13, <1>14 DEF Walks
  <1>16. Before(PNG_SIGNATURE, IF Len(PNG_SIGNATURE) <= Len(b) THEN walk[0][Len(PNG_SIGNATURE) + 1] ELSE Refused) =
           IF TRUE /\ Len(PNG_SIGNATURE \o FlattenSeq(all) \o foot \o <<>>) <= Len(b)
           THEN (PNG_SIGNATURE \o FlattenSeq(keep)) \o foot
           ELSE Refused
    <2>1. PNG_SIGNATURE \in Seq(Nat) /\ foot \in Seq(Nat) /\ Len(foot) > 0
      BY <1>5, <1>6
    <2>2. all \in Seq(Seq(Nat)) /\ keep \in Seq(Seq(Nat)) /\ Len(keep) = Len(all) /\ b \in Seq(Nat)
      BY <1>3, <1>10
    <2> HIDE DEF walk
    <2> QED BY <2>1, <2>2, <1>11a, <1>15, Copying
  <1>17. StripPngMetadata(b) =
           Before(PNG_SIGNATURE, IF Len(PNG_SIGNATURE) <= Len(b) THEN walk[0][Len(PNG_SIGNATURE) + 1] ELSE Refused)
    <2>1. 0 \in 0 .. n /\ 2 + 1 = 3
      BY <1>1 DEF n
    <2>2. walk[0][Len(PNG_SIGNATURE) + 1] = PngWalk(b)[3]
      BY <2>1, <1>5
    <2> HIDE DEF walk
    <2>3. CASE 2 <= l
      <3>1. SubSeq(b, 1, 2) = PNG_SIGNATURE
        <4>1. \A j \in 1 .. 2 : b[0 + j] = PNG_SIGNATURE[j]
          BY <2>3, <1>5, <1>10, <1>11 DEF Holds
        <4>2. 0 + 2 <= Len(b) /\ 2 = Len(PNG_SIGNATURE)
          BY <2>3, <1>5, <1>10
        <4>3. SubSeq(b, 0 + 1, 0 + 2) = PNG_SIGNATURE
          BY <4>1, <4>2, <1>5, <1>10, SliceIs
        <4> QED BY <4>3
      <3>2. ~(Len(b) < 2)
        BY <2>3, <1>10
      <3> QED BY <3>1, <3>2, <2>2, <2>3, <1>5, <1>10 DEF StripPngMetadata
    <2>4. CASE ~(2 <= l)
      <3>1. Len(b) < 2
        BY <2>4, <1>10
      <3> QED BY <3>1, <2>4, <1>5, <1>10 DEF StripPngMetadata, Before
    <2> QED BY <2>3, <2>4
  <1>18. Len(PngFile(parts, <<>>)) = at[n] + 3
    BY <1>7, <1>11
  <1>19. at[n] + 3 \in Nat /\ (at[n] + 3 <= l <=> ~(l < at[n] + 3))
    <2>1. n \in 0 .. n
      BY <1>1 DEF n
    <2>2. at[n] \in Nat
      BY <2>1, <1>11
    <2> QED BY <2>2
  <1>20. StripPngMetadata(b) = IF at[n] + 3 <= l THEN PngCopy(parts) ELSE Refused
    BY <1>8, <1>10, <1>11, <1>16, <1>17
  <1> QED
    BY <1>18, <1>19, <1>20 DEF b

-----------------------------------------------------------------------------
(***************************************************************************)
(* JPEG: what the walk makes of fill bytes, of the data of a scan, and of  *)
(* each kind of part, cut or not                                           *)
(***************************************************************************)

\* Filled has the values its definition says, never before where it starts.
LEMMA FilledStep ==
  ASSUME NEW b \in Seq(Nat), Len(b) > 0
  PROVE  /\ Filled(b) \in [1 .. Len(b) -> 1 .. Len(b)]
         /\ \A i \in 1 .. Len(b) :
              /\ Filled(b)[i] = IF i < Len(b) /\ b[i + 1] = 255 THEN Filled(b)[i + 1] ELSE i
              /\ Filled(b)[i] >= i
  <1> DEFINE top == Len(b)
             Body(k, g) == IF k < top /\ b[k + 1] = 255 THEN g[k + 1] ELSE k
             V == 1 .. top
             last == [k \in 1 .. top |-> [g \in [1 .. top -> V] |-> Body(k, g)]]
  <1>1. top \in Nat /\ top > 0
    BY LenProperties
  <1> HIDE DEF top
  <1>2. V # {} /\ \A k \in 1 .. top : k \in V
    <2>1. 1 \in 1 .. top
      BY <1>1
    <2> QED BY <2>1
  <1>2a. \A k \in V : k \in Nat
    BY <1>1
  <1> HIDE DEF V
  <1>3. ASSUME NEW k \in 1 .. top, NEW g \in [1 .. top -> V] PROVE Body(k, g) \in V
    <2>1. k < top => k + 1 \in 1 .. top
      BY <1>1
    <2> QED BY <2>1, <1>2
  <1>4. ASSUME NEW k \in 1 .. top, NEW g, NEW h, \A j \in 1 .. top : j > k => g[j] = h[j]
        PROVE  Body(k, g) = Body(k, h)
    <2>1. k < top => k + 1 \in 1 .. top /\ k + 1 > k
      BY <1>1
    <2> QED BY <2>1, <1>4
  <1>5. \A k \in 1 .. top : \A g \in [1 .. top -> V] : last[k][g] = Body(k, g)
    OBVIOUS
  <1>6. last \in [1 .. top -> [[1 .. top -> V] -> V]]
    BY <1>3
  <1>7. LooksAhead(last, top, V)
    <2> HIDE DEF last, Body
    <2>1. ASSUME NEW k \in 1 .. top, NEW g \in [1 .. top -> V], NEW h \in [1 .. top -> V],
                 \A j \in 1 .. top : j > k => g[j] = h[j]
          PROVE  last[k][g] = last[k][h]
      <3>1. Body(k, g) = Body(k, h)
        BY <2>1, <1>4
      <3> QED BY <3>1, <1>5
    <2>2. V # {}
      BY <1>2
    <2> QED BY <2>1, <2>2, <1>1, <1>6 DEF LooksAhead
  <1> HIDE DEF last, Body
  <1>8. PICK f : Solves(f, last, top, V)
    BY <1>7, Recursion
  <1>9. f \in [1 .. top -> V] /\ \A k \in 1 .. top : f[k] = Body(k, f)
    BY <1>5, <1>8 DEF Solves
  <1> DEFINE Def(g) == [k \in 1 .. top |-> Body(k, g)]
             c == CHOOSE g : g = Def(g)
  <1>10. f = Def(f)
    BY <1>9
  <1>11. c = Def(c)
    BY <1>10
  <1>12. Filled(b) = c
    BY DEF Filled, Body, top
  <1>13. \A k \in 1 .. top : c[k] = Body(k, c)
    <2> HIDE DEF c
    <2> QED BY <1>11
  <1> HIDE DEF c
  <1> DEFINE T == {k \in 1 .. top : c[k] = f[k]}
  <1>14. ASSUME NEW k \in 1 .. top, \A j \in 1 .. top : j > k => j \in T PROVE k \in T
    <2>1. \A j \in 1 .. top : j > k => c[j] = f[j]
      BY <1>14
    <2>2. Body(k, c) = Body(k, f)
      BY <2>1, <1>4
    <2> QED BY <2>2, <1>9, <1>13
  <1> HIDE DEF T
  <1>15. \A k \in 1 .. top : k \in T
    <2>1. 1 \in Nat
      OBVIOUS
    <2>2. Downward(1, top, T)
      BY <2>1, <1>1, <1>14 DEF Downward
    <2> QED BY <2>2, ReachedDown
  <1>16. c \in [1 .. top -> V]
    <2>1. \A k \in 1 .. top : c[k] \in V
      BY <1>9, <1>15 DEF T
    <2>2. c = [k \in 1 .. top |-> c[k]]
      BY <1>11, <1>13
    <2> QED BY <2>1, <2>2
  <1> DEFINE G == {k \in 1 .. top : c[k] >= k}
  <1>17. ASSUME NEW k \in 1 .. top, \A j \in 1 .. top : j > k => j \in G PROVE k \in G
    <2>1. CASE k < top /\ b[k + 1] = 255
      <3>1. k + 1 \in 1 .. top /\ k + 1 > k
        BY <2>1, <1>1
      <3>2. c[k + 1] >= k + 1 /\ c[k] = c[k + 1]
        BY <3>1, <1>13, <1>17, <2>1 DEF Body
      <3>3. c[k + 1] \in Nat
        BY <3>1, <1>2a, <1>16
      <3>4. c[k] >= k
        BY <3>2, <3>3
      <3> QED BY <3>4
    <2>2. CASE ~(k < top /\ b[k + 1] = 255)
      <3>1. c[k] = k
        BY <2>2, <1>13 DEF Body
      <3> QED BY <3>1
    <2> QED BY <2>1, <2>2
  <1> HIDE DEF G
  <1>18. \A k \in 1 .. top : k \in G
    <2>1. 1 \in Nat
      OBVIOUS
    <2>2. Downward(1, top, G)
      BY <2>1, <1>1, <1>17 DEF Downward
    <2> QED BY <2>2, ReachedDown
  <1>19. \A k \in 1 .. top : c[k] >= k
    BY <1>18 DEF G
  <1> QED
    BY <1>12, <1>13, <1>16, <1>19 DEF Body, top, V

\* The last 0xFF of a row of them.
LEMMA FilledEnds ==
  ASSUME NEW b \in Seq(Nat), NEW i \in Nat, NEW m \in Nat, 1 <= i, i <= m, m <= Len(b),
         \A k \in i .. m : b[k] = 255, m = Len(b) \/ b[m + 1] # 255
  PROVE  Filled(b)[i] = m
  <1> DEFINE T == {k \in i .. m : Filled(b)[k] = m}
  <1>1. Len(b) \in Nat /\ Len(b) > 0
    BY LenProperties
  <1>2. \A k \in 1 .. Len(b) : Filled(b)[k] = IF k < Len(b) /\ b[k + 1] = 255 THEN Filled(b)[k + 1] ELSE k
    BY <1>1, FilledStep
  <1>3. ASSUME NEW k \in i .. m, \A j \in i .. m : j > k => j \in T PROVE k \in T
    <2>1. k \in 1 .. Len(b) /\ k \in Nat
      BY <1>1
    <2>2. CASE k = m
      BY <2>1, <2>2, <1>2
    <2>3. CASE k # m
      <3>1. k + 1 \in i .. m /\ k + 1 > k /\ k < Len(b)
        BY <2>1, <2>3, <1>1
      <3>2. b[k + 1] = 255 /\ Filled(b)[k + 1] = m
        BY <3>1, <1>3
      <3> QED BY <2>1, <3>1, <3>2, <1>2
    <2> QED BY <2>2, <2>3
  <1> HIDE DEF T
  <1>4. i \in T
    <2>1. i \in i .. m
      OBVIOUS
    <2>2. Downward(i, m, T)
      BY <1>3 DEF Downward
    <2> QED BY <2>1, <2>2, ReachedDown
  <1> QED
    BY <1>4 DEF T

\* DataEnd has the values its definition says: 0, or a position not before where it starts.
LEMMA DataEndStep ==
  ASSUME NEW b \in Seq(Nat)
  PROVE  \A i \in 1 .. Len(b) + 1 :
           /\ DataEnd(b)[i] = IF i >= Len(b) THEN 0
                              ELSE IF b[i] # 255 THEN DataEnd(b)[i + 1]
                              ELSE IF InData(b[i + 1]) THEN DataEnd(b)[i + 2]
                              ELSE i
           /\ DataEnd(b)[i] = 0 \/ DataEnd(b)[i] \in i .. Len(b)
  <1> DEFINE l == Len(b)
             top == l + 1
             Body(k, g) == IF k >= l THEN 0
                           ELSE IF b[k] # 255 THEN g[k + 1]
                           ELSE IF InData(b[k + 1]) THEN g[k + 2]
                           ELSE k
             V == 0 .. l
             end == [k \in 1 .. top |-> [g \in [1 .. top -> V] |-> Body(k, g)]]
  <1>1. l \in Nat /\ top \in Nat /\ top = l + 1
    BY LenProperties
  <1> HIDE DEF l, top
  <1>2. V # {} /\ 0 \in V /\ \A k \in 1 .. top : ~(k >= l) => k \in V
    <2>1. 0 \in V
      BY <1>1
    <2>2. \A k \in 1 .. top : ~(k >= l) => k \in V
      BY <1>1
    <2> HIDE DEF V
    <2> QED BY <2>1, <2>2
  <1> HIDE DEF V
  <1>2a. \A k \in 1 .. top : ~(k >= l) => /\ k + 1 \in 1 .. top /\ k + 1 > k /\ k + 2 \in 1 .. top /\ k + 2 > k
    BY <1>1
  <1>3. ASSUME NEW k \in 1 .. top, NEW g \in [1 .. top -> V] PROVE Body(k, g) \in V
    BY <1>2, <1>2a
  <1>4. ASSUME NEW k \in 1 .. top, NEW g, NEW h, \A j \in 1 .. top : j > k => g[j] = h[j]
        PROVE  Body(k, g) = Body(k, h)
    <2>1. CASE k >= l
      BY <2>1
    <2>2. CASE ~(k >= l)
      <3>1. g[k + 1] = h[k + 1] /\ g[k + 2] = h[k + 2]
        BY <1>2a, <1>4, <2>2
      <3> QED BY <2>2, <3>1
    <2> QED BY <2>1, <2>2
  <1>5. \A k \in 1 .. top : \A g \in [1 .. top -> V] : end[k][g] = Body(k, g)
    OBVIOUS
  <1>6. end \in [1 .. top -> [[1 .. top -> V] -> V]]
    BY <1>3
  <1>7. LooksAhead(end, top, V)
    <2> HIDE DEF end, Body
    <2>1. ASSUME NEW k \in 1 .. top, NEW g \in [1 .. top -> V], NEW h \in [1 .. top -> V],
                 \A j \in 1 .. top : j > k => g[j] = h[j]
          PROVE  end[k][g] = end[k][h]
      <3>1. Body(k, g) = Body(k, h)
        BY <2>1, <1>4
      <3> QED BY <3>1, <1>5
    <2> QED BY <2>1, <1>1, <1>2, <1>6 DEF LooksAhead
  <1> HIDE DEF end, Body
  <1>8. PICK f : Solves(f, end, top, V)
    BY <1>7, Recursion
  <1>9. f \in [1 .. top -> V] /\ \A k \in 1 .. top : f[k] = Body(k, f)
    BY <1>5, <1>8 DEF Solves
  <1> DEFINE Def(g) == [k \in 1 .. top |-> Body(k, g)]
             c == CHOOSE g : g = Def(g)
  <1>10. f = Def(f)
    BY <1>9
  <1>11. c = Def(c)
    BY <1>10
  <1>12. DataEnd(b) = c
    BY DEF DataEnd, Body, top, l
  <1>13. \A k \in 1 .. top : c[k] = Body(k, c)
    <2> HIDE DEF c
    <2> QED BY <1>11
  <1> HIDE DEF c
  <1> DEFINE G == {k \in 1 .. top : c[k] = 0 \/ c[k] \in k .. l}
  <1>17. ASSUME NEW k \in 1 .. top, \A j \in 1 .. top : j > k => j \in G PROVE k \in G
    <2>1. CASE k >= l
      BY <2>1, <1>13 DEF Body
    <2>2. CASE ~(k >= l)
      <3>1. /\ k + 1 \in 1 .. top /\ k + 1 > k /\ k + 2 \in 1 .. top /\ k + 2 > k
        BY <2>2, <1>1
      <3>2. (c[k + 1] = 0 \/ c[k + 1] \in k + 1 .. l) /\ (c[k + 2] = 0 \/ c[k + 2] \in k + 2 .. l)
        BY <3>1, <1>17
      <3>3. k + 1 .. l \subseteq k .. l /\ k + 2 .. l \subseteq k .. l /\ k \in k .. l
        BY <2>2, <1>1
      <3>4. c[k] = c[k + 1] \/ c[k] = c[k + 2] \/ c[k] = k
        BY <2>2, <1>13 DEF Body
      <3> QED BY <3>2, <3>3, <3>4
    <2> QED BY <2>1, <2>2
  <1> HIDE DEF G
  <1>18. \A k \in 1 .. top : k \in G
    <2>1. 1 \in Nat
      OBVIOUS
    <2>2. Downward(1, top, G)
      BY <2>1, <1>1, <1>17 DEF Downward
    <2> QED BY <2>2, ReachedDown
  <1>19. \A k \in 1 .. top : c[k] = 0 \/ c[k] \in k .. l
    BY <1>18 DEF G
  <1> QED
    BY <1>12, <1>13, <1>19 DEF Body, top, l

\* Where the data of a scan ends: at a 0xFF that is not in it, when there is more of the file.
LEMMA DataEnds ==
  ASSUME NEW b \in Seq(Nat), NEW i \in Nat, NEW e \in Nat, 1 <= i, i <= e, i <= Len(b) + 1,
         \A k \in i .. e - 1 : k < Len(b) => (b[k] = 255 => k + 1 < e /\ InData(b[k + 1])),
         e < Len(b) => b[e] = 255 /\ ~InData(b[e + 1])
  PROVE  DataEnd(b)[i] = IF e < Len(b) THEN e ELSE 0
  <1> DEFINE l == Len(b)
             M == IF e < l THEN e ELSE 0
             n == IF e <= l + 1 THEN e ELSE l + 1
             T == {k \in i .. n : DataEnd(b)[k] = M}
  <1>1. l \in Nat
    BY LenProperties
  <1>2. \A k \in 1 .. l + 1 : DataEnd(b)[k] =
          IF k >= l THEN 0
          ELSE IF b[k] # 255 THEN DataEnd(b)[k + 1]
          ELSE IF InData(b[k + 1]) THEN DataEnd(b)[k + 2]
          ELSE k
    BY DataEndStep
  <1>2a. n \in Nat /\ i <= n /\ n <= e /\ n <= l + 1 /\ (n = e \/ n = l + 1)
    BY <1>1
  <1>2b. \A k \in i .. e - 1 : k < l => (b[k] = 255 => k + 1 < e /\ InData(b[k + 1]))
    OBVIOUS
  <1>2c. e < l => b[e] = 255 /\ ~InData(b[e + 1])
    OBVIOUS
  <1> HIDE DEF l, n
  <1>3. ASSUME NEW k \in i .. n, \A j \in i .. n : j > k => j \in T PROVE k \in T
    <2>1. k \in 1 .. l + 1 /\ k \in Nat /\ k <= e
      <3>1. k \in Nat /\ i <= k /\ k <= n
        BY <1>2a
      <3> QED BY <3>1, <1>1, <1>2a
    <2>2. CASE k >= l
      <3>1. DataEnd(b)[k] = 0 /\ ~(e < l)
        BY <2>1, <2>2, <1>1, <1>2
      <3> QED BY <3>1
    <2>3. CASE ~(k >= l) /\ k = e
      <3>1. e < l
        BY <2>1, <2>3, <1>1
      <3>2. DataEnd(b)[k] = k
        BY <2>1, <2>3, <3>1, <1>2, <1>2c
      <3> QED BY <3>1, <3>2, <2>3
    <2>4. CASE ~(k >= l) /\ k # e
      <3>1. k \in i .. e - 1 /\ k < l
        BY <2>1, <2>4, <1>1
      <3>2. b[k] = 255 => k + 1 < e /\ InData(b[k + 1])
        BY <3>1, <1>2b
      <3>3. k + 1 \in i .. n /\ k + 1 > k
        BY <3>1, <1>1, <1>2a
      <3>4. b[k] = 255 => k + 2 \in i .. n /\ k + 2 > k
        BY <3>1, <3>2, <1>1, <1>2a
      <3>5. DataEnd(b)[k + 1] = M /\ (b[k] = 255 => DataEnd(b)[k + 2] = M)
        BY <3>3, <3>4, <1>3
      <3>6. DataEnd(b)[k] = M
        BY <2>1, <2>4, <3>2, <3>5, <1>2
      <3> QED BY <3>6
    <2> QED BY <2>2, <2>3, <2>4
  <1> HIDE DEF T
  <1>4. i \in T
    <2>1. i \in i .. n
      BY <1>2a
    <2>2. Downward(i, n, T)
      BY <1>2a, <1>3 DEF Downward
    <2> QED BY <2>1, <2>2, ReachedDown
  <1> QED
    BY <1>4 DEF T, l

\* What is known of the walk at a marker: the last of the row of 0xFF at i.
LEMMA MarkerTyped ==
  ASSUME NEW b \in Seq(Nat), NEW i \in Nat, 1 <= i, i <= Len(b), Filled(b)[i] # Len(b)
  PROVE  /\ Filled(b)[i] \in Nat /\ i <= Filled(b)[i] /\ Filled(b)[i] + 1 <= Len(b)
         /\ b[Filled(b)[i] + 1] \in Nat
  <1> DEFINE l == Len(b)
             m == Filled(b)[i]
  <1>1. l \in Nat /\ l > 0 /\ i \in 1 .. l
    BY LenProperties
  <1>2. m \in 1 .. l /\ m >= i /\ m # l
    <2>1. Filled(b) \in [1 .. l -> 1 .. l] /\ \A k \in 1 .. l : Filled(b)[k] >= k
      BY <1>1, FilledStep
    <2> QED BY <2>1, <1>1
  <1> HIDE DEF m
  <1>3. m + 1 \in 1 .. l
    BY <1>1, <1>2
  <1>4. b[m + 1] \in Nat
    BY <1>3, ElementOfSeq
  <1>5. m \in Nat /\ i <= m /\ m + 1 <= l
    BY <1>1, <1>2
  <1> QED
    BY <1>4, <1>5 DEF m

\* A segment that the file has whole.
LEMMA SegmentTyped ==
  ASSUME NEW b \in Seq(Nat), NEW m \in Nat, 1 <= m, m + 1 <= Len(b), Readable(b, m)
  PROVE  /\ SegmentEnd(b, m) \in 1 .. Len(b) + 1 /\ SegmentEnd(b, m) >= m + 4
         /\ KeptSegment(b, m) \in Seq(Nat)
         /\ SubSeq(b, m, SegmentEnd(b, m) - 1) \in Seq(Nat)
  <1> DEFINE l == Len(b)
             h == b[m + 2]
             w == b[m + 3]
             e == SegmentEnd(b, m)
  <1>1. l \in Nat
    BY LenProperties
  <1>2. m + 3 <= l /\ h * 256 + w >= 2 /\ e - 1 <= l /\ e = m + 2 + h * 256 + w
    BY DEF Readable, SegmentEnd
  <1>3. m + 2 \in 1 .. l /\ m + 3 \in 1 .. l
    BY <1>1, <1>2
  <1>4. h \in Nat /\ w \in Nat
    BY <1>3, ElementOfSeq
  <1> HIDE DEF h, w, e, l
  <1>5. e \in Nat /\ e >= m + 4 /\ e <= l + 1 /\ e - 1 \in Nat /\ (e - 1) + 1 = e /\ m <= e
    BY <1>1, <1>2, <1>4
  <1>6. SubSeq(b, m, e - 1) \in Seq(Nat)
    <2>1. m <= (e - 1) + 1 /\ e - 1 <= Len(b) /\ e - 1 \in Nat
      BY <1>2, <1>5 DEF l
    <2> QED BY <2>1, Slice
  <1>7. KeptSegment(b, m) \in Seq(Nat)
    BY <1>6, EmptySeq DEF KeptSegment, e
  <1> QED
    BY <1>1, <1>5, <1>6, <1>7 DEF e, l

\* What the walk does at i, going on with what g says of the positions after it.
Step(b, g, i, scanned) ==
  IF i > Len(b) \/ b[i] # 255 \/ Filled(b)[i] = Len(b) THEN Refused
  ELSE
  LET m      == Filled(b)[i]
      marker == b[m + 1]
      end    == SegmentEnd(b, m)
      after  == DataEnd(b)[end]
  IN IF marker = EOI THEN IF scanned THEN SubSeq(b, m, m + 1) ELSE Refused
     ELSE IF marker \in JPEG_STANDALONE THEN Before(SubSeq(b, m, m + 1), g[m + 2][scanned])
     ELSE IF ~Readable(b, m) THEN Refused
     ELSE IF marker # SOS THEN Before(KeptSegment(b, m), g[end][scanned])
     ELSE IF after = 0 THEN Refused
     ELSE Before(KeptSegment(b, m) \o SubSeq(b, end, after - 1), g[after][TRUE])

\* Where it goes on from i.
LEMMA StepTyped ==
  ASSUME NEW b \in Seq(Nat), NEW i \in 1 .. Len(b) + 1, NEW scanned \in BOOLEAN
  PROVE  /\ \A g \in [1 .. Len(b) + 1 -> [BOOLEAN -> Seq(Nat)]] : Step(b, g, i, scanned) \in Seq(Nat)
         /\ \A g, h : (\A j \in 1 .. Len(b) + 1 : j > i => g[j] = h[j])
                        => Step(b, g, i, scanned) = Step(b, h, i, scanned)
  <1> DEFINE l == Len(b)
             top == l + 1
             m == Filled(b)[i]
             marker == b[m + 1]
             end == SegmentEnd(b, m)
             after == DataEnd(b)[end]
  <1>1. l \in Nat /\ top \in Nat /\ top = l + 1 /\ i \in Nat /\ 1 <= i
    BY LenProperties
  <1>2. CASE i > l \/ b[i] # 255 \/ Filled(b)[i] = l
    BY <1>2, EmptySeq DEF Step, Refused
  <1>3. CASE ~(i > l \/ b[i] # 255 \/ Filled(b)[i] = l)
    <2>1. m \in Nat /\ i <= m /\ m + 1 <= l
      BY <1>1, <1>3, MarkerTyped
    <2>2. Readable(b, m) =>
            /\ end \in 1 .. top /\ end >= m + 4 /\ KeptSegment(b, m) \in Seq(Nat)
      BY <1>1, <2>1, SegmentTyped
    <2>3. ASSUME Readable(b, m), after # 0
          PROVE  after \in 1 .. top /\ after >= end /\ SubSeq(b, end, after - 1) \in Seq(Nat)
      <3>1. end \in 1 .. Len(b) + 1
        BY <2>2, <2>3
      <3>2. after \in end .. Len(b)
        BY <2>3, <3>1, DataEndStep
      <3> HIDE DEF after, end
      <3>3. /\ after \in Nat /\ end \in Nat /\ 1 <= end /\ after - 1 \in Nat
            /\ end <= (after - 1) + 1 /\ after - 1 <= Len(b) /\ after \in 1 .. top /\ after >= end
        BY <3>1, <3>2, <1>1
      <3>4. SubSeq(b, end, after - 1) \in Seq(Nat)
        BY <3>3, Slice
      <3> QED BY <3>3, <3>4
    <2>4. SubSeq(b, m, m + 1) \in Seq(Nat)
      <3>1. m + 1 \in Nat /\ 1 <= m /\ m <= (m + 1) + 1 /\ m + 1 <= Len(b)
        BY <1>1, <2>1
      <3> QED BY <2>1, <3>1, Slice
    <2>5. m + 2 \in 1 .. top /\ m + 2 > i
      BY <1>1, <2>1
    <2>6. Readable(b, m) => end > i
      BY <1>1, <2>1, <2>2
    <2>7. Readable(b, m) /\ after # 0 => after > i
      <3> HIDE DEF after, end, m
      <3>1. Readable(b, m) /\ after # 0 => after \in Nat /\ end \in Nat /\ after >= end /\ end > i
        BY <1>1, <2>2, <2>3, <2>6
      <3> QED BY <3>1, <1>1
    <2>8. \A g : Step(b, g, i, scanned) =
            IF marker = EOI THEN IF scanned THEN SubSeq(b, m, m + 1) ELSE Refused
            ELSE IF marker \in JPEG_STANDALONE THEN Before(SubSeq(b, m, m + 1), g[m + 2][scanned])
            ELSE IF ~Readable(b, m) THEN Refused
            ELSE IF marker # SOS THEN Before(KeptSegment(b, m), g[end][scanned])
            ELSE IF after = 0 THEN Refused
            ELSE Before(KeptSegment(b, m) \o SubSeq(b, end, after - 1), g[after][TRUE])
      BY <1>3 DEF Step
    <2> HIDE DEF after, end, m, marker
    <2>9. ASSUME NEW g \in [1 .. top -> [BOOLEAN -> Seq(Nat)]] PROVE Step(b, g, i, scanned) \in Seq(Nat)
      <3>1. Refused \in Seq(Nat)
        BY EmptySeq DEF Refused
      <3>2. Before(SubSeq(b, m, m + 1), g[m + 2][scanned]) \in Seq(Nat)
        <4>1. g[m + 2][scanned] \in Seq(Nat)
          BY <2>5
        <4> QED BY <4>1, <2>4, BeforeTyped
      <3>3. Readable(b, m) => Before(KeptSegment(b, m), g[end][scanned]) \in Seq(Nat)
        <4>1. Readable(b, m) => g[end][scanned] \in Seq(Nat) /\ KeptSegment(b, m) \in Seq(Nat)
          BY <2>2
        <4> QED BY <4>1, BeforeTyped
      <3>4. Readable(b, m) /\ after # 0
              => Before(KeptSegment(b, m) \o SubSeq(b, end, after - 1), g[after][TRUE]) \in Seq(Nat)
        <4>1. Readable(b, m) /\ after # 0
                => /\ g[after][TRUE] \in Seq(Nat)
                   /\ KeptSegment(b, m) \in Seq(Nat) /\ SubSeq(b, end, after - 1) \in Seq(Nat)
          BY <2>2, <2>3
        <4>2. Readable(b, m) /\ after # 0 => KeptSegment(b, m) \o SubSeq(b, end, after - 1) \in Seq(Nat)
          BY <4>1, ConcatProperties
        <4> QED BY <4>1, <4>2, BeforeTyped
      <3> QED BY <2>4, <2>8, <3>1, <3>2, <3>3, <3>4
    <2>10. ASSUME NEW g, NEW h, \A j \in 1 .. top : j > i => g[j] = h[j]
           PROVE  Step(b, g, i, scanned) = Step(b, h, i, scanned)
      <3>1. g[m + 2] = h[m + 2]
        BY <2>5, <2>10
      <3>2. Readable(b, m) => g[end] = h[end]
        BY <2>2, <2>6, <2>10
      <3>3. Readable(b, m) /\ after # 0 => g[after] = h[after]
        BY <2>3, <2>7, <2>10
      <3> QED BY <2>8, <3>1, <3>2, <3>3
    <2> QED BY <2>9, <2>10
  <1> QED
    BY <1>2, <1>3

\* The walk over markers has the values its definition says, all of them sequences.
LEMMA JpegWalkStep ==
  ASSUME NEW b \in Seq(Nat)
  PROVE  /\ JpegWalk(b) \in [1 .. Len(b) + 1 -> [BOOLEAN -> Seq(Nat)]]
         /\ \A i \in 1 .. Len(b) + 1 : \A scanned \in BOOLEAN :
              JpegWalk(b)[i][scanned] = Step(b, JpegWalk(b), i, scanned)
  <1> DEFINE top == Len(b) + 1
             V == [BOOLEAN -> Seq(Nat)]
             Body(k, g) == [scanned \in BOOLEAN |-> Step(b, g, k, scanned)]
             walk == [k \in 1 .. top |-> [g \in [1 .. top -> V] |-> Body(k, g)]]
  <1>1. top \in Nat
    BY LenProperties
  <1>2. ASSUME NEW k \in 1 .. top, NEW g \in [1 .. top -> V] PROVE Body(k, g) \in V
    <2>1. \A scanned \in BOOLEAN : Step(b, g, k, scanned) \in Seq(Nat)
      BY StepTyped
    <2> QED BY <2>1
  <1>3. ASSUME NEW k \in 1 .. top, NEW g, NEW h, \A j \in 1 .. top : j > k => g[j] = h[j]
        PROVE  Body(k, g) = Body(k, h)
    <2>1. \A scanned \in BOOLEAN : Step(b, g, k, scanned) = Step(b, h, k, scanned)
      BY <1>3, StepTyped
    <2> QED BY <2>1
  <1>4. \A k \in 1 .. top : \A g \in [1 .. top -> V] : walk[k][g] = Body(k, g)
    OBVIOUS
  <1>5. walk \in [1 .. top -> [[1 .. top -> V] -> V]]
    <2> HIDE DEF Body, V
    <2> QED BY <1>2
  <1>6. V # {}
    <2>1. [scanned \in BOOLEAN |-> <<>>] \in V
      BY EmptySeq
    <2> QED BY <2>1
  <1> HIDE DEF walk, Body, top, V
  <1>7. LooksAhead(walk, top, V)
    <2>1. ASSUME NEW k \in 1 .. top, NEW g \in [1 .. top -> V], NEW h \in [1 .. top -> V],
                 \A j \in 1 .. top : j > k => g[j] = h[j]
          PROVE  walk[k][g] = walk[k][h]
      <3>1. Body(k, g) = Body(k, h)
        BY <2>1, <1>3
      <3> QED BY <3>1, <1>4
    <2> QED BY <2>1, <1>1, <1>5, <1>6 DEF LooksAhead
  <1>8. PICK f : Solves(f, walk, top, V)
    BY <1>7, Recursion
  <1>9. f \in [1 .. top -> V] /\ \A k \in 1 .. top : f[k] = Body(k, f)
    BY <1>4, <1>8 DEF Solves
  <1> DEFINE Def(g) == [k \in 1 .. top |-> Body(k, g)]
             c == CHOOSE g : g = Def(g)
  <1>10. f = Def(f)
    BY <1>9
  <1>11. c = Def(c)
    BY <1>10
  <1>12. JpegWalk(b) = c
    BY DEF JpegWalk, Body, Step, top
  <1>13. \A k \in 1 .. top : c[k] = Body(k, c)
    <2> HIDE DEF c
    <2> QED BY <1>11
  <1> HIDE DEF c
  <1> DEFINE T == {k \in 1 .. top : c[k] = f[k]}
  <1>14. ASSUME NEW k \in 1 .. top, \A j \in 1 .. top : j > k => j \in T PROVE k \in T
    <2>1. \A j \in 1 .. top : j > k => c[j] = f[j]
      BY <1>14
    <2>2. Body(k, c) = Body(k, f)
      BY <2>1, <1>3
    <2> QED BY <2>2, <1>9, <1>13
  <1> HIDE DEF T
  <1>15. \A k \in 1 .. top : k \in T
    <2>1. 1 \in Nat
      OBVIOUS
    <2>2. Downward(1, top, T)
      BY <2>1, <1>1, <1>14 DEF Downward
    <2> QED BY <2>2, ReachedDown
  <1>16. c \in [1 .. top -> V]
    <2>1. \A k \in 1 .. top : c[k] \in V
      BY <1>9, <1>15 DEF T
    <2>2. c = [k \in 1 .. top |-> c[k]]
      BY <1>11, <1>13
    <2> QED BY <2>1, <2>2
  <1>17. \A i \in 1 .. top : \A scanned \in BOOLEAN : c[i][scanned] = Step(b, c, i, scanned)
    BY <1>13 DEF Body
  <1> QED
    BY <1>12, <1>16, <1>17 DEF top, V

\* Bytes are numbers.
LEMMA BytesAreNumbers ==
  ASSUME NEW s \in Seq(Bytes)
  PROVE  s \in Seq(Nat) /\ Len(s) \in Nat /\ \A j \in 1 .. Len(s) : s[j] \in Bytes
  <1>1. Len(s) \in Nat /\ \A j \in 1 .. Len(s) : s[j] \in Bytes
    BY LenProperties, ElementOfSeq
  <1>2. \A j \in 1 .. Len(s) : s[j] \in Nat
    <2>1. \A x \in Bytes : x \in Nat
      BY DEF Bytes
    <2> QED BY <1>1, <2>1
  <1>3. s = [j \in 1 .. Len(s) |-> s[j]]
    BY LenProperties
  <1>4. s \in [1 .. Len(s) -> Nat]
    BY <1>2, <1>3
  <1>5. s \in Seq(Nat)
    BY <1>1, <1>4, FunctionIsSeq
  <1> QED
    BY <1>1, <1>5

\* The fields of a part.
LEMMA PartTyped ==
  ASSUME NEW p \in JpegParts
  PROVE  /\ p.fill \in Nat /\ p.marker \in 1 .. 254 /\ p.payload \in Seq(Bytes) /\ p.data \in Seq(Bytes)
         /\ p.marker \notin {SOI, EOI} \cup RestartMarkers
         /\ Len(p.payload) + 2 < 65536
         /\ IF p.marker = SOS THEN ScanData(p.data) ELSE p.data = <<>>
  <1>1. p \in [fill: Nat, marker: 1 .. 254, payload: Seq(Bytes), data: Seq(Bytes)]
    BY DEF JpegParts
  <1>2. p.fill \in Nat /\ p.marker \in 1 .. 254 /\ p.payload \in Seq(Bytes) /\ p.data \in Seq(Bytes)
    BY <1>1
  <1>3. /\ p.marker \notin {SOI, EOI} \cup RestartMarkers
        /\ Len(p.payload) + 2 < 65536
        /\ IF p.marker = SOS THEN ScanData(p.data) ELSE p.data = <<>>
    BY DEF JpegParts
  <1> QED
    BY <1>2, <1>3

\* Whether a part is more than its marker.
HasPayload(p) == p.marker \notin JPEG_STANDALONE

\* The bytes of a part after its fill bytes.
LEMMA PartBytes ==
  ASSUME NEW p \in JpegParts
  PROVE  /\ JpegBytes(p) \in Seq(Nat)
         /\ Len(p.payload) \in Nat /\ Len(p.data) \in Nat
         /\ Len(JpegBytes(p)) = IF HasPayload(p) THEN (Len(p.payload) + 4) + Len(p.data) ELSE 2
         /\ JpegBytes(p)[1] = 255 /\ JpegBytes(p)[2] = p.marker
         /\ HasPayload(p) => /\ JpegBytes(p)[3] * 256 + JpegBytes(p)[4] = Len(p.payload) + 2
                       /\ \A j \in 1 .. Len(p.data) : JpegBytes(p)[(Len(p.payload) + 4) + j] = p.data[j]
  <1> DEFINE P == Len(p.payload)
             D == Len(p.data)
             hi == (P + 2) \div 256
             lo == (P + 2) % 256
             mark == <<255, p.marker>>
             size == <<hi, lo>>
             sp == size \o p.payload
             spd == sp \o p.data
             w == mark \o spd
  <1>1. p.marker \in Nat /\ p.payload \in Seq(Bytes) /\ p.data \in Seq(Bytes)
    <2>1. p.marker \in 1 .. 254 /\ p.payload \in Seq(Bytes) /\ p.data \in Seq(Bytes)
      BY PartTyped
    <2>2. \A x \in 1 .. 254 : x \in Nat
      OBVIOUS
    <2>3. p.marker \in Nat
      BY <2>1, <2>2
    <2> QED BY <2>1, <2>3
  <1>2. P \in Nat /\ D \in Nat /\ p.payload \in Seq(Nat) /\ p.data \in Seq(Nat)
    BY <1>1, BytesAreNumbers
  <1>3. mark \in Seq(Nat) /\ Len(mark) = 2 /\ mark[1] = 255 /\ mark[2] = p.marker
    BY <1>1
  <1> HIDE DEF P, D
  <1>4. hi \in Nat /\ lo \in Nat /\ hi * 256 + lo = P + 2
    BY <1>2
  <1> HIDE DEF hi, lo
  <1>5. size \in Seq(Nat) /\ Len(size) = 2 /\ size[1] = hi /\ size[2] = lo
    BY <1>4
  <1> HIDE DEF mark, size
  <1>6. /\ sp \in Seq(Nat) /\ Len(sp) = 2 + P
        /\ sp[1] = hi /\ sp[2] = lo
    <2>1. /\ sp \in Seq(Nat) /\ Len(sp) = Len(size) + Len(p.payload)
          /\ \A j \in 1 .. Len(size) : sp[j] = size[j]
      <3>1. size \in Seq(Nat)
        BY <1>5
      <3>2. p.payload \in Seq(Nat)
        BY <1>2
      <3> QED BY <3>1, <3>2, Joined
    <2> HIDE DEF sp
    <2>2. 1 \in 1 .. Len(size) /\ 2 \in 1 .. Len(size)
      BY <1>5
    <2>3. sp[1] = size[1] /\ sp[2] = size[2]
      BY <2>1, <2>2
    <2> QED BY <2>1, <2>3, <1>5 DEF P
  <1> HIDE DEF sp
  <1>7. /\ spd \in Seq(Nat) /\ Len(spd) = (2 + P) + D
        /\ spd[1] = hi /\ spd[2] = lo
        /\ \A j \in 1 .. D : spd[(2 + P) + j] = p.data[j]
    <2>1. /\ spd \in Seq(Nat) /\ Len(spd) = Len(sp) + Len(p.data)
          /\ \A j \in 1 .. Len(sp) : spd[j] = sp[j]
          /\ \A j \in 1 .. Len(p.data) : spd[Len(sp) + j] = p.data[j]
      <3>1. sp \in Seq(Nat)
        BY <1>6
      <3>2. p.data \in Seq(Nat)
        BY <1>2
      <3> QED BY <3>1, <3>2, Joined
    <2> HIDE DEF spd
    <2>2. 1 \in 1 .. Len(sp) /\ 2 \in 1 .. Len(sp)
      BY <1>2, <1>6
    <2>3. spd[1] = sp[1] /\ spd[2] = sp[2]
      BY <2>1, <2>2
    <2> QED BY <2>1, <2>3, <1>6 DEF D
  <1> HIDE DEF spd
  <1>8. /\ w \in Seq(Nat) /\ Len(w) = 2 + ((2 + P) + D)
        /\ w[1] = 255 /\ w[2] = p.marker /\ w[3] = hi /\ w[4] = lo
        /\ \A j \in 1 .. D : w[(P + 4) + j] = p.data[j]
    <2>1. /\ w \in Seq(Nat) /\ Len(w) = Len(mark) + Len(spd)
          /\ \A j \in 1 .. Len(mark) : w[j] = mark[j]
          /\ \A j \in 1 .. Len(spd) : w[Len(mark) + j] = spd[j]
      <3>1. mark \in Seq(Nat)
        BY <1>3
      <3>2. spd \in Seq(Nat)
        BY <1>7
      <3> QED BY <3>1, <3>2, Joined
    <2> HIDE DEF w
    <2>2. 1 \in 1 .. Len(mark) /\ 2 \in 1 .. Len(mark)
      BY <1>3
    <2>3. w[1] = mark[1] /\ w[2] = mark[2]
      BY <2>1, <2>2
    <2>4. \A j \in 1 .. (2 + P) + D : w[2 + j] = spd[j]
      BY <2>1, <1>3, <1>7
    <2>5. 1 \in 1 .. (2 + P) + D /\ 2 \in 1 .. (2 + P) + D /\ 2 + 1 = 3 /\ 2 + 2 = 4
      BY <1>2
    <2>6. w[3] = spd[1] /\ w[4] = spd[2]
      BY <2>4, <2>5
    <2>7. ASSUME NEW j \in 1 .. D PROVE w[(P + 4) + j] = p.data[j]
      <3>1. (2 + P) + j \in 1 .. (2 + P) + D /\ 2 + ((2 + P) + j) = (P + 4) + j
        BY <1>2
      <3>2. w[2 + ((2 + P) + j)] = spd[(2 + P) + j]
        BY <3>1, <2>4
      <3> QED BY <3>1, <3>2, <1>7
    <2> QED BY <2>1, <2>3, <2>6, <2>7, <1>3, <1>7
  <1>9. CASE HasPayload(p)
    <2>1. JpegBytes(p) = w
      BY <1>9 DEF JpegBytes, HasPayload, w, mark, spd, sp, size, hi, lo, P
    <2> HIDE DEF w
    <2>2. 2 + ((2 + P) + D) = (P + 4) + D
      BY <1>2
    <2>3. w[3] * 256 + w[4] = P + 2
      BY <1>4, <1>8
    <2> QED BY <2>1, <2>2, <2>3, <1>2, <1>8, <1>9 DEF P, D
  <1>10. CASE ~HasPayload(p)
    <2>1. JpegBytes(p) = mark
      <3>1. JpegBytes(p) = mark \o <<>>
        BY <1>10 DEF JpegBytes, HasPayload, mark
      <3> QED BY <3>1, <1>3, ConcatEmptySeq
    <2> QED BY <2>1, <1>2, <1>3, <1>10 DEF P, D
  <1> QED
    BY <1>9, <1>10

\* With its fill bytes.
LEMMA FilledBytes ==
  ASSUME NEW p \in JpegParts
  PROVE  /\ p.fill \in Nat
         /\ FilledJpegBytes(p) \in Seq(Nat)
         /\ Len(FilledJpegBytes(p)) = p.fill + Len(JpegBytes(p))
         /\ \A j \in 1 .. p.fill : FilledJpegBytes(p)[j] = 255
         /\ \A j \in 1 .. Len(JpegBytes(p)) : FilledJpegBytes(p)[p.fill + j] = JpegBytes(p)[j]
  <1> DEFINE f == p.fill
             fill == [i \in 1 .. f |-> 255]
             w == JpegBytes(p)
             F == fill \o w
  <1>1. f \in Nat
    BY PartTyped
  <1>2. w \in Seq(Nat)
    BY PartBytes
  <1>3. fill \in Seq(Nat) /\ Len(fill) = f /\ \A j \in 1 .. f : fill[j] = 255
    <2>1. fill \in [1 .. f -> Nat]
      OBVIOUS
    <2>2. fill \in Seq(Nat) /\ Len(fill) = f
      BY <2>1, <1>1, FunctionIsSeq
    <2> QED BY <2>2
  <1>4. FilledJpegBytes(p) = F
    BY DEF FilledJpegBytes
  <1> HIDE DEF fill, w
  <1>5. /\ F \in Seq(Nat) /\ Len(F) = Len(fill) + Len(w)
        /\ \A j \in 1 .. Len(fill) : F[j] = fill[j]
        /\ \A j \in 1 .. Len(w) : F[Len(fill) + j] = w[j]
    <2>1. fill \in Seq(Nat)
      BY <1>3
    <2> QED BY <2>1, <1>2, Joined
  <1> HIDE DEF F, f
  <1>6. /\ F \in Seq(Nat) /\ Len(F) = f + Len(w)
        /\ \A j \in 1 .. f : F[j] = 255
        /\ \A j \in 1 .. Len(w) : F[f + j] = w[j]
    BY <1>3, <1>5
  <1> QED
    BY <1>1, <1>4, <1>6 DEF w, f

\* b has a marker x at o, after f fill bytes, as far as it goes.
MarkerAt(b, o, f, x) ==
  /\ b \in Seq(Nat) /\ o \in Nat /\ o <= Len(b) /\ f \in Nat /\ x # 255
  /\ \A j \in 1 .. f + 1 : o + j <= Len(b) => b[o + j] = 255
  /\ (o + f) + 2 <= Len(b) => b[(o + f) + 2] = x

\* What the walk does at the marker whose 0xFF is at m.
Passed(b, m, scanned) ==
  IF b[m + 1] = EOI THEN IF scanned THEN SubSeq(b, m, m + 1) ELSE Refused
  ELSE IF b[m + 1] \in JPEG_STANDALONE THEN Before(SubSeq(b, m, m + 1), JpegWalk(b)[m + 2][scanned])
  ELSE IF ~Readable(b, m) THEN Refused
  ELSE IF b[m + 1] # SOS THEN Before(KeptSegment(b, m), JpegWalk(b)[SegmentEnd(b, m)][scanned])
  ELSE IF DataEnd(b)[SegmentEnd(b, m)] = 0 THEN Refused
  ELSE Before(KeptSegment(b, m) \o SubSeq(b, SegmentEnd(b, m), DataEnd(b)[SegmentEnd(b, m)] - 1),
              JpegWalk(b)[DataEnd(b)[SegmentEnd(b, m)]][TRUE])

\* The walk passes the fill bytes, and goes on from the marker when the file has it.
LEMMA MarkerFound ==
  ASSUME NEW b, NEW o, NEW f, NEW x, MarkerAt(b, o, f, x), NEW scanned \in BOOLEAN
  PROVE  JpegWalk(b)[o + 1][scanned] =
           IF (o + f) + 2 <= Len(b) THEN Passed(b, (o + f) + 1, scanned) ELSE Refused
  <1> DEFINE l == Len(b)
             w == JpegWalk(b)[o + 1][scanned]
  <1>0. b \in Seq(Nat) /\ o \in Nat /\ o <= l /\ f \in Nat
    BY DEF MarkerAt
  <1>1. l \in Nat
    BY <1>0, LenProperties
  <1>2. \A j \in 1 .. f + 1 : o + j <= l => b[o + j] = 255
    BY DEF MarkerAt
  <1>3. (o + f) + 2 <= l => b[(o + f) + 2] = x /\ x # 255
    BY DEF MarkerAt
  <1>4. w = Step(b, JpegWalk(b), o + 1, scanned)
    <2>1. o + 1 \in 1 .. l + 1
      BY <1>0, <1>1
    <2> QED BY <1>0, <2>1, JpegWalkStep
  <1> HIDE DEF w, l
  <1>5. ASSUME o = l PROVE w = Refused
    <2>1. o + 1 > Len(b)
      BY <1>0, <1>1, <1>5 DEF l
    <2> QED BY <2>1, <1>4 DEF Step
  <1>6. ASSUME o < l
        PROVE  /\ b[o + 1] = 255 /\ ~(o + 1 > l)
               /\ Filled(b)[o + 1] = IF (o + f) + 2 <= l THEN (o + f) + 1 ELSE l
    <2> DEFINE m == IF (o + f) + 2 <= l THEN (o + f) + 1 ELSE l
    <2>1. 1 \in 1 .. f + 1 /\ o + 1 <= l
      BY <1>0, <1>1, <1>6
    <2>2. b[o + 1] = 255 /\ ~(o + 1 > l)
      BY <2>1, <1>0, <1>1, <1>2
    <2>3. m \in Nat /\ o + 1 <= m /\ m <= l /\ o + 1 \in Nat /\ 1 <= o + 1 /\ m <= (o + f) + 1
      BY <1>0, <1>1, <1>6
    <2>4. m = l \/ b[m + 1] # 255
      <3>1. CASE (o + f) + 2 <= l
        <4>1. m + 1 = (o + f) + 2
          BY <3>1, <1>0
        <4> QED BY <3>1, <4>1, <1>3
      <3>2. CASE ~((o + f) + 2 <= l)
        BY <3>2
      <3> QED BY <3>1, <3>2
    <2> HIDE DEF m
    <2>5. ASSUME NEW k \in o + 1 .. m PROVE b[k] = 255
      <3>1. k - o \in 1 .. f + 1 /\ o + (k - o) = k /\ k <= l
        BY <2>3, <1>0, <1>1
      <3>2. o + (k - o) <= l => b[o + (k - o)] = 255
        BY <3>1, <1>2
      <3> QED BY <3>1, <3>2
    <2>6. Filled(b)[o + 1] = m
      <3>1. m = Len(b) \/ b[m + 1] # 255
        BY <2>4 DEF l
      <3>2. m <= Len(b)
        BY <2>3 DEF l
      <3> QED BY <1>0, <2>3, <2>5, <3>1, <3>2, FilledEnds
    <2> QED BY <2>2, <2>6 DEF m
  <1>7. CASE ~((o + f) + 2 <= l)
    <2>1. CASE o = l
      BY <1>5, <1>7, <2>1 DEF w, l
    <2>2. CASE o # l
      <3>1. o < l
        BY <2>2, <1>0, <1>1
      <3>2. Filled(b)[o + 1] = Len(b)
        BY <3>1, <1>6, <1>7 DEF l
      <3> QED BY <3>2, <1>4, <1>7 DEF Step, w, l
    <2> QED BY <2>1, <2>2
  <1>8. CASE (o + f) + 2 <= l
    <2>1. o < l /\ (o + f) + 1 # l
      BY <1>0, <1>1, <1>8
    <2>2. b[o + 1] = 255 /\ ~(o + 1 > Len(b)) /\ Filled(b)[o + 1] = (o + f) + 1 /\ Filled(b)[o + 1] # Len(b)
      BY <2>1, <1>6, <1>8 DEF l
    <2>3. w = Passed(b, (o + f) + 1, scanned)
      <3> DEFINE m == (o + f) + 1
      <3>1. Filled(b)[o + 1] = m
        BY <2>2
      <3> HIDE DEF m
      <3>2. w = Passed(b, m, scanned)
        BY <2>2, <3>1, <1>4 DEF Step, Passed
      <3> QED BY <3>2 DEF m
    <2> QED BY <2>3, <1>8 DEF w, l
  <1> QED
    BY <1>7, <1>8

\* What is in b from q on does not go on with the data of a scan.
Marked(b, q) ==
  /\ q + 1 <= Len(b) => b[q + 1] = 255
  /\ q + 2 <= Len(b) => ~InData(b[q + 2])

\* b has a part at o, as far as it goes, and another one or the end of the image after it.
HasPart(b, o, p) ==
  /\ b \in Seq(Nat) /\ o \in Nat /\ o <= Len(b)
  /\ p \in JpegParts /\ Holds(b, o, FilledJpegBytes(p))
  /\ Marked(b, o + Len(FilledJpegBytes(p)))

\* Its marker, and its bytes when the file has all of it.
LEMMA PartFound ==
  ASSUME NEW b, NEW o, NEW p, HasPart(b, o, p)
  PROVE  /\ MarkerAt(b, o, p.fill, p.marker)
         /\ p.fill \in Nat /\ Len(JpegBytes(p)) \in Nat
         /\ Len(FilledJpegBytes(p)) = p.fill + Len(JpegBytes(p))
         /\ Holds(b, o + p.fill, JpegBytes(p))
         /\ o + Len(FilledJpegBytes(p)) <= Len(b)
              => SubSeq(b, (o + p.fill) + 1, o + Len(FilledJpegBytes(p))) = JpegBytes(p)
  <1> DEFINE f == p.fill
             F == FilledJpegBytes(p)
             w == JpegBytes(p)
             n == Len(w)
             l == Len(b)
             r == o + f
  <1>1. b \in Seq(Nat) /\ o \in Nat /\ o <= l /\ p \in JpegParts
    BY DEF HasPart
  <1>2. \A j \in 1 .. Len(F) : o + j <= l => b[o + j] = F[j]
    BY DEF HasPart, Holds
  <1>3. w \in Seq(Nat) /\ w[1] = 255 /\ w[2] = p.marker /\ n \in Nat /\ n >= 2
    <2>1. /\ w \in Seq(Nat) /\ w[1] = 255 /\ w[2] = p.marker
          /\ Len(p.payload) \in Nat /\ Len(p.data) \in Nat
          /\ Len(w) = IF HasPayload(p) THEN (Len(p.payload) + 4) + Len(p.data) ELSE 2
      BY <1>1, PartBytes
    <2> DEFINE P == Len(p.payload)
               D == Len(p.data)
    <2>2. P \in Nat /\ D \in Nat /\ n = IF HasPayload(p) THEN (P + 4) + D ELSE 2
      BY <2>1
    <2> HIDE DEF w, n, P, D
    <2>3. n \in Nat /\ n >= 2
      BY <2>2
    <2> QED BY <2>1, <2>3
  <1>4. /\ f \in Nat /\ Len(F) = f + n
        /\ \A j \in 1 .. f : F[j] = 255
        /\ \A j \in 1 .. n : F[f + j] = w[j]
    BY <1>1, FilledBytes
  <1>5. l \in Nat /\ p.marker # 255
    <2>1. p.marker \in 1 .. 254
      BY <1>1, PartTyped
    <2>2. p.marker # 255
      BY <2>1
    <2>3. l \in Nat
      BY <1>1, LenProperties
    <2> QED BY <2>2, <2>3
  <1> HIDE DEF f, F, w, n, l
  <1>6. r \in Nat /\ r = o + f
    BY <1>1, <1>4
  <1> HIDE DEF r
  <1>7. ASSUME NEW j \in 1 .. n, r + j <= l PROVE b[r + j] = w[j]
    <2>1. f + j \in 1 .. Len(F) /\ o + (f + j) = r + j
      BY <1>1, <1>3, <1>4, <1>6
    <2> QED BY <2>1, <1>2, <1>4, <1>7
  <1>8. ASSUME NEW j \in 1 .. f + 1, o + j <= l PROVE b[o + j] = 255
    <2>1. CASE j \in 1 .. f
      <3>1. j \in 1 .. Len(F)
        BY <2>1, <1>3, <1>4
      <3> QED BY <2>1, <3>1, <1>2, <1>4, <1>8
    <2>2. CASE j \notin 1 .. f
      <3>1. o + j = r + 1 /\ 1 \in 1 .. n
        BY <2>2, <1>1, <1>3, <1>4, <1>6
      <3> QED BY <3>1, <1>3, <1>7, <1>8
    <2> QED BY <2>1, <2>2
  <1>9. r + 2 <= l => b[r + 2] = p.marker
    <2>1. 2 \in 1 .. n
      BY <1>3
    <2> QED BY <2>1, <1>3, <1>7
  <1>10. MarkerAt(b, o, f, p.marker)
    BY <1>1, <1>4, <1>5, <1>6, <1>8, <1>9 DEF MarkerAt, l
  <1>11. Holds(b, r, w)
    BY <1>7 DEF Holds, n, l
  <1>12. ASSUME o + Len(F) <= l PROVE SubSeq(b, r + 1, o + Len(F)) = w
    <2>1. o + Len(F) = r + n
      BY <1>1, <1>3, <1>4, <1>6
    <2>2. \A j \in 1 .. n : b[r + j] = w[j]
      <3>1. \A j \in 1 .. n : r + j <= l
        BY <2>1, <1>3, <1>5, <1>6, <1>12
      <3> QED BY <3>1, <1>7
    <2>3. r + n <= Len(b) /\ n = Len(w)
      BY <2>1, <1>12 DEF l, n
    <2>4. SubSeq(b, r + 1, r + n) = w
      <3>1. b \in Seq(Nat) /\ w \in Seq(Nat) /\ r \in Nat /\ n \in Nat
        BY <1>1, <1>3, <1>6
      <3> QED BY <2>2, <2>3, <3>1, SliceIs
    <2> QED BY <2>1, <2>4
  <1> QED
    BY <1>3, <1>4, <1>10, <1>11, <1>12 DEF f, F, w, n, l, r

\* Two slices, one after the other.
LEMMA Slices ==
  ASSUME NEW b \in Seq(Nat), NEW i \in Nat, NEW j \in Nat, NEW k \in Nat,
         1 <= i, i <= j + 1, j <= k, k <= Len(b)
  PROVE  SubSeq(b, i, j) \o SubSeq(b, j + 1, k) = SubSeq(b, i, k)
  <1> DEFINE s == SubSeq(b, i, j)
             t == SubSeq(b, j + 1, k)
             u == SubSeq(b, i, k)
             v == s \o t
             p == (j + 1) - i
             q == (k + 1) - (j + 1)
  <1>1. Len(b) \in Nat
    BY LenProperties
  <1>2. s \in Seq(Nat) /\ Len(s) = p /\ \A h \in 1 .. p : s[h] = b[(i + h) - 1]
    <2>1. j <= Len(b)
      BY <1>1
    <2> QED BY <2>1, Slice
  <1>3. t \in Seq(Nat) /\ Len(t) = q /\ \A h \in 1 .. q : t[h] = b[((j + 1) + h) - 1]
    <2>1. j + 1 \in Nat /\ 1 <= j + 1 /\ j + 1 <= k + 1
      OBVIOUS
    <2> QED BY <2>1, Slice
  <1>4. u \in Seq(Nat) /\ Len(u) = (k + 1) - i /\ \A h \in 1 .. (k + 1) - i : u[h] = b[(i + h) - 1]
    <2>1. i <= k + 1
      OBVIOUS
    <2> QED BY <2>1, Slice
  <1>5. p \in Nat /\ q \in Nat /\ p + q = (k + 1) - i /\ p = (j + 1) - i
    OBVIOUS
  <1> HIDE DEF s, t, u, p, q
  <1>6. /\ v \in Seq(Nat) /\ Len(v) = p + q
        /\ \A h \in 1 .. p : v[h] = s[h]
        /\ \A h \in 1 .. q : v[p + h] = t[h]
    <2>1. s \in Seq(Nat)
      BY <1>2
    <2>2. t \in Seq(Nat)
      BY <1>3
    <2>3. /\ v \in Seq(Nat) /\ Len(v) = Len(s) + Len(t)
          /\ \A h \in 1 .. Len(s) : v[h] = s[h]
          /\ \A h \in 1 .. Len(t) : v[Len(s) + h] = t[h]
      BY <2>1, <2>2, Joined
    <2> QED BY <2>3, <1>2, <1>3
  <1> HIDE DEF v
  <1>7. ASSUME NEW h \in 1 .. p + q PROVE v[h] = u[h]
    <2>1. u[h] = b[(i + h) - 1]
      BY <1>4, <1>5
    <2>2. CASE h \in 1 .. p
      BY <2>1, <2>2, <1>2, <1>6
    <2>3. CASE h \notin 1 .. p
      <3>1. h - p \in 1 .. q /\ p + (h - p) = h /\ ((j + 1) + (h - p)) - 1 = (i + h) - 1
        BY <2>3, <1>5
      <3>2. v[p + (h - p)] = t[h - p] /\ t[h - p] = b[((j + 1) + (h - p)) - 1]
        BY <3>1, <1>3, <1>6
      <3> QED BY <2>1, <3>1, <3>2
    <2> QED BY <2>2, <2>3
  <1>8. v = u
    <2>1. Len(v) = p + q /\ Len(u) = p + q
      BY <1>4, <1>5, <1>6
    <2> QED BY <2>1, <1>4, <1>6, <1>7, SeqEqual
  <1> QED
    BY <1>8 DEF v, s, t, u

\* What the walk keeps of a part.
KeptBytes(p) == IF p.marker \in JPEG_REMOVED_MARKERS THEN <<>> ELSE JpegBytes(p)

\* The segment of a part that is more than its marker, at m: where it ends.
LEMMA SegmentFound ==
  ASSUME NEW b, NEW o, NEW p, HasPart(b, o, p), HasPayload(p), ((o + p.fill) + 1) + 1 <= Len(b)
  PROVE  LET m == (o + p.fill) + 1
             q == o + Len(FilledJpegBytes(p))
             e == (q + 1) - Len(p.data)
         IN  /\ e \in Nat /\ e >= m + 4
             /\ Readable(b, m) <=> e <= Len(b) + 1
             /\ e <= Len(b) + 1 => SegmentEnd(b, m) = e
  <1> DEFINE r == o + p.fill
             m == r + 1
             q == o + Len(FilledJpegBytes(p))
             f == p.fill
             w == JpegBytes(p)
             W == Len(w)
             P == Len(p.payload)
             D == Len(p.data)
             l == Len(b)
             e == (q + 1) - D
  <1>1. b \in Seq(Nat) /\ o \in Nat /\ p \in JpegParts
    BY DEF HasPart
  <1>2. f \in Nat /\ W \in Nat /\ q = o + (f + W)
    BY PartFound
  <1>2a. \A j \in 1 .. W : r + j <= Len(b) => b[r + j] = w[j]
    BY PartFound DEF Holds
  <1>3. P \in Nat /\ D \in Nat /\ W = (P + 4) + D
    BY <1>1, PartBytes
  <1>3a. w[3] * 256 + w[4] = P + 2
    BY <1>1, PartBytes
  <1>4. l \in Nat /\ m + 1 <= l
    BY <1>1, LenProperties
  <1> HIDE DEF w, P, D, l, q, f, W
  <1>5. r \in Nat /\ m = r + 1 /\ e = (r + P) + 5
    <2>1. o \in Nat /\ r = o + f
      BY <1>1 DEF f
    <2> HIDE DEF r
    <2> QED BY <2>1, <1>2, <1>3
  <1> HIDE DEF r, m, e
  <1>6. ASSUME m + 3 <= l
        PROVE  b[m + 2] * 256 + b[m + 3] = P + 2 /\ SegmentEnd(b, m) = e
    <2>1. m + 2 = r + 3 /\ m + 3 = r + 4 /\ 3 \in 1 .. W /\ 4 \in 1 .. W /\ r + 3 <= l /\ r + 4 <= l
      BY <1>3, <1>4, <1>5, <1>6
    <2>2. b[m + 2] = w[3] /\ b[m + 3] = w[4]
      BY <2>1, <1>2a DEF l
    <2> DEFINE x == b[m + 2]
               y == b[m + 3]
    <2>3. /\ w[3] \in Nat /\ w[4] \in Nat
      <3>1. w \in Seq(Nat)
        BY <1>1, PartBytes DEF w
      <3> QED BY <2>1, <3>1, ElementOfSeq DEF W
    <2>4. x \in Nat /\ y \in Nat /\ x * 256 + y = P + 2
      BY <2>2, <2>3, <1>3a
    <2>5. SegmentEnd(b, m) = m + 2 + x * 256 + y
      BY DEF SegmentEnd
    <2> HIDE DEF x, y
    <2>6. m + 2 + x * 256 + y = e
      BY <2>4, <1>3, <1>5
    <2> QED BY <2>4, <2>5, <2>6 DEF x, y
  <1>7. Readable(b, m) <=> e <= l + 1
    <2>1. CASE m + 3 <= l
      <3>1. Readable(b, m) <=> P + 2 >= 2 /\ e - 1 <= l
        BY <2>1, <1>6 DEF Readable, l
      <3> QED BY <3>1, <1>3, <1>4, <1>5
    <2>2. CASE ~(m + 3 <= l)
      <3>1. ~Readable(b, m)
        BY <2>2 DEF Readable, l
      <3>2. ~(e <= l + 1)
        BY <2>2, <1>3, <1>4, <1>5
      <3> QED BY <3>1, <3>2
    <2> QED BY <2>1, <2>2
  <1>8. ASSUME e <= l + 1 PROVE SegmentEnd(b, m) = e
    <2>1. m + 3 <= l
      BY <1>3, <1>4, <1>5, <1>8
    <2> QED BY <2>1, <1>6
  <1>9. e \in Nat /\ e >= m + 4
    BY <1>3, <1>5
  <1> QED
    BY <1>7, <1>8, <1>9 DEF m, r, q, e, D, l

\* The data of a scan whose segment is whole.
LEMMA ScanFound ==
  ASSUME NEW b, NEW o, NEW p, HasPart(b, o, p), p.marker = SOS, NEW q, q = o + Len(FilledJpegBytes(p)),
         NEW e, e = (q + 1) - Len(p.data), e <= Len(b) + 1
  PROVE  /\ q \in Nat /\ Len(p.data) \in Nat /\ e \in Nat
         /\ DataEnd(b)[e] = IF q + 1 < Len(b) THEN q + 1 ELSE 0
  <1> DEFINE r == o + p.fill
             f == p.fill
             w == JpegBytes(p)
             W == Len(w)
             P == Len(p.payload)
             D == Len(p.data)
             l == Len(b)
  <1>1. b \in Seq(Nat) /\ o \in Nat /\ p \in JpegParts /\ Marked(b, q)
    BY DEF HasPart
  <1>2. f \in Nat /\ W \in Nat /\ q = o + (f + W)
    BY PartFound
  <1>2a. \A j \in 1 .. W : r + j <= Len(b) => b[r + j] = w[j]
    BY PartFound DEF Holds
  <1>3. HasPayload(p)
    BY DEF HasPayload, SOS, JPEG_STANDALONE, RestartMarkers
  <1>4. P \in Nat /\ D \in Nat /\ W = (P + 4) + D
    BY <1>1, <1>3, PartBytes
  <1>4a. \A j \in 1 .. D : w[(P + 4) + j] = p.data[j]
    BY <1>1, <1>3, PartBytes
  <1>5. \A i \in 1 .. D : p.data[i] = 255 => i < D /\ InData(p.data[i + 1])
    <2>1. ScanData(p.data) /\ p.data \in Seq(Bytes)
      BY <1>1, PartTyped
    <2>2. DOMAIN p.data = 1 .. D
      BY <2>1, LenProperties
    <2> QED BY <2>1, <2>2 DEF ScanData, InData
  <1>6. l \in Nat /\ e <= l + 1
    BY <1>1, LenProperties
  <1>7. e = (q + 1) - D
    OBVIOUS
  <1> HIDE DEF w, P, D, l, f, W
  <1>8. /\ r \in Nat /\ q \in Nat /\ e = (r + (P + 4)) + 1 /\ q = (r + (P + 4)) + D
    <2>1. o \in Nat /\ r = o + f
      BY <1>1 DEF f
    <2> HIDE DEF r
    <2>2. r \in Nat /\ q \in Nat /\ q = (r + (P + 4)) + D
      BY <2>1, <1>2, <1>4
    <2>3. e = (r + (P + 4)) + 1
      BY <2>2, <1>4, <1>7
    <2> QED BY <2>2, <2>3
  <1> HIDE DEF r
  <1>9. ASSUME NEW j \in 1 .. D, (r + (P + 4)) + j <= l PROVE b[(r + (P + 4)) + j] = p.data[j]
    <2>1. (P + 4) + j \in 1 .. W /\ r + ((P + 4) + j) = (r + (P + 4)) + j
      BY <1>4, <1>8
    <2>2. b[r + ((P + 4) + j)] = w[(P + 4) + j]
      BY <2>1, <1>2a, <1>9 DEF l
    <2> QED BY <2>1, <2>2, <1>4a
  <1> DEFINE s == r + (P + 4)
  <1>10. s \in Nat /\ e = s + 1 /\ q = s + D
    BY <1>4, <1>8
  <1>11. \A j \in 1 .. D : s + j <= l => b[s + j] = p.data[j]
    BY <1>9
  <1> HIDE DEF s
  <1>12. ASSUME NEW k \in e .. (q + 1) - 1, k < l, b[k] = 255 PROVE k + 1 < q + 1 /\ InData(b[k + 1])
    <2> DEFINE j == k - s
    <2>1. j \in 1 .. D /\ k = s + j /\ k + 1 = s + (j + 1) /\ k <= l /\ k + 1 <= l
      BY <1>4, <1>6, <1>10, <1>12
    <2> HIDE DEF j
    <2>2. p.data[j] = 255
      BY <2>1, <1>11, <1>12
    <2>3. j < D /\ InData(p.data[j + 1])
      BY <2>1, <2>2, <1>5
    <2>4. j + 1 \in 1 .. D
      BY <2>1, <2>3, <1>4
    <2>5. b[k + 1] = p.data[j + 1]
      BY <2>1, <2>4, <1>11
    <2>6. k + 1 < q + 1
      BY <2>1, <2>3, <1>4, <1>10
    <2> QED BY <2>3, <2>5, <2>6
  <1>13. ASSUME q + 1 < l PROVE b[q + 1] = 255 /\ ~InData(b[(q + 1) + 1])
    <2>1. q + 1 <= Len(b) /\ q + 2 <= Len(b) /\ (q + 1) + 1 = q + 2
      BY <1>6, <1>8, <1>13 DEF l
    <2> QED BY <2>1, <1>1 DEF Marked
  <1>14. e \in Nat /\ 1 <= e /\ e <= q + 1 /\ q + 1 \in Nat
    BY <1>4, <1>10
  <1>15. DataEnd(b)[e] = IF q + 1 < l THEN q + 1 ELSE 0
    <2> DEFINE x == q + 1
    <2>1. \A k \in e .. x - 1 : k < Len(b) => (b[k] = 255 => k + 1 < x /\ InData(b[k + 1]))
      BY <1>12 DEF l
    <2>2. x < Len(b) => b[x] = 255 /\ ~InData(b[x + 1])
      BY <1>13 DEF l
    <2>3. e \in Nat /\ x \in Nat /\ 1 <= e /\ e <= x /\ e <= Len(b) + 1
      BY <1>6, <1>14 DEF l
    <2> HIDE DEF x
    <2>4. DataEnd(b)[e] = IF x < Len(b) THEN x ELSE 0
      <3>1. b \in Seq(Nat)
        BY <1>1
      <3> HIDE DEF Marked
      <3> QED BY <2>1, <2>2, <2>3, <3>1, DataEnds
    <2> QED BY <2>4 DEF x, l
  <1> QED
    BY <1>4, <1>8, <1>14, <1>15 DEF D, l

\* Nothing is made of a file from its last byte on, when that is a 0xFF.
LEMMA NothingLeft ==
  ASSUME NEW b \in Seq(Nat), NEW q \in Nat, q <= Len(b), Marked(b, q), q + 2 > Len(b), NEW scanned \in BOOLEAN
  PROVE  JpegWalk(b)[q + 1][scanned] = Refused
  <1>1. Len(b) \in Nat
    BY LenProperties
  <1>2. ASSUME NEW j \in 1 .. 0 + 1, q + j <= Len(b) PROVE b[q + j] = 255
    BY <1>2 DEF Marked
  <1>3. (q + 0) + 2 <= Len(b) => FALSE
    BY <1>1
  <1>4. MarkerAt(b, q, 0, EOI)
    BY <1>2, <1>3 DEF MarkerAt, EOI
  <1>5. JpegWalk(b)[q + 1][scanned] = IF (q + 0) + 2 <= Len(b) THEN Passed(b, (q + 0) + 1, scanned) ELSE Refused
    BY <1>4, MarkerFound
  <1> QED
    BY <1>3, <1>5

\* What the walk makes of a part.
LEMMA PartWalked ==
  ASSUME NEW b, NEW o, NEW p, HasPart(b, o, p), NEW scanned \in BOOLEAN
  PROVE  JpegWalk(b)[o + 1][scanned] =
           IF o + Len(FilledJpegBytes(p)) <= Len(b)
           THEN Before(KeptBytes(p), JpegWalk(b)[(o + Len(FilledJpegBytes(p))) + 1][scanned \/ p.marker = SOS])
           ELSE Refused
  <1> DEFINE r == o + p.fill
             m == r + 1
             q == o + Len(FilledJpegBytes(p))
             w == JpegBytes(p)
             P == Len(p.payload)
             D == Len(p.data)
             l == Len(b)
             e == (q + 1) - D
             Follow(s) == JpegWalk(b)[q + 1][s]
             value == JpegWalk(b)[o + 1][scanned]
  <1>1. b \in Seq(Nat) /\ o \in Nat /\ p \in JpegParts /\ Marked(b, q)
    BY DEF HasPart
  <1>2. l \in Nat /\ r \in Nat /\ m \in Nat /\ m = r + 1 /\ q \in Nat /\ q = r + Len(w) /\ Len(w) \in Nat
    <2>1. p.fill \in Nat /\ Len(w) \in Nat /\ Len(FilledJpegBytes(p)) = p.fill + Len(w)
      BY PartFound
    <2>2. l \in Nat
      BY <1>1, LenProperties
    <2> HIDE DEF w, l
    <2> QED BY <2>1, <2>2, <1>1
  <1>3. P \in Nat /\ D \in Nat /\ Len(w) = IF HasPayload(p) THEN (P + 4) + D ELSE 2
    BY <1>1, PartBytes
  <1>4. q <= l => SubSeq(b, m, q) = w
    BY PartFound
  <1>5. /\ p.marker # EOI /\ p.marker \in 1 .. 254 /\ p.marker \notin RestartMarkers
        /\ p.marker # SOS => p.data = <<>>
    <2>1. /\ p.marker \in 1 .. 254 /\ p.marker \notin {SOI, EOI} \cup RestartMarkers
          /\ IF p.marker = SOS THEN ScanData(p.data) ELSE p.data = <<>>
      BY <1>1, PartTyped
    <2> HIDE DEF w, P, D, l, q, r, m, e, Follow, value
    <2> QED BY <2>1
  <1>6. value = IF r + 2 <= l THEN Passed(b, m, scanned) ELSE Refused
    BY PartFound, MarkerFound
  <1>7. r + 2 <= l => b[m + 1] = p.marker
    <2>1. MarkerAt(b, o, p.fill, p.marker)
      BY PartFound
    <2>2. r + 2 <= l => b[r + 2] = p.marker
      BY <2>1 DEF MarkerAt
    <2>3. m + 1 = r + 2
      <3> HIDE DEF r
      <3> QED BY <1>2
    <2> QED BY <2>2, <2>3
  <1>8. D = 0 \/ p.marker = SOS
    BY <1>5, EmptySeq
  <1> SUFFICES value = IF q <= l THEN Before(KeptBytes(p), Follow(scanned \/ p.marker = SOS)) ELSE Refused
    OBVIOUS
  <1>9. HasPayload(p) /\ r + 2 <= l =>
          /\ e \in Nat /\ e >= m + 4
          /\ Readable(b, m) <=> e <= l + 1
          /\ e <= l + 1 => SegmentEnd(b, m) = e
    <2>1. r + 2 <= l => (r + 1) + 1 <= l
      <3> HIDE DEF r
      <3> QED BY <1>2
    <2> QED BY <2>1, SegmentFound
  <1>10. p.marker = SOS /\ e <= l + 1 => DataEnd(b)[e] = IF q + 1 < l THEN q + 1 ELSE 0
    BY ScanFound
  <1>10a. Follow(TRUE) = JpegWalk(b)[q + 1][TRUE] /\ Follow(scanned) = JpegWalk(b)[q + 1][scanned]
    OBVIOUS
  <1>10b. e = (q + 1) - D
    OBVIOUS
  <1> HIDE DEF w, P, D, l, q, r, m, e, Follow, value
  <1>11. Refused = Before(KeptBytes(p), Refused)
    BY DEF Before
  <1>12. CASE ~(r + 2 <= l)
    <2>1. ~(q <= l)
      BY <1>2, <1>3, <1>12
    <2> QED BY <2>1, <1>6, <1>12
  <1>13. CASE r + 2 <= l /\ ~HasPayload(p)
    <2>1. p.marker = 1 /\ p.marker \in JPEG_STANDALONE /\ p.marker # SOS /\ p.marker \notin JPEG_REMOVED_MARKERS
      BY <1>5, <1>13 DEF HasPayload, JPEG_STANDALONE, SOS, JPEG_REMOVED_MARKERS
    <2>2. q = m + 1 /\ q <= l /\ m + 2 = q + 1
      BY <1>2, <1>3, <1>13
    <2>3. value = Before(SubSeq(b, m, m + 1), JpegWalk(b)[m + 2][scanned])
      BY <2>1, <1>5, <1>6, <1>7, <1>13 DEF Passed
    <2>4. KeptBytes(p) = SubSeq(b, m, m + 1)
      BY <2>1, <2>2, <1>4 DEF KeptBytes, w
    <2>5. (scanned \/ p.marker = SOS) = scanned
      BY <2>1
    <2>6. JpegWalk(b)[m + 2][scanned] = Follow(scanned)
      BY <2>2, <1>10a
    <2> QED BY <2>2, <2>3, <2>4, <2>5, <2>6
  <1>14. CASE r + 2 <= l /\ HasPayload(p) /\ ~(e <= l + 1)
    <2>1. value = Refused
      BY <1>5, <1>6, <1>7, <1>9, <1>14 DEF Passed, HasPayload
    <2>2. ~(q <= l)
      BY <1>2, <1>3, <1>10b, <1>14
    <2> QED BY <2>1, <2>2
  <1>15. CASE r + 2 <= l /\ HasPayload(p) /\ e <= l + 1 /\ p.marker # SOS
    <2>1. e = q + 1 /\ q <= l /\ e - 1 = q
      BY <1>2, <1>3, <1>8, <1>10b, <1>15
    <2>2. value = Before(KeptSegment(b, m), JpegWalk(b)[e][scanned])
      BY <1>5, <1>6, <1>7, <1>9, <1>15 DEF Passed, HasPayload
    <2>3. KeptSegment(b, m) = KeptBytes(p)
      BY <2>1, <1>4, <1>7, <1>9, <1>15 DEF KeptSegment, KeptBytes, w
    <2>4. (scanned \/ p.marker = SOS) = scanned
      BY <1>15
    <2>5. JpegWalk(b)[e][scanned] = Follow(scanned)
      BY <2>1, <1>10a
    <2> QED BY <2>1, <2>2, <2>3, <2>4, <2>5
  <1>16. CASE r + 2 <= l /\ HasPayload(p) /\ e <= l + 1 /\ p.marker = SOS
    <2>1. (scanned \/ p.marker = SOS) = TRUE
      BY <1>16
    <2>2. p.marker \notin JPEG_REMOVED_MARKERS
      BY <1>16 DEF SOS, JPEG_REMOVED_MARKERS
    <2>3. value = IF DataEnd(b)[e] = 0 THEN Refused
                  ELSE Before(KeptSegment(b, m) \o SubSeq(b, e, DataEnd(b)[e] - 1), JpegWalk(b)[DataEnd(b)[e]][TRUE])
      BY <1>5, <1>6, <1>7, <1>9, <1>16 DEF Passed, HasPayload
    <2>4. CASE q + 1 < l
      <3>1. DataEnd(b)[e] = q + 1 /\ q + 1 # 0 /\ (q + 1) - 1 = q
        BY <2>4, <1>2, <1>10, <1>16
      <3>2. value = Before(KeptSegment(b, m) \o SubSeq(b, e, q), JpegWalk(b)[q + 1][TRUE])
        BY <2>3, <3>1
      <3>3. KeptSegment(b, m) = SubSeq(b, m, e - 1)
        BY <2>2, <1>7, <1>9, <1>16 DEF KeptSegment
      <3>4. /\ e - 1 \in Nat /\ (e - 1) + 1 = e /\ m \in Nat /\ q \in Nat
            /\ 1 <= m /\ m <= (e - 1) + 1 /\ e - 1 <= q /\ q <= l
        BY <2>4, <1>2, <1>3, <1>9, <1>10b, <1>16
      <3>5. SubSeq(b, m, e - 1) \o SubSeq(b, (e - 1) + 1, q) = SubSeq(b, m, q)
        <4> DEFINE h == e - 1
        <4>1. /\ h \in Nat /\ m \in Nat /\ q \in Nat
              /\ 1 <= m /\ m <= h + 1 /\ h <= q /\ q <= Len(b)
          BY <3>4 DEF l
        <4>2. b \in Seq(Nat)
          BY <1>1
        <4> HIDE DEF h
        <4>3. SubSeq(b, m, h) \o SubSeq(b, h + 1, q) = SubSeq(b, m, q)
          BY <4>1, <4>2, Slices
        <4> QED BY <4>3 DEF h
      <3>6. KeptSegment(b, m) \o SubSeq(b, e, q) = KeptBytes(p)
        BY <2>2, <3>3, <3>4, <3>5, <1>4 DEF KeptBytes, w
      <3> QED BY <2>1, <3>2, <3>4, <3>6, <1>10a
    <2>5. CASE ~(q + 1 < l)
      <3>1. value = Refused
        BY <2>3, <2>5, <1>10, <1>16
      <3>2. CASE q <= l
        <4>1. q <= Len(b) /\ q + 2 > Len(b)
          BY <2>5, <3>2, <1>2 DEF l
        <4>2. Follow(TRUE) = Refused
          BY <4>1, <1>1, <1>2, <1>10a, NothingLeft
        <4> QED BY <2>1, <3>1, <3>2, <4>2, <1>11
      <3>3. CASE ~(q <= l)
        BY <3>1, <3>3
      <3> QED BY <3>2, <3>3
    <2> QED BY <2>4, <2>5
  <1> QED
    BY <1>12, <1>13, <1>14, <1>15, <1>16

\* A file that has two bytes at o, as far as it goes.
LEMMA PairIs ==
  ASSUME NEW b \in Seq(Nat), NEW o \in Nat, NEW x, NEW y, Holds(b, o, <<x, y>>)
  PROVE  (o + 1 <= Len(b) => b[o + 1] = x) /\ (o + 2 <= Len(b) => b[o + 2] = y)
  <1> DEFINE w == <<x, y>>
  <1>1. 1 \in 1 .. Len(w) /\ 2 \in 1 .. Len(w) /\ w[1] = x /\ w[2] = y
    OBVIOUS
  <1>2. \A j \in 1 .. Len(w) : o + j <= Len(b) => b[o + j] = w[j]
    BY DEF Holds
  <1> HIDE DEF w
  <1> QED
    BY <1>1, <1>2

\* The end of the image does not go on with the data of a scan, nor does a part.
LEMMA FootMarked ==
  ASSUME NEW b \in Seq(Nat), NEW o \in Nat, Holds(b, o, <<255, EOI>>)
  PROVE  Marked(b, o)
  <1>1. ~InData(EOI)
    BY DEF InData, EOI, RestartMarkers
  <1>2. (o + 1 <= Len(b) => b[o + 1] = 255) /\ (o + 2 <= Len(b) => b[o + 2] = EOI)
    BY PairIs
  <1> QED
    BY <1>1, <1>2 DEF Marked

\* Nor does a part: its first bytes are a 0xFF and one that is no data.
LEMMA PartMarked ==
  ASSUME NEW b \in Seq(Nat), NEW o \in Nat, NEW p \in JpegParts, Holds(b, o, FilledJpegBytes(p))
  PROVE  Marked(b, o)
  <1> DEFINE f == p.fill
             F == FilledJpegBytes(p)
             w == JpegBytes(p)
             W == Len(w)
  <1>1. p.marker \in 1 .. 254 /\ p.marker \notin RestartMarkers
    BY PartTyped
  <1>2. w[1] = 255 /\ w[2] = p.marker /\ W \in Nat /\ W >= 2
    <2> DEFINE P == Len(p.payload)
               D == Len(p.data)
    <2>1. w[1] = 255 /\ w[2] = p.marker /\ P \in Nat /\ D \in Nat /\ W = IF HasPayload(p) THEN (P + 4) + D ELSE 2
      BY PartBytes
    <2> HIDE DEF w, W, P, D
    <2> QED BY <2>1
  <1>3. /\ f \in Nat /\ Len(F) = f + W
        /\ \A j \in 1 .. f : F[j] = 255
        /\ \A j \in 1 .. W : F[f + j] = w[j]
    BY FilledBytes
  <1>4. \A j \in 1 .. Len(F) : o + j <= Len(b) => b[o + j] = F[j]
    BY DEF Holds
  <1> HIDE DEF f, F, w, W
  <1>5. ~InData(255) /\ ~InData(p.marker)
    <2>1. ~InData(255)
      BY DEF InData, RestartMarkers
    <2>2. p.marker # 0
      <3>1. \A x \in 1 .. 254 : x # 0
        OBVIOUS
      <3> QED BY <3>1, <1>1
    <2> QED BY <2>1, <2>2, <1>1 DEF InData
  <1>6. F[1] = 255 /\ ~InData(F[2])
    <2>1. CASE f = 0
      <3>1. 1 \in 1 .. W /\ 2 \in 1 .. W /\ f + 1 = 1 /\ f + 2 = 2
        BY <2>1, <1>2
      <3>2. F[f + 1] = w[1] /\ F[f + 2] = w[2]
        BY <3>1, <1>3
      <3> QED BY <3>1, <3>2, <1>2, <1>5
    <2>2. CASE f = 1
      <3>1. 1 \in 1 .. W /\ f + 1 = 2 /\ 1 \in 1 .. f
        BY <2>2, <1>2
      <3>2. F[f + 1] = w[1] /\ F[1] = 255
        BY <3>1, <1>3
      <3> QED BY <3>1, <3>2, <1>2, <1>5
    <2>3. CASE f > 1
      <3>1. 1 \in 1 .. f /\ 2 \in 1 .. f
        BY <2>3, <1>3
      <3> QED BY <3>1, <1>3, <1>5
    <2> QED BY <2>1, <2>2, <2>3, <1>3
  <1>7. 1 \in 1 .. Len(F) /\ 2 \in 1 .. Len(F)
    BY <1>2, <1>3
  <1> QED
    BY <1>4, <1>6, <1>7 DEF Marked

\* What the walk makes of the end of the image.
LEMMA FootWalked ==
  ASSUME NEW b \in Seq(Nat), NEW o \in Nat, o <= Len(b), Holds(b, o, <<255, EOI>>), NEW scanned \in BOOLEAN
  PROVE  JpegWalk(b)[o + 1][scanned] = IF scanned /\ o + 2 <= Len(b) THEN <<255, EOI>> ELSE Refused
  <1>1. (o + 1 <= Len(b) => b[o + 1] = 255) /\ (o + 2 <= Len(b) => b[o + 2] = EOI)
    BY PairIs
  <1>2. (o + 0) + 2 = o + 2 /\ (o + 0) + 1 = o + 1 /\ (o + 1) + 1 = o + 2
    OBVIOUS
  <1>3. MarkerAt(b, o, 0, EOI)
    <2>1. ASSUME NEW j \in 1 .. 0 + 1, o + j <= Len(b) PROVE b[o + j] = 255
      BY <2>1, <1>1
    <2>2. EOI # 255
      BY DEF EOI
    <2> QED BY <2>1, <2>2, <1>1, <1>2 DEF MarkerAt
  <1>4. JpegWalk(b)[o + 1][scanned] = IF o + 2 <= Len(b) THEN Passed(b, o + 1, scanned) ELSE Refused
    BY <1>2, <1>3, MarkerFound
  <1>5. CASE o + 2 <= Len(b)
    <2>1. Passed(b, o + 1, scanned) = IF scanned THEN SubSeq(b, o + 1, (o + 1) + 1) ELSE Refused
      BY <1>1, <1>2, <1>5 DEF Passed
    <2> DEFINE w == <<255, EOI>>
    <2>2. w \in Seq(Nat) /\ 2 = Len(w)
      BY DEF EOI
    <2>3. \A j \in 1 .. 2 : b[o + j] = w[j]
      <3>1. Len(b) \in Nat
        BY LenProperties
      <3>2. o + 1 <= Len(b)
        BY <3>1, <1>5
      <3> QED BY <3>2, <1>1, <1>5
    <2> HIDE DEF w
    <2>4. SubSeq(b, o + 1, o + 2) = w
      BY <2>2, <2>3, <1>5, SliceIs
    <2> QED BY <2>1, <2>4, <1>2, <1>4, <1>5 DEF w
  <1> QED
    BY <1>4, <1>5

\* An image of parts, or as much of it as there is, is copied without the parts that are removed,
\* the bytes between them, and what is after its end; not without a scan.
LEMMA JpegCopied ==
  ASSUME NEW parts \in Seq(JpegParts), NEW tail \in Seq(Nat), NEW l \in Nat, l <= Len(JpegFile(parts, tail))
  PROVE  /\ Len(JpegFile(parts, <<>>)) \in Nat
         /\ StripJpegMetadata(SubSeq(JpegFile(parts, tail), 1, l)) =
              IF l < Len(JpegFile(parts, <<>>)) THEN Refused ELSE JpegCopy(parts)
  <1> DEFINE n    == Len(parts)
             all  == [i \in DOMAIN parts |-> FilledJpegBytes(parts[i])]
             keep == [i \in DOMAIN parts |-> IF parts[i].marker \in JPEG_REMOVED_MARKERS
                                             THEN <<>> ELSE JpegBytes(parts[i])]
             head == <<255, SOI>>
             foot == <<255, EOI>>
             Scan(k) == \E j \in 1 .. k : parts[j].marker = SOS
             b    == SubSeq(JpegFile(parts, tail), 1, l)
  <1>1. n \in Nat /\ DOMAIN parts = 1 .. n /\ \A k \in 1 .. n : parts[k] \in JpegParts
    BY LenProperties, ElementOfSeq
  <1>2. ASSUME NEW k \in 1 .. n
        PROVE  /\ all[k] = FilledJpegBytes(parts[k]) /\ all[k] \in Seq(Nat)
               /\ keep[k] = KeptBytes(parts[k]) /\ keep[k] \in Seq(Nat)
    <2>1. parts[k] \in JpegParts
      BY <1>1
    <2>2. FilledJpegBytes(parts[k]) \in Seq(Nat)
      BY <2>1, FilledBytes
    <2>3. JpegBytes(parts[k]) \in Seq(Nat)
      BY <2>1, PartBytes
    <2>4. all[k] = FilledJpegBytes(parts[k]) /\ keep[k] = KeptBytes(parts[k])
      BY <1>1 DEF KeptBytes
    <2> HIDE DEF all, keep
    <2> QED BY <2>2, <2>3, <2>4, EmptySeq DEF KeptBytes
  <1>3. /\ all \in Seq(Seq(Nat)) /\ Len(all) = n
        /\ keep \in Seq(Seq(Nat)) /\ Len(keep) = n
    <2>1. all = [k \in 1 .. n |-> all[k]] /\ keep = [k \in 1 .. n |-> keep[k]]
      BY <1>1
    <2> HIDE DEF all, keep
    <2>2. all \in [1 .. n -> Seq(Nat)] /\ keep \in [1 .. n -> Seq(Nat)]
      BY <2>1, <1>2
    <2> QED BY <2>2, <1>1, FunctionIsSeq
  <1>4. head \in Seq(Nat) /\ Len(head) = 2 /\ foot \in Seq(Nat) /\ Len(foot) = 2
    BY DEF SOI, EOI
  <1>5. \A t : JpegFile(parts, t) = head \o FlattenSeq(all) \o foot \o t
    BY DEF JpegFile
  <1>6. JpegCopy(parts) = IF Scan(n) THEN (head \o FlattenSeq(keep)) \o foot ELSE Refused
    BY <1>1 DEF JpegCopy
  <1>7. /\ \A k : Scan(k) \in BOOLEAN
        /\ Scan(0) = FALSE
        /\ \A k \in 1 .. n : (Scan(k - 1) \/ parts[k].marker = SOS) = Scan(k)
    <2>1. ASSUME NEW k \in 1 .. n PROVE (Scan(k - 1) \/ parts[k].marker = SOS) <=> Scan(k)
      <3>1. \A j : j \in 1 .. k <=> j \in 1 .. k - 1 \/ j = k
        BY <1>1
      <3> QED BY <3>1
    <2>2. \A k : Scan(k) \in BOOLEAN
      OBVIOUS
    <2>3. ~Scan(0)
      OBVIOUS
    <2> HIDE DEF Scan
    <2>4. Scan(0) = FALSE
      BY <2>2, <2>3
    <2>5. \A k \in 1 .. n : (Scan(k - 1) \/ parts[k].marker = SOS) = Scan(k)
      BY <2>1, <2>2
    <2> QED BY <2>2, <2>4, <2>5
  <1>8. CutOff(b, head, all, foot, tail, l, Nat)
    <2>1. b = SubSeq(head \o FlattenSeq(all) \o foot \o tail, 1, l)
      BY <1>5
    <2>2. l <= Len(head \o FlattenSeq(all) \o foot \o tail)
      BY <1>5
    <2> HIDE DEF b, all, head, foot, keep
    <2> QED BY <2>1, <2>2, <1>3, <1>4 DEF CutOff
  <1>8a. foot = <<255, EOI>> /\ head = <<255, SOI>>
    OBVIOUS
  <1> HIDE DEF b, all, head, foot, keep, n, Scan
  <1>9. b \in Seq(Nat) /\ Len(b) = l /\ \E at : Lies(at, b, head, all, foot)
    BY <1>8, FileLayout
  <1>10. PICK at : Lies(at, b, head, all, foot)
    BY <1>9
  <1>11. /\ at \in [0 .. n -> Nat] /\ at[0] = 2
         /\ \A k \in 1 .. n : at[k] = at[k - 1] + Len(all[k]) /\ Holds(b, at[k - 1], all[k])
         /\ Holds(b, 0, head) /\ Holds(b, at[n], foot)
         /\ Len(head \o FlattenSeq(all) \o foot \o <<>>) = at[n] + 2
    BY <1>3, <1>4, <1>10 DEF Lies
  <1>12. ASSUME NEW k \in 0 .. n PROVE at[k] \in Nat /\ Marked(b, at[k])
    <2>1. at[k] \in Nat
      BY <1>11
    <2>2. CASE k = n
      BY <2>1, <2>2, <1>8a, <1>9, <1>11, FootMarked
    <2>3. CASE k # n
      <3>1. k + 1 \in 1 .. n /\ (k + 1) - 1 = k
        BY <2>3, <1>1
      <3>2. Holds(b, at[k], FilledJpegBytes(parts[k + 1])) /\ parts[k + 1] \in JpegParts
        BY <3>1, <1>1, <1>2, <1>11
      <3> QED BY <2>1, <3>2, <1>9, PartMarked
    <2> QED BY <2>1, <2>2, <2>3
  <1> DEFINE walk == [k \in 0 .. n |-> [i \in 1 .. l + 1 |-> JpegWalk(b)[i][Scan(k)]]]
  <1>13. JpegWalk(b) \in [1 .. l + 1 -> [BOOLEAN -> Seq(Nat)]]
    BY <1>9, JpegWalkStep
  <1>14. ASSUME NEW k \in 1 .. n, at[k - 1] <= l
         PROVE  JpegWalk(b)[at[k - 1] + 1][Scan(k - 1)] =
                  IF at[k] <= l THEN Before(keep[k], JpegWalk(b)[at[k] + 1][Scan(k)]) ELSE Refused
    <2> DEFINE o == at[k - 1]
               p == parts[k]
               m == Len(FilledJpegBytes(p))
    <2>1. k - 1 \in 0 .. n /\ k \in 0 .. n
      BY <1>1
    <2>2. o \in Nat /\ at[k] = o + Len(all[k]) /\ Holds(b, o, all[k]) /\ o <= l /\ Marked(b, at[k])
      BY <2>1, <1>11, <1>12, <1>14
    <2>3. all[k] = FilledJpegBytes(p) /\ keep[k] = KeptBytes(p) /\ p \in JpegParts
      BY <1>1, <1>2
    <2>4. at[k] = o + m /\ Holds(b, o, FilledJpegBytes(p)) /\ Marked(b, o + Len(FilledJpegBytes(p)))
      BY <2>2, <2>3
    <2>5. HasPart(b, o, p)
      BY <2>2, <2>3, <2>4, <1>9 DEF HasPart
    <2>6. Scan(k - 1) \in BOOLEAN /\ (Scan(k - 1) \/ p.marker = SOS) = Scan(k)
      BY <1>7
    <2> HIDE DEF o, m, p
    <2>7. JpegWalk(b)[o + 1][Scan(k - 1)] =
            IF o + Len(FilledJpegBytes(p)) <= Len(b)
            THEN Before(KeptBytes(p),
                        JpegWalk(b)[(o + Len(FilledJpegBytes(p))) + 1][Scan(k - 1) \/ p.marker = SOS])
            ELSE Refused
      BY <2>5, <2>6, PartWalked
    <2>8. JpegWalk(b)[o + 1][Scan(k - 1)] =
            IF at[k] <= l THEN Before(keep[k], JpegWalk(b)[at[k] + 1][Scan(k)]) ELSE Refused
      BY <2>3, <2>4, <2>6, <2>7, <1>9 DEF m
    <2> QED BY <2>8 DEF o
  <1>15. ASSUME at[n] <= l
         PROVE  JpegWalk(b)[at[n] + 1][Scan(n)] = IF Scan(n) /\ at[n] + Len(foot) <= l THEN foot ELSE Refused
    <2> DEFINE o == at[n]
    <2>1. o \in Nat /\ o <= Len(b) /\ Holds(b, o, <<255, EOI>>)
      <3>1. n \in 0 .. n
        BY <1>1
      <3> QED BY <3>1, <1>8a, <1>9, <1>11, <1>12, <1>15
    <2>2. Scan(n) \in BOOLEAN
      BY <1>7
    <2> HIDE DEF o
    <2>3. JpegWalk(b)[o + 1][Scan(n)] = IF Scan(n) /\ o + 2 <= Len(b) THEN <<255, EOI>> ELSE Refused
      BY <2>1, <2>2, <1>9, FootWalked
    <2> QED BY <2>3, <1>4, <1>8a, <1>9 DEF o
  <1>16. Walks(walk, at, all, foot, keep, Scan(n), b, Nat)
    <2>1. /\ walk \in [0 .. n -> [1 .. l + 1 -> Seq(Nat)]]
          /\ \A k \in 0 .. n : \A i \in 1 .. l + 1 : walk[k][i] = JpegWalk(b)[i][Scan(k)]
      BY <1>7, <1>13
    <2>2. n \in 0 .. n /\ \A k \in 1 .. n : k \in 0 .. n /\ k - 1 \in 0 .. n
      BY <1>1
    <2> HIDE DEF walk
    <2>3. \A k \in 0 .. n : at[k] <= l => at[k] + 1 \in 1 .. l + 1
      <3> SUFFICES ASSUME NEW k \in 0 .. n, at[k] <= l PROVE at[k] + 1 \in 1 .. l + 1
        OBVIOUS
      <3>1. at[k] \in Nat
        BY <1>12
      <3> QED BY <3>1
    <2>4. ASSUME NEW k \in 1 .. n, at[k - 1] <= l
          PROVE  walk[k - 1][at[k - 1] + 1] =
                   IF at[k] <= l THEN Before(keep[k], walk[k][at[k] + 1]) ELSE Refused
      <3>1. walk[k - 1][at[k - 1] + 1] = JpegWalk(b)[at[k - 1] + 1][Scan(k - 1)]
        BY <2>1, <2>2, <2>3, <2>4
      <3>2. at[k] <= l => walk[k][at[k] + 1] = JpegWalk(b)[at[k] + 1][Scan(k)]
        BY <2>1, <2>2, <2>3
      <3> QED BY <3>1, <3>2, <2>4, <1>14
    <2>5. at[n] <= l =>
            walk[n][at[n] + 1] = IF Scan(n) /\ at[n] + Len(foot) <= l THEN foot ELSE Refused
      BY <2>1, <2>2, <2>3, <1>15
    <2> QED BY <2>1, <2>4, <2>5, <1>3, <1>9 DEF Walks
  <1>17. Before(head, IF Len(head) <= Len(b) THEN walk[0][Len(head) + 1] ELSE Refused) =
           IF Scan(n) /\ Len(head \o FlattenSeq(all) \o foot \o <<>>) <= Len(b)
           THEN (head \o FlattenSeq(keep)) \o foot
           ELSE Refused
    <2>1. head \in Seq(Nat) /\ foot \in Seq(Nat) /\ Len(foot) > 0
      BY <1>4
    <2>2. all \in Seq(Seq(Nat)) /\ keep \in Seq(Seq(Nat)) /\ Len(keep) = Len(all) /\ b \in Seq(Nat)
      BY <1>3, <1>9
    <2> HIDE DEF walk
    <2> QED BY <2>1, <2>2, <1>10, <1>16, Copying
  <1>18. StripJpegMetadata(b) =
           Before(head, IF Len(head) <= Len(b) THEN walk[0][Len(head) + 1] ELSE Refused)
    <2>1. 2 <= l => walk[0][3] = JpegWalk(b)[3][FALSE]
      <3>1. 0 \in 0 .. n /\ (2 <= l => 3 \in 1 .. l + 1)
        BY <1>1
      <3>2. 2 <= l => walk[0][3] = JpegWalk(b)[3][Scan(0)]
        BY <3>1
      <3> HIDE DEF walk
      <3> QED BY <3>2, <1>7
    <2> HIDE DEF walk
    <2>2. Len(head) = 2 /\ Len(b) = l /\ 2 + 1 = 3
      BY <1>4, <1>9
    <2>3. CASE l < 2
      <3>1. Len(b) < 4 /\ ~(Len(head) <= Len(b))
        BY <2>2, <2>3
      <3>2. StripJpegMetadata(b) = Refused
        BY <3>1 DEF StripJpegMetadata
      <3> QED BY <3>1, <3>2 DEF Before
    <2>4. CASE 2 <= l /\ l < 4
      <3>1. 2 <= Len(b) /\ 2 + 2 > Len(b)
        BY <2>2, <2>4
      <3>2. Marked(b, 2)
        <4>1. 0 \in 0 .. n
          BY <1>1
        <4>2. Marked(b, at[0])
          BY <4>1, <1>12
        <4> QED BY <4>2, <1>11
      <3>3. JpegWalk(b)[2 + 1][FALSE] = Refused
        BY <3>1, <3>2, <1>9, NothingLeft
      <3> QED BY <2>1, <2>2, <2>4, <3>3 DEF StripJpegMetadata, Before
    <2>5. CASE 4 <= l
      <3>1. b[1] = 255 /\ b[2] = SOI
        <4>1. Holds(b, 0, <<255, SOI>>)
          BY <1>8a, <1>11
        <4>2. (0 + 1 <= Len(b) => b[0 + 1] = 255) /\ (0 + 2 <= Len(b) => b[0 + 2] = SOI)
          BY <4>1, <1>9, PairIs
        <4> QED BY <4>2, <2>2, <2>5
      <3>2. ~(Len(b) < 4) /\ Len(head) <= Len(b) /\ 2 <= l
        BY <2>2, <2>5
      <3>3. StripJpegMetadata(b) = Before(head, JpegWalk(b)[3][FALSE])
        BY <3>1, <3>2, <1>8a DEF StripJpegMetadata
      <3> QED BY <2>1, <2>2, <3>2, <3>3
    <2> QED BY <2>3, <2>4, <2>5
  <1>19. Len(JpegFile(parts, <<>>)) = at[n] + 2
    BY <1>5, <1>11
  <1>20. at[n] + 2 \in Nat /\ (at[n] + 2 <= l <=> ~(l < at[n] + 2))
    <2>1. n \in 0 .. n
      BY <1>1
    <2>2. at[n] \in Nat
      BY <2>1, <1>11
    <2> QED BY <2>2
  <1>21. StripJpegMetadata(b) = IF at[n] + 2 <= l THEN JpegCopy(parts) ELSE Refused
    BY <1>6, <1>9, <1>11, <1>17, <1>18
  <1> QED
    BY <1>19, <1>20, <1>21 DEF b

-----------------------------------------------------------------------------
(***************************************************************************)
(* The copy of an image, in the system                                     *)
(***************************************************************************)

\* Of each of the images there is the copy that CopyIsExact names.
LEMMA JpegExact ==
  ASSUME NEW i \in Jpegs
  PROVE  LET n == Len(JpegFile(i.parts, <<>>))
         IN  /\ i.type = "JPEG" /\ (i.length < n \/ i.length >= n) /\ ~(i.length < n /\ i.length >= n)
             /\ Stripped(i) = IF i.length < n THEN Refused ELSE JpegCopy(i.parts)
  <1> DEFINE p == i.parts
             t == i.tail
             l == i.length
             n == Len(JpegFile(p, <<>>))
  <1>1. /\ i.type = "JPEG" /\ p \in Seq(JpegParts) /\ t \in Seq(Bytes)
        /\ l \in 0 .. Len(JpegFile(p, t))
    BY ImagesAssumption
  <1>2. t \in Seq(Nat) /\ l \in Nat /\ l <= Len(JpegFile(p, t))
    <2>1. t \in Seq(Nat)
      BY <1>1, BytesAreNumbers
    <2> QED BY <2>1, <1>1
  <1>3. n \in Nat /\ StripJpegMetadata(SubSeq(JpegFile(p, t), 1, l)) = IF l < n THEN Refused ELSE JpegCopy(p)
    <2> HIDE DEF p, t, l
    <2> QED BY <1>1, <1>2, JpegCopied
  <1>4. Stripped(i) = StripJpegMetadata(SubSeq(JpegFile(p, t), 1, l))
    BY <1>1 DEF Stripped, File, Cut
  <1>5. (l < n \/ l >= n) /\ ~(l < n /\ l >= n)
    <2> HIDE DEF l, n
    <2> QED BY <1>2, <1>3
  <1> QED
    BY <1>1, <1>3, <1>4, <1>5

LEMMA PngExact ==
  ASSUME NEW i \in Pngs
  PROVE  LET n == Len(PngFile(i.parts, <<>>))
         IN  /\ i.type = "PNG" /\ (i.length < n \/ i.length >= n) /\ ~(i.length < n /\ i.length >= n)
             /\ Stripped(i) = IF i.length < n THEN Refused ELSE PngCopy(i.parts)
  <1> DEFINE p == i.parts
             t == i.tail
             l == i.length
             n == Len(PngFile(p, <<>>))
  <1>1. /\ i.type = "PNG" /\ p \in Seq(PngParts) /\ t \in Seq(Nat)
        /\ l \in 0 .. Len(PngFile(p, t))
    BY ImagesAssumption
  <1>2. l \in Nat /\ l <= Len(PngFile(p, t))
    BY <1>1
  <1>3. n \in Nat /\ StripPngMetadata(SubSeq(PngFile(p, t), 1, l)) = IF l < n THEN Refused ELSE PngCopy(p)
    <2> HIDE DEF p, t, l
    <2> QED BY <1>1, <1>2, PngCopied
  <1>4. Stripped(i) = StripPngMetadata(SubSeq(PngFile(p, t), 1, l))
    BY <1>1 DEF Stripped, File, Cut
  <1>5. (l < n \/ l >= n) /\ ~(l < n /\ l >= n)
    <2> HIDE DEF l, n
    <2> QED BY <1>2, <1>3
  <1> QED
    BY <1>1, <1>3, <1>4, <1>5

\* No other step makes a copy.
LEMMA CopyNext == CopyIsExact /\ [Next]_vars => CopyIsExact'
  <1> SUFFICES ASSUME CopyIsExact, [Next]_vars PROVE CopyIsExact'
    OBVIOUS
  <1>1. ASSUME NEW i \in Jpegs, image' = i, copy' = Stripped(i) PROVE CopyIsExact'
    BY <1>1, JpegExact DEF CopyIsExact
  <1>2. ASSUME NEW i \in Pngs, image' = i, copy' = Stripped(i) PROVE CopyIsExact'
    BY <1>2, PngExact DEF CopyIsExact
  <1>3. CASE Sanitize
    BY <1>1, <1>2, <1>3 DEF Sanitize
  <1>4. CASE UNCHANGED <<image, copy>>
    BY <1>4 DEF CopyIsExact
  <1>5. CASE Receive \/ Events \/ \E text \in Answers : Answer(text)
    BY <1>4, <1>5 DEF Receive, Events, Connect, Data, End, Reset, Close, Timeout, Answer, rest
  <1> QED
    BY <1>3, <1>4, <1>5 DEF Next, vars

\* stripJpegMetadata() and stripPngMetadata() copy any image of the parts a camera or an editor
\* writes, in any number and order and of any size, with what follows its end left out: byte for
\* byte but for the metadata, and they refuse one that is cut wherever the cut is.
THEOREM CopyExact == Spec => []CopyIsExact
  <1>1. Init => CopyIsExact
    BY DEF Init, CopyIsExact
  <1> QED
    BY <1>1, CopyNext, PTL DEF Spec
=============================================================================
