--------------------------- MODULE FileTreatment ---------------------------
(***************************************************************************)
(* What the worker does with the bytes of a document.  The scan() of       *)
(* ClamAvProvider (clamav.ts) streams them to clamd over TCP and takes a   *)
(* verdict from the events of its socket; an image found clean is          *)
(* rewritten without metadata (ImageMetadata) and stored                   *)
(* (scan-document.ts).                                                     *)
(*                                                                         *)
(* clamd and the network are external: it answers OK or FOUND only to a    *)
(* file it received whole, may answer anything else or die at any time,    *)
(* and an answer may come in pieces, late or never.                        *)
(***************************************************************************)
EXTENDS ImageMetadata, FiniteSets

CONSTANTS
  Chunks,     \* how many chunks of CHUNK_BYTES the file has
  MaxReply,   \* MAX_REPLY_BYTES
  Signature,  \* the letters of SIGNATURE
  Names,      \* what clamd calls the threats it knows, letter by letter
  Jpegs,      \* images: their parts, what follows their end, and how much of them there is
  Pngs,
  None

\* Every answer of clamd ends in one.
NUL == "nul"

ASSUME TreatmentAssumption ==
  /\ Chunks \in Nat /\ MaxReply \in Nat
  /\ NUL \notin Signature
  /\ \A name \in Names : name \in Seq(Signature) /\ name # <<>>

\* Images have the parts that a camera or an editor writes, and are as long as they are or cut.
ASSUME ImagesAssumption ==
  /\ \A i \in Jpegs : /\ i.type = "JPEG" /\ i.parts \in Seq(JpegParts) /\ i.tail \in Seq(Bytes)
                      /\ i.length \in 0 .. Len(JpegFile(i.parts, i.tail))
  /\ \A i \in Pngs  : /\ i.type = "PNG" /\ i.parts \in Seq(PngParts) /\ i.tail \in Seq(Nat)
                      /\ i.length \in 0 .. Len(PngFile(i.parts, i.tail))

VARIABLES
  threat,    \* clamd would find a threat in the file
  socket,    \* the connection: "connecting", "open", "ended", "destroyed" or "closed"
  streamed,  \* how many chunks clamd has received, the one that ends the stream included
  answer,    \* the whole answer of clamd, which then closes the connection; none yet: <<>>
  wire,      \* what of it is on its way
  chunks,    \* what of it the client has received
  timer,     \* the client's timer is set
  verdict,   \* the outcome of scan(): "pending" until it is settled
  image,     \* the image that was rewritten
  copy       \* what was made of it

vars == <<threat, socket, streamed, answer, wire, chunks, timer, verdict, image, copy>>

clamdVars == <<threat, streamed, answer>>
rest  == <<image, copy>>

-----------------------------------------------------------------------------
\* The answers, a few letters for their words: "stream: OK", "stream: <name> FOUND", an error,
\* and two answers for one.
OK          == <<"O", "K">>
Found(name) == name \o <<"F", "D">>
Error       == <<"E", "R">>

Terminated(text) == text \o <<NUL>>
Detections       == {Terminated(Found(name)) : name \in Names}
Approvals        == {Terminated(OK), Terminated(OK) \o Terminated(OK)}
Answers          == Approvals \cup Detections \cup {Terminated(Error)}
Letters          == Signature \cup {"O", "K", "F", "D", "E", "R", NUL}

\* The terminator may be there or not.
Line(reply) == IF reply # <<>> /\ reply[Len(reply)] = NUL THEN SubSeq(reply, 1, Len(reply) - 1) ELSE reply

\* Mutant of ParseClamdReply: whatever is no detection is clean.
CleanByDefault(reply) == IF \E name \in Names : Line(reply) = Found(name) THEN "infected" ELSE "clean"

\* Only an exact answer is a verdict.
ParseClamdReply(reply) ==
  CASE Line(reply) = OK                               -> "clean"
    [] \E name \in Names : Line(reply) = Found(name) -> "infected"
    [] OTHER                                          -> "error"

Init ==
  /\ threat \in BOOLEAN
  /\ socket = "connecting"
  /\ streamed = 0
  /\ answer = <<>>
  /\ wire = <<>>
  /\ chunks = <<>>
  /\ timer = TRUE
  /\ verdict = "pending"
  /\ image = None
  /\ copy = None

-----------------------------------------------------------------------------
(***************************************************************************)
(* clamd (external)                                                        *)
(***************************************************************************)

Receive ==
  /\ socket = "open"
  /\ answer = <<>>
  /\ streamed <= Chunks
  /\ streamed' = streamed + 1
  /\ UNCHANGED <<threat, socket, answer, wire, chunks, timer, verdict, rest>>

\* It answers, and closes; the answer may be cut anywhere by its death.
Answer(text) ==
  /\ socket = "open"
  /\ answer = <<>>
  /\ text \in Approvals => streamed > Chunks /\ ~threat
  /\ text \in Detections => streamed > Chunks /\ threat
  /\ answer' = text
  /\ \E n \in 0 .. Len(text) : wire' = SubSeq(text, 1, n)
  /\ UNCHANGED <<threat, socket, streamed, chunks, timer, verdict, rest>>

-----------------------------------------------------------------------------
(***************************************************************************)
(* The client: one action per event of its socket, and its timer           *)
(***************************************************************************)

Settle(outcome) == verdict' = IF verdict = "pending" THEN outcome ELSE verdict

\* fail() destroys the socket the first time: no more than its close is left.
FailedSocket == IF verdict = "pending" THEN "destroyed" ELSE socket

\* "connect": the whole stream is written, and ended.
Connect ==
  /\ socket = "connecting"
  /\ socket' = "open"
  /\ UNCHANGED <<clamdVars, wire, chunks, timer, verdict, rest>>

\* Mutant of TimerAfterData: the first piece of an answer stops the timer.
TimerStopped == FALSE

TimerAfterData == timer

\* "data"
Data ==
  /\ socket = "open"
  /\ \E n \in 1 .. Len(wire) :
       /\ wire' = SubSeq(wire, n + 1, Len(wire))
       /\ IF Len(chunks) + n > MaxReply
          THEN Settle("error") /\ socket' = FailedSocket /\ chunks' = chunks
          ELSE chunks' = chunks \o SubSeq(wire, 1, n) /\ UNCHANGED <<verdict, socket>>
  /\ timer' = TimerAfterData
  /\ UNCHANGED <<clamdVars, rest>>

\* "end": clamd has closed its side and nothing of its answer is left.
End ==
  /\ socket = "open"
  /\ answer # <<>>
  /\ wire = <<>>
  /\ Settle(ParseClamdReply(chunks))
  /\ socket' = "ended"
  /\ timer' = FALSE
  /\ UNCHANGED <<clamdVars, wire, chunks, rest>>

\* "error": no connection, or it is reset; what was on its way is lost.
Reset ==
  /\ socket \in {"connecting", "open", "ended"}
  /\ Settle("error")
  /\ socket' = "destroyed"
  /\ wire' = <<>>
  /\ UNCHANGED <<clamdVars, chunks, timer, rest>>

\* "close", after the end or the destruction of the socket
Close ==
  /\ socket \in {"ended", "destroyed"}
  /\ Settle("error")
  /\ socket' = "closed"
  /\ timer' = FALSE
  /\ UNCHANGED <<clamdVars, wire, chunks, rest>>

\* The time of the whole scan is over.
Timeout ==
  /\ timer
  /\ Settle("error")
  /\ socket' = FailedSocket
  /\ timer' = FALSE
  /\ UNCHANGED <<clamdVars, wire, chunks, rest>>

-----------------------------------------------------------------------------
(***************************************************************************)
(* The copy without metadata                                               *)
(***************************************************************************)

\* As much of the file as there is.
Cut(bytes, i) == SubSeq(bytes, 1, i.length)
File(i) == IF i.type = "JPEG" THEN Cut(JpegFile(i.parts, i.tail), i) ELSE Cut(PngFile(i.parts, i.tail), i)
Stripped(i) == IF i.type = "JPEG" THEN StripJpegMetadata(File(i)) ELSE StripPngMetadata(File(i))

\* storeSanitizedCopy() once the verdict is clean; a copy that is refused is an error of the treatment.
Sanitize ==
  /\ verdict = "clean"
  /\ image = None
  /\ \/ \E i \in Jpegs : image' = i /\ copy' = Stripped(i)
     \/ \E i \in Pngs : image' = i /\ copy' = Stripped(i)
  /\ UNCHANGED <<clamdVars, socket, wire, chunks, timer, verdict>>

-----------------------------------------------------------------------------
Events == Connect \/ Data \/ End \/ Reset \/ Close \/ Timeout

Next ==
  \/ Receive
  \/ \E text \in Answers : Answer(text)
  \/ Events
  \/ Sanitize

Spec == Init /\ [][Next]_vars

\* Node fires a timer that is due; nothing is assumed of clamd or of the network.
FairSpec == Spec /\ WF_vars(Timeout)

-----------------------------------------------------------------------------
TypeOK ==
  /\ threat \in BOOLEAN /\ timer \in BOOLEAN
  /\ socket \in {"connecting", "open", "ended", "destroyed", "closed"}
  /\ streamed \in 0 .. Chunks + 1
  /\ answer \in Answers \cup {<<>>}
  /\ wire \in Seq(Letters) /\ chunks \in Seq(Letters) /\ Len(chunks) <= MaxReply
  /\ verdict \in {"pending", "clean", "infected", "error"}

(***************************************************************************)
(* A verdict comes of an answer about the whole file, in whatever pieces   *)
(* it arrives and wherever it is cut: a failure, an error, an answer too   *)
(* long or missing is none, a file without a threat is never infected, and *)
(* one with a threat is clean in one case only: the answer names a threat  *)
(* whose name begins with OK and is cut right after these letters, where   *)
(* parseClamdReply() does not ask for the terminator (clamav.ts:24),       *)
(* although "truncated [...] text" should never be a verdict (:19-21).     *)
(***************************************************************************)
VerdictIsAboutTheFile ==
  /\ verdict \in {"clean", "infected"} => streamed = Chunks + 1
  /\ verdict = "infected" => threat
  /\ verdict = "clean" /\ threat =>
       chunks = OK /\ \E name \in Names : Len(name) >= 2 /\ SubSeq(name, 1, 2) = OK

\* Every scan ends, even if clamd never answers, or never stops answering.
ScanEnds == verdict = "pending" ~> verdict # "pending"

(***************************************************************************)
(* The copy of an image has all its parts but the metadata, in their order *)
(* and byte for byte, whatever lies inside, between and after them; of an  *)
(* image that is cut there is none (stripJpegMetadata(),                   *)
(* stripPngMetadata()).                                                    *)
(***************************************************************************)
CopyIsExact ==
  image # None =>
    LET whole == IF image.type = "JPEG" THEN JpegFile(image.parts, <<>>) ELSE PngFile(image.parts, <<>>)
    IN copy = CASE image.length < Len(whole) -> Refused
                [] image.length >= Len(whole) /\ image.type = "JPEG" -> JpegCopy(image.parts)
                [] OTHER -> PngCopy(image.parts)

=============================================================================
