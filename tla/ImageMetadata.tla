--------------------------- MODULE ImageMetadata ---------------------------
(***************************************************************************)
(* image-metadata.ts: the copy of an image without identifying metadata.   *)
(* The walks of the code, on the bytes of a JPEG and on the 4-byte words   *)
(* of a PNG, and beside them what an image is made of and what its copy    *)
(* has to be.                                                              *)
(***************************************************************************)
EXTENDS Naturals, Sequences, SequencesExt

\* MetadataSanitizationError
Refused == <<>>

Before(kept, rest) == IF rest = Refused THEN Refused ELSE kept \o rest

-----------------------------------------------------------------------------
(***************************************************************************)
(* JPEG                                                                    *)
(***************************************************************************)
Bytes == 0 .. 255

SOI == 216
EOI == 217
SOS == 218
APP0 == 224
JPEG_REMOVED_MARKERS == {225, 237, 254}
RestartMarkers == 208 .. 215
JPEG_STANDALONE == {1} \cup RestartMarkers

\* Mutant of InData: the restart markers end the data of a scan.
InDataUnlessRestart(next) == next = 0

\* After an 0xFF in the data of a scan: a stuffed byte or a restart marker.
InData(next) == next = 0 \/ next \in RestartMarkers

\* Where the last of the 0xFF from i on is.
Filled(b) ==
  LET Until[i \in 1 .. Len(b)] == IF i < Len(b) /\ b[i + 1] = 255 THEN Until[i + 1] ELSE i
  IN  Until

\* Where the data of a scan that starts at i ends, 0 when it does not.
DataEnd(b) ==
  LET End[i \in 1 .. Len(b) + 1] ==
        IF i >= Len(b) THEN 0
        ELSE IF b[i] # 255 THEN End[i + 1]
        ELSE IF InData(b[i + 1]) THEN End[i + 2]
        ELSE i
  IN  End

\* The segment whose marker is at m: where it ends, and whether the file has it whole.
SegmentEnd(b, m) == m + 2 + b[m + 2] * 256 + b[m + 3]
Readable(b, m) ==
  m + 3 <= Len(b) /\ b[m + 2] * 256 + b[m + 3] >= 2 /\ SegmentEnd(b, m) - 1 <= Len(b)

KeptSegment(b, m) ==
  IF b[m + 1] \in JPEG_REMOVED_MARKERS THEN <<>> ELSE SubSeq(b, m, SegmentEnd(b, m) - 1)

\* The walk from a marker on, after a scan or before the first.
JpegWalk(b) ==
  LET Walk[i \in 1 .. Len(b) + 1] == [scanned \in BOOLEAN |->
        IF i > Len(b) \/ b[i] # 255 \/ Filled(b)[i] = Len(b) THEN Refused
        ELSE
        LET m      == Filled(b)[i]
            marker == b[m + 1]
            end    == SegmentEnd(b, m)
            after  == DataEnd(b)[end]
        IN IF marker = EOI THEN IF scanned THEN SubSeq(b, m, m + 1) ELSE Refused
           ELSE IF marker \in JPEG_STANDALONE THEN Before(SubSeq(b, m, m + 1), Walk[m + 2][scanned])
           ELSE IF ~Readable(b, m) THEN Refused
           ELSE IF marker # SOS THEN Before(KeptSegment(b, m), Walk[end][scanned])
           ELSE IF after = 0 THEN Refused
           ELSE Before(KeptSegment(b, m) \o SubSeq(b, end, after - 1), Walk[after][TRUE])]
  IN  Walk

StripJpegMetadata(b) ==
  IF Len(b) < 4 \/ b[1] # 255 \/ b[2] # SOI THEN Refused
  ELSE Before(<<255, SOI>>, JpegWalk(b)[3][FALSE])

\* A segment, a marker alone, or a scan with its data, after some fill bytes.
JpegPart(fill, marker, payload, data) ==
  [fill |-> fill, marker |-> marker, payload |-> payload, data |-> data]

JpegBytes(p) ==
  <<255, p.marker>> \o (IF p.marker \in JPEG_STANDALONE THEN <<>>
                        ELSE <<(Len(p.payload) + 2) \div 256, (Len(p.payload) + 2) % 256>>
                               \o p.payload \o p.data)
FilledJpegBytes(p) == [i \in 1 .. p.fill |-> 255] \o JpegBytes(p)

JpegFile(parts, tail) ==
  <<255, SOI>> \o FlattenSeq([i \in DOMAIN parts |-> FilledJpegBytes(parts[i])])
               \o <<255, EOI>> \o tail

\* The parts an image may have, as a camera or an editor writes them: in the data of a scan a 0xFF
\* is stuffed or begins a restart marker, and no segment has the marker of either.
ScanData(data) ==
  \A i \in DOMAIN data : data[i] = 255 => i < Len(data) /\ data[i + 1] \in {0} \cup RestartMarkers

JpegParts ==
  {p \in [fill: Nat, marker: 1 .. 254, payload: Seq(Bytes), data: Seq(Bytes)] :
     /\ p.marker \notin {SOI, EOI} \cup RestartMarkers
     /\ Len(p.payload) + 2 < 65536
     /\ IF p.marker = SOS THEN ScanData(p.data) ELSE p.data = <<>>}

\* The copy a JPEG must get: its parts but the metadata, and nothing between or after them.
JpegCopy(parts) ==
  IF \E i \in DOMAIN parts : parts[i].marker = SOS
  THEN <<255, SOI>>
         \o FlattenSeq([i \in DOMAIN parts |-> IF parts[i].marker \in JPEG_REMOVED_MARKERS
                                               THEN <<>> ELSE JpegBytes(parts[i])])
         \o <<255, EOI>>
  ELSE Refused

-----------------------------------------------------------------------------
(***************************************************************************)
(* PNG: a chunk is a length, a type, as many words of data, and a CRC.     *)
(* The words that are letters are large numbers, as they are in a file.    *)
(***************************************************************************)
IHDR == 1000
IDAT == 1001
IEND == 1002
TEXT == 1003
EXIF == 1004
ZTXT == 1005
ITXT == 1006
PNG_CHUNKS    == IHDR .. ITXT
PNG_SIGNATURE == <<2000, 2001>>
PNG_REMOVED_CHUNKS == {EXIF, TEXT, ZTXT, ITXT}
CRC == 7

ChunkEnd(b, i) == i + 3 + b[i]

KeptChunk(b, i) ==
  IF b[i + 1] \in PNG_REMOVED_CHUNKS THEN <<>> ELSE SubSeq(b, i, ChunkEnd(b, i) - 1)

PngWalk(b) ==
  LET Walk[i \in 1 .. Len(b) + 1] ==
        IF i + 2 > Len(b) \/ b[i + 1] \notin PNG_CHUNKS \/ ChunkEnd(b, i) - 1 > Len(b) THEN Refused
        ELSE IF b[i + 1] = IEND THEN KeptChunk(b, i)
        ELSE Before(KeptChunk(b, i), Walk[ChunkEnd(b, i)])
  IN  Walk

StripPngMetadata(b) ==
  IF Len(b) < 2 \/ SubSeq(b, 1, 2) # PNG_SIGNATURE THEN Refused
  ELSE Before(PNG_SIGNATURE, PngWalk(b)[3])

PngPart(type, payload) == [type |-> type, payload |-> payload]
PngWords(p) == <<Len(p.payload), p.type>> \o p.payload \o <<CRC>>
PngEncoded(parts) ==
  PNG_SIGNATURE \o FlattenSeq([i \in DOMAIN parts |-> PngWords(parts[i])])
                \o PngWords(PngPart(IEND, <<>>))
PngFile(parts, tail) == PngEncoded(parts) \o tail

PngParts == [type: PNG_CHUNKS \ {IEND}, payload: Seq(Nat)]

\* The copy a PNG must get.
PngCopy(parts) ==
  PNG_SIGNATURE
    \o FlattenSeq([i \in DOMAIN parts |-> IF parts[i].type \in PNG_REMOVED_CHUNKS
                                          THEN <<>> ELSE PngWords(parts[i])])
    \o PngWords(PngPart(IEND, <<>>))

=============================================================================
