-------------------------- MODULE MCFileTreatment --------------------------
(***************************************************************************)
(* Images for FileTreatment: up to three parts (two of a PNG), cut at any  *)
(* place, with payloads that look like markers and chunk types; and names  *)
(* of threats, one of which begins as the answer to a clean file.          *)
(***************************************************************************)
EXTENDS FileTreatment

Segments == {JpegPart(fill, marker, payload, <<>>) :
               fill \in {0, 1}, marker \in {225, APP0}, payload \in {<<>>, <<255, EOI>>}}
Scans    == {JpegPart(fill, SOS, <<>>, data) :
               fill \in {0, 1}, data \in {<<>>, <<65>>, <<255, 0>>, <<255, 208, 65>>}}
Alone    == {JpegPart(0, 1, <<>>, <<>>)}
Texts    == {PngPart(type, payload) :
               type \in {IHDR, IDAT, TEXT, EXIF}, payload \in {<<>>, <<TEXT>>, <<0, IEND>>}}

NamesToMatch == {<<"N">>, <<"O", "K">>, <<"O", "K", "N">>}

UpTo(n, S) == UNION {[1 .. k -> S] : k \in 0 .. n}

\* Whole with something after the end, or cut.
Cuts(type, parts, tail, file) ==
  {[type |-> type, parts |-> parts, tail |-> tail, length |-> n] : n \in 0 .. Len(file)}

JpegImages == UNION {Cuts("JPEG", parts, <<255, 225>>, JpegFile(parts, <<255, 225>>)) :
                       parts \in UpTo(2, Segments \cup Scans \cup Alone) \cup
                                 {<<p, q, r>> : p \in Scans, q \in Segments, r \in Scans}}
PngImages  == UNION {Cuts("PNG", parts, <<TEXT>>, PngFile(parts, <<TEXT>>)) :
                       parts \in UpTo(2, Texts)}
=============================================================================
