SPECIFICATION FairSpec
CONSTANTS
  Chunks = 2
  MaxReply = 5
  Signature = {"N", "O", "K"}
  Names <- NamesToMatch
  Jpegs <- JpegImages
  Pngs <- PngImages
  None = None
INVARIANTS VerdictIsAboutTheFile CopyIsExact
PROPERTY ScanEnds
CHECK_DEADLOCK FALSE
