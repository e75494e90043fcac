SPECIFICATION ReadersSpec
CONSTANTS
  EOCD = 2
  EOCD64_LOCATOR = 2
  EOCD64 = 3
  CENTRAL_FILE_HEADER = 2
  INITIAL_TAIL_BYTES = 7
  MAX_TAIL_BYTES = 12
  MAX_COMMENT = 5
  U16 = 4
  U32 = 3
  Archives <- MCArchives
  jpg1 = jpg1
  jpg2 = jpg2
  png = png
  txt = txt
  Jpegs <- MCJpegs
  PICKS = 3
INVARIANTS
  IndexIsExact
  ZipInv
  VerifiedIsWhole
CHECK_DEADLOCK FALSE
