SPECIFICATION Spec
CONSTANTS
  Half = 4
  S = 2
  Words <- MCWords
  CallSeq <- MCCallSeq
  Services <- MCServices
  Single <- MCSingle
  Endpoints <- MCEndpoints
  RawActions <- MCRawActions
  Variants <- MCVariants
  ClientVariants <- MCClientVariants
  Errors <- MCErrors
  Bufs <- MCBufs
  MsgLens = {0, 2}
  BlobLens = {0, 3}
  Partial = {0}
INVARIANT NumbersUnchanged
