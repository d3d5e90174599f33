SPECIFICATION Spec
CONSTANTS
  Arguments <- MCArguments
  Creations <- MCCreations
  Likes <- MCLikes
  Subscripts <- MCSubscripts
  Bits <- MCBits
  CountBits = 3
  MaxBytes = 64
  MaxFrame = 2
  MaxBlocks = 5
  MaxObjects = 5
INVARIANTS
  TypeOK
  ElementsExact
  FilledAsAsked
