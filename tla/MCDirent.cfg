SPECIFICATION Spec
CONSTANTS
  MAX_OPEN_DIRS = 2
  DIRENT_BUF_SIZE = 4
  Names <- MCNames
  RecLen <- MCRecLen
  Content <- MCContent
  Inside = Inside
  Files <- MCFiles
INVARIANTS ListsInOrder EndMeansAll DescriptorOwnership RecordStaysInPlace
