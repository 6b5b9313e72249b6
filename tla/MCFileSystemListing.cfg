CONSTANTS
  FS_BLOCK_SIZE = 2
  MAX_FILENAME_LENGTH = 2
  MAX_FILE_DENTRIES = 4
  DENTRY <- MCDentry
  NUM_DENTRIES = 3
  INODE <- MCInode
  NUM_DATABLOCKS = 4
  Queries <- MCQueries
  Readers <- MCReaders
  CHUNK = 3
  LsExclusive = FALSE
  MayKill = TRUE
SPECIFICATION Spec
INVARIANT ListingComplete
