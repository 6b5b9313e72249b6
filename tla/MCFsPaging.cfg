CONSTANTS
  FS_BLOCK_SIZE = 2
  MAX_FILENAME_LENGTH = 2
  MAX_FILE_DENTRIES = 4
  DENTRY <- MCDentry
  NUM_DENTRIES = 3
  INODE <- MCInode
  NUM_DATABLOCKS = 4
  Queries <- MCQueries
  Readers <- MCReaders
  CHUNK = 3
  LsExclusive = TRUE
  MayKill = FALSE
SPECIFICATION FsPagingSpec
INVARIANT TypeOK LookupIsExact FileReadComplete ListingComplete MappingFaithful
PROPERTY AddressSpaceRefined
