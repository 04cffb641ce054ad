SPECIFICATION Spec
CONSTANTS
  ChunkSize = 3
  Overlaps <- MCOverlaps
  Space = Space
  Absent = Absent
  Loaders = 2
  FilesOf <- MCFilesOf
  Texts <- MCTexts
  Disks <- MCDisks
  Queries <- MCQueries
  Ks <- MCKs
  MaxEdits = 2
INVARIANT UpToK
