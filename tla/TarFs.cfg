CONSTANTS
  Archives <- MCArchives
  Char <- MCChar
  BlockSize = 2
  MaxFd = 5
  MaxSize = 2
  MaxMembers = 4
SPECIFICATION TarSpec
INVARIANTS LsShowsChildren LookupsAgree ReadsOwnData
PROPERTIES DescriptorsStay
