SPECIFICATION Spec
CONSTANTS
  Name = {"a", "b", "c"}
  Length <- MCLength
  Header = 2
  MaxDirectorySize = 20
  BlockSize = 4
  MaxCall = 2
INVARIANTS RecordsTile NamesAreFound ListingIsComplete NothingFails
