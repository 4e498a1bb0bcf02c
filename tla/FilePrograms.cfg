SPECIFICATION FairSpec
CONSTANTS
  Procs = {p, q}
  p = p
  q = q
  MaxInode = 6
  Given = {"b", "temp.txt"}
  GivenDirectories = {".", "d", "a"}
INVARIANTS
  OwnListing
  LinksMeet
  WritesChecked
PROPERTIES
  NamesKept
  Ends
