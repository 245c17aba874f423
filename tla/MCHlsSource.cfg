SPECIFICATION SourceSpec
CONSTANTS
  Urls = {"list", "seg", "local", "odd"}
  Playlist = "list"
  Tags = {"http", "file"}
  TagOf <- MCTagOf
  Handles = {h1, h2}
  Files = {1, 2, 3, 4}
  Faults = {"new"}
  Careful = TRUE
INVARIANTS ReadsItsUrl EachHasItsOwner
