\* Each component alone; the bounds are named in the README.
SPECIFICATION ServicesSpec
CONSTANTS
  None = None
  Atts = {a, f}
  Images = {a}
  OneBreak = TRUE
  MaxBehind = 1
  MaxPosts = 3
  MaxLoose = 1
  Writers = {w1, w2}
  MaxComments = 4
  MaxChanges = 2
  Limit = 2
  Partners = {u1, u2}
  MaxMessages = 2
  MaxSessions = 2
  Editors = {w1, w2}
  Pictures = {p1, p2, p3}
  NoPicture = NoPicture
  Taggers = {w1, w2}
  TagPosts = {t1, t2}
  TagNames = {x, y}
\* Ids, requests and sockets are bounded.
CHECK_DEADLOCK FALSE
INVARIANTS
  ServicesTypeOK
  RowHasFile
  ContentsHaveFiles
  LastPatchShows
  ListedAreLinked
  NothingIsLeft
  ThumbnailHasFile
  EveryAnswerIsDocumented
  ErrorLeavesNoRow
  CursorWalkIsComplete
  OffsetWalkIsComplete
  NoMessageMissed
  PortraitHasFile
  OldPortraitIsRemoved
  PostTagsAreLast
PROPERTIES
  JobsEnd
