SPECIFICATION FairSpec
INVARIANT OneActiveNumber
PROPERTIES  SavedHasNumber RangesCovered
CONSTANTS
  a1 = a1  a2 = a2  w1 = w1  w2 = w2
  Attendees = {a1, a2}
  BadgeTypes = {"staff", "attendee"}
  Preassigned = {"staff"}
  Nobody = Nobody
  Unsaved = Unsaved
  MaxNumber = 2
  Configs <- OnlyOverlap
  FirstConfig <- Short
  Groups <- Singles
  Workers = {w1}
  Requests = {"add", "save", "checkin", "undo", "undo_new", "lost", "activate", "undo_pickup", "create", "config"}
