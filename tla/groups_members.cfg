SPECIFICATION GroupSpec
PROPERTIES BilledForBadges DeclinedHaveNoBadge HolderKeepsBadge DeclinedAreConverted
CHECK_DEADLOCK FALSE
CONSTANTS
  w1 = w1  w2 = w2
  People = {p1}
  Nobody = nobody
  MaxBadges = 2
  MaxSize = 2
  StartSize = 1
  Handlers = {w1, w2}
  Serves <- Desk
  Decisions = {"approved", "declined", "waitlisted"}
  MaxKills = 1
