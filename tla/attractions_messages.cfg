SPECIFICATION FairSpec
PROPERTY ToldIsLetIn
CONSTANTS
  a1 = a1  a2 = a2  a3 = a3  e1 = e1  e2 = e2  w1 = w1  w2 = w2
  Attendees = {a1, a2}
  Events = {e1}
  Exclusive = {{e1}}
  Waitlisted = {e1}
  WaitlistSlots <- NoLimit
  FirstSlots <- OneEach
  Texters = {a1}
  MaxSlots = 1
  MaxSignups = 2
  Workers = {w1}
  Requests = {"signup", "cancel", "pull", "staff", "slots", "checkin", "undo", "notice", "reply", "crash"}
  Nobody = Nobody
  NoEvent = NoEvent
CHECK_DEADLOCK FALSE
