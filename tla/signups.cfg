SPECIFICATION SignupsSpec
SYMMETRY Symmetry
INVARIANT MembersHaveLeader
PROPERTIES NotOverbooked OneOfExclusive PlacePassedOn LetInInOrder 
CONSTANTS
  a1 = a1  a2 = a2  a3 = a3  e1 = e1  e2 = e2  w1 = w1  w2 = w2
  Attendees = {a1, a2, a3}
  Events = {e1, e2}
  Exclusive = {{e1, e2}}
  Waitlisted = {e1}
  WaitlistSlots <- NoLimit
  FirstSlots <- OneEach
  Texters = {}
  MaxSlots = 1
  MaxSignups = 3
  Workers = {w1, w2}
  Requests = {"signup", "cancel", "staff", "slots"}
  Nobody = Nobody
  NoEvent = NoEvent
  Entrants = {a1, a2, a3}
  NoLeader = NoLeader
  Inventory = 1
  MaxChanges = 3
