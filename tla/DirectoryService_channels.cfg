\* One user, one community, two channels and a listing of them.
CONSTANTS
  UserCall = {u1}
  GuestCall = {}
  CommunityCall = {k1}
  ChannelCall = {h1, h2}
  CommunityList = {}
  ChannelList = {l2}
  Name = {n1, n2}
  NoName = NoName
  Flag = {TRUE}
  MaxId = 1
  MaxCrashes = 0
SPECIFICATION Spec
SYMMETRY Symmetry
INVARIANTS
  ListsAcknowledged
CHECK_DEADLOCK FALSE
