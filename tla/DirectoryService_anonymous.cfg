\* One user, one community, one channel and its listing.
CONSTANTS
  UserCall = {u1}
  GuestCall = {}
  CommunityCall = {k1}
  ChannelCall = {h1}
  CommunityList = {}
  ChannelList = {l2}
  Name = {n1, n2}
  NoName = NoName
  Flag = {TRUE, FALSE}
  MaxId = 1
  MaxCrashes = 0
SPECIFICATION Spec
SYMMETRY Symmetry
INVARIANTS
  AnonymousListed
CHECK_DEADLOCK FALSE
