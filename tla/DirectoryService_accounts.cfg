\* Two accounts, a community and its listing, one crash.
CONSTANTS
  UserCall = {u1}
  GuestCall = {g1}
  CommunityCall = {k1}
  ChannelCall = {}
  CommunityList = {l1}
  ChannelList = {}
  Name = {n1,n2}
  NoName = NoName
  Flag = {TRUE,FALSE}
  MaxId = 1
  MaxCrashes = 1
SPECIFICATION Spec
SYMMETRY Symmetry
INVARIANTS
  TypeOK
  FirstUserIsAdmin
  AnsweredOwnRow
  ListsAcknowledged
CHECK_DEADLOCK FALSE
