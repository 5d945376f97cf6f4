SPECIFICATION FairSpec
CONSTANTS
  Convs = {1, 2, 3}
  Groups = {2, 3}
  AdminOf = {2}
  Friends = {7, 8}
  Me = 1
  MAX_PARTICIPANTS = 3
  TornReads = {}
  MaxTexts = 1
  MaxInbox = 2
  MaxOutbox = 3
  MembersAtStart <- Members
  Sessions <- OnlyProfileForm
PROPERTIES LogoutClosesSocket
CHECK_DEADLOCK FALSE
