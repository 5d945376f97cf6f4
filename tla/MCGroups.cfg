SPECIFICATION GroupsSpec
CONSTANTS
  Fds = {11}
  Usernames = {"ann", "bob", "cyd"}
  Emails = {"ann", "bob", "cyd"}
  Passwords = {"pw"}
  Codes = {"A", "B", "C"}
  TypedCodes = {"C"}
  NewUsernames = {}
  NewPasswords = {}
  Salts = {"s"}
  Keys = {"k"}
  Names = {"g"}
  Texts = {}
  Times = {1}
  MAX_PARTICIPANTS = 3
  MAX_MEMBERS = 3
  MAX_LIST = 4
  HISTORY_LIMIT = 2
  MaxUsers = 3
  MaxConvs = 4
  MaxMessages = 0
INVARIANTS OnePrivatePerPair PrivateChatsClosed GroupHasOneAdmin NoOrphanParticipants
PROPERTIES AdminLeavesLast AcceptIsAllOrRetry ImplementsConversations
