SPECIFICATION ChatSpec
CONSTANTS
  Fds = {11, 12}
  Usernames = {"ann", "bob"}
  Emails = {"ann", "bob"}
  Passwords = {"pw"}
  Codes = {"A", "B"}
  TypedCodes = {"B"}
  NewUsernames = {}
  NewPasswords = {}
  Salts = {"s"}
  Keys = {"k"}
  Names = {"g"}
  Texts = {"hi"}
  Times = {1}
  MAX_PARTICIPANTS = 2
  MAX_MEMBERS = 2
  MAX_LIST = 4
  HISTORY_LIMIT = 2
  MaxUsers = 2
  MaxConvs = 3
  MaxMessages = 1
INVARIANT TypeOK
PROPERTIES TextsReachParticipants TextsStayInConversation ConversationsBeginEmpty
