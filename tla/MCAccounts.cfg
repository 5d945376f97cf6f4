SPECIFICATION Spec
CONSTANTS
  Fds = {11}
  Usernames = {"ann", "bob"}
  Emails = {"ann", "bob"}
  Passwords = {"pw", "new"}
  Codes = {"A", "B"}
  TypedCodes = {"A", "B", "X"}
  NewUsernames = {"ann", "bob"}
  NewPasswords = {"new"}
  Salts = {"s"}
  Keys = {"k"}
  Names = {}
  Texts = {}
  Times = {1}
  MAX_PARTICIPANTS = 3
  MAX_MEMBERS = 2
  MAX_LIST = 4
  HISTORY_LIMIT = 2
  MaxUsers = 2
  MaxConvs = 2
  MaxMessages = 0
INVARIANTS UsersUnique ContactsSymmetric OnePrivatePerPair
PROPERTIES AcceptIsAllOrRetry ImplementsConversations
