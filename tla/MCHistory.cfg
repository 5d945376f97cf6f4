SPECIFICATION ChatSpec
CONSTANTS
  Fds = {11}
  Usernames = {"ann", "bob"}
  Emails = {"ann", "bob"}
  Passwords = {"pw"}
  Codes = {"A", "B"}
  TypedCodes = {}
  NewUsernames = {}
  NewPasswords = {}
  Salts = {"s"}
  Keys = {"k"}
  Names = {}
  Texts = {"hi"}
  Times = {1}
  MAX_PARTICIPANTS = 3
  MAX_MEMBERS = 2
  MAX_LIST = 4
  HISTORY_LIMIT = 2
  MaxUsers = 2
  MaxConvs = 1
  MaxMessages = 3
INVARIANT HistoryHasLatest
