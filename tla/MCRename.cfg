SPECIFICATION TwoAccountsSpec
CONSTANTS
  Fds = {11, 12}
  Usernames = {"ann", "bob"}
  Emails = {"ann", "bob"}
  Passwords = {"pw"}
  Codes = {"A", "B"}
  TypedCodes = {}
  NewUsernames = {"ann", "bob"}
  NewPasswords = {}
  Salts = {"s"}
  Keys = {"k"}
  Names = {}
  Texts = {}
  Times = {1}
  MAX_PARTICIPANTS = 3
  MAX_MEMBERS = 2
  MAX_LIST = 4
  HISTORY_LIMIT = 2
  MaxUsers = 2
  MaxConvs = 1
  MaxMessages = 0
PROPERTY UpdateSuccessMeansStored
