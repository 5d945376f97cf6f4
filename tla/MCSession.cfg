SPECIFICATION FairSpec
CONSTANTS
  Emails = {"ann", "bob"}
  Passwords = {"old", "new"}
INVARIANTS OnlyRememberedLogins
PROPERTIES StartGetsThrough
