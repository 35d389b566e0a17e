SPECIFICATION SessionsSpec
CONSTANTS
  d1 = d1
  d3 = d3
  phone = phone
  f1 = f1
  f2 = f2
  e1 = e1
  NoFlow = NoFlow
  Letters = {"a", "i", "k", "m", "u", "s", "e", "r"}
  Lower <- MCLower
  MaxHandle = 6
  Discord = {d1, d3}
  Names <- MCNames
  MaxAttempts = 2
  Browsers = {phone}
  Flows = {f1, f2}
  Calls = {}
  Earlier = {e1}
  Registered <- MCRegistered
INVARIANTS
  OneAccount
  GivesUpOnlyWhenTaken
  LoginsHaveCanonicalHandles
PROPERTIES
  AccountsComeWithSessions
  SignInsEnd
CHECK_DEADLOCK FALSE
