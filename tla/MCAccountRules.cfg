SPECIFICATION Spec
CONSTANTS
  d1 = d1
  d2 = d2
  phone = phone
  f1 = f1
  f2 = f2
  c1 = c1
  c2 = c2
  NoFlow = NoFlow
  Discord = {d1}
  Letters = {"i", "k", "m", "u", "s", "e", "r"}
  Lower <- MCLower
  MaxHandle = 40
  Names <- MCNames
  MaxAttempts = 2
  Earlier = {}
  Registered <- MCRegistered
  Browsers = {phone}
  Flows = {f1, f2}
  Calls = {c1, c2}
  Columns = {"location", "bio"}
  Values = {"", "x"}
INVARIANTS
  OldTokensAreDead
PROPERTIES
  ProfileChangesAsAsked
  RotationIsWhole
  CookieLostOnlyToLateAnswer
SYMMETRY RequestSymmetry
CHECK_DEADLOCK FALSE
