SPECIFICATION Spec
CONSTANTS
  BodyLimit = 3
  JSONLimit = 2
  Sizes = {1, 2, 3, 4}
INVARIANTS
  OneAnswer
  RefusedChangesNothing
  ChangesAreAuthorised
  AnswersNameTheRequest
  CookieFollowsSession
