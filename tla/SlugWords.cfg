SPECIFICATION SlugSpec
CHECK_DEADLOCK FALSE
CONSTANTS
  MaxName = 5
  MaxSlug = 3
INVARIANT SlugIsWordsJoined
