\* One draft or article, three tries, two changes of the fields, two failures.
CONSTANTS
  Vis = {Private, Public}
  Private = Private
  Retries = 1
  MaxEdits = 2
  MaxFailures = 2
SPECIFICATION FairSpec
INVARIANTS OneArticle DraftsStayPrivate LastChoiceWins
PROPERTIES EventuallySaved
CHECK_DEADLOCK FALSE
