CONSTANTS
  u1 = u1  u2 = u2  s1 = s1  s2 = s2  w1 = w1  w2 = w2  book = book  up = up  down = down  p1 = p1  p2 = p2
  Uri = {u1, u2}
  Url = {a}
  None = None
  NoReview = NoReview
  Word = {w1, w2}
  FirstStored <- MCFirstStored
  MaxInputs = 3
  Subj = {s1, s2}
  Missing = Missing
  Listings <- MCListings
  FirstReviews <- MCFirstReviews
  MAX_ATTEMPTS = 2
  MaxLoads = 3
  Review = {1, 2, 3}
  Person = {p1, p2}
  AuthorOf <- MCAuthorOf
  Time = {1, 2}
  Content <- MCContent
  Direction = {up, down}
  Nil = Nil
  PageSize = 1
  MaxChanges = 1
SPECIFICATION TabSpec
CHECK_DEADLOCK FALSE
INVARIANTS TagsAreForTheSubject TypedWordsStay RowsAreTheLastLoads NoneSkippedNoneRepeated HeadingIsOfThePage
PROPERTIES SavesStrikeByHand LateAnswersDoNotCommit EveryRowIsAnswered LoadingEnds
