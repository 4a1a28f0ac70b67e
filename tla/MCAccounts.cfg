SPECIFICATION Spec
CONSTANTS
  ann = ann
  Ann = Ann
  tagAnn = tagAnn
  long = long
  long1 = long1
  e1 = e1
  E1 = E1
  e2 = e2
  p1 = p1
  h1 = h1
  h2 = h2
  i1 = i1
  Nick = {ann, Ann, tagAnn, long, long1}
  Strip <- MCStrip
  Cut <- MCCut
  Fold <- MCFold
  Email = {e1, E1, e2}
  Filed <- MCFiled
  Password = {p1, h1}
  Digest = {h1, h2}
  Hash <- MCHash
  NewUserRequest <- MCNewUserRequest
  LoginRequest <- MCLoginRequest
  Ip = {i1}
  Nowhere = Nowhere
  Stack = {7}
  Thread = {t1, t2}
  MayFail = TRUE
SYMMETRY Symmetry
CONSTRAINT Few
INVARIANTS TypeOK UniqueNicksDiffer UserIdsDiffer StatsForEveryPlayer AnswersAreTrue
PROPERTY LastLoginIsOwn
CHECK_DEADLOCK FALSE
