SPECIFICATION Spec
CONSTANTS
  a1 = a1
  a2 = a2
  i1 = i1
  n1 = n1
  n2 = n2
  r1 = r1
  v31 = v31
  conquest = conquest
  ctf = ctf
  unreadable = unreadable
  empty = empty
  Address = {a1, a2}
  Ip = {i1}
  IpOf <- MCIpOf
  Key <- MCKey
  Text = {v31, conquest, ctf, unreadable, empty}
  Bit = {r1}
  Default <- MCDefault
  Name = {n1, n2}
  Say <- MCSay
  Playing <- MCPlaying
  Filter <- MCFilter
  Request <- MCRequest
  MaxAsked = 3
  MayFail = TRUE
CONSTRAINTS BrowserFirst OneByOne
INVARIANTS TypeOK ClansOfLatest ColumnsKeepTheLatest PlayersOfLatest LiveAnswerWhole ListedAsAsked NothingAskedIsLost
PROPERTIES VerifiedStays GamesTakenByHand
CHECK_DEADLOCK FALSE
