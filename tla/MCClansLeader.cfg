SPECIFICATION NothingFails
CONSTANTS
  Player = {p1, p2}
  Clan = {k1, k2}
  Name = {n1, n2}
  Tag = {t1, t2}
  NoName = NoName
  NoTag = NoTag
  RankText <- MCRankText
  Worker = {w1}
  None = None
PROPERTY LeaderCanOnlyDisband
