SPECIFICATION Spec
CONSTANTS
  p1 = p1
  p2 = p2
  k1 = k1
  k2 = k2
  g1 = g1
  g2 = g2
  g3 = g3
  m1 = m1
  m2 = m2
  Player = {p1, p2}
  Clan = {k1, k2}
  NoClan = NoClan
  Game = {g1, g2, g3}
  Report <- MCReport
  Verified = {g1, g2, g3}
  Info = {a}
  Blank = Blank
  Thread = {t1, t2}
  Nobody = Nobody
  MayFail = TRUE
  Key <- MCKey
  Medal = {m1, m2}
  Kills <- MCKills
  Deaths <- MCDeaths
  MaxBoard = 30
  Hour <- MCHour
  Word <- MCWord
SYMMETRY Symmetry
CONSTRAINTS Unspoiled OneOfEach ThirdGame RecalcsFirst ReportsRepair
INVARIANTS TypeOK StatsMatchLog ClanRecordMatchesLog BoardsFresh RankMatches PointsPerHourBounded
PROPERTIES MedalsNeverDrop PointsChangeHands ReportsKeepThePage KeepsLedger OneRanking PagesShowTheBoard
CHECK_DEADLOCK FALSE
