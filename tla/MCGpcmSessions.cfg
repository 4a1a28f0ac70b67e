SPECIFICATION Spec
CONSTANTS
  Conn = {c1, c2, c3}
  Profile = {p1, p2}
  Heartbeat = Heartbeat
  Admin = Admin
  None = None
  Request <- Endings
  Befriended <- Nobody
SYMMETRY Symmetry
INVARIANT OneSession
PROPERTY KeepsSessions
CONSTRAINTS OneLogin NoSilence NoHeartbeat ThreeLogIn
