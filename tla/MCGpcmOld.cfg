SPECIFICATION Spec
CONSTANTS
  Conn = {c1, c2}
  Profile = {p1}
  Heartbeat = Heartbeat
  Admin = Admin
  None = None
  Request <- Logins
  Befriended <- Nobody
SYMMETRY Symmetry
INVARIANT OneSessionPerProfile
CONSTRAINTS NoSilence NoHeartbeat NoKick
