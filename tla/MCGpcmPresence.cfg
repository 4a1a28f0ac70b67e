SPECIFICATION Spec
CONSTANTS
  Conn = {c1, c2}
  Profile = {p1, p2}
  Heartbeat = Heartbeat
  Admin = Admin
  None = None
  Request <- Presence
  Befriended <- Everyone
SYMMETRY Symmetry
INVARIANTS TypeOK NoGhosts
CONSTRAINTS Unraced OneLogin NoSilence NoHeartbeat KickAlone
