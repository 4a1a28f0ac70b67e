SPECIFICATION Spec
CONSTANTS
  Conn = {c1, c2}
  Profile = {p1, p2}
  Heartbeat = Heartbeat
  Admin = Admin
  None = None
  Request <- Friends
  Befriended <- Nobody
SYMMETRY Symmetry
INVARIANT OneRowPerFriend
CONSTRAINTS Unraced OneLogin NoSilence NoHeartbeat NoKick
