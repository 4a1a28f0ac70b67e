SPECIFICATION FairSpec
CONSTANTS
  Conn = {c1, c2}
  Profile = {p1}
  Heartbeat = Heartbeat
  Admin = Admin
  None = None
  Request <- Logins
  Befriended <- Nobody
INVARIANT ListMatchesSockets
PROPERTY SilentClientsLeave
CONSTRAINTS Unraced OneLogin NoKick
