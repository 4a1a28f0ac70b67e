SPECIFICATION FairSpec
CONSTANTS
  Conn = {c1}
  Profile = {p1}
  Heartbeat = Heartbeat
  Admin = Admin
  None = None
  Request <- Logins
  Befriended <- Nobody
PROPERTY IdleClientsLeave
CONSTRAINT NoKick
