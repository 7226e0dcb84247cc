\* Three process numbers, two command line processes at a time, any service
\* manager; one crash, one order, and one race or one other program.
SPECIFICATION FairSpec
CONSTANTS
  Pids = {p1, p2, p3}
  Clients = {c1, c2}
  None = None
  Stale = Stale
  Managers = {"none", "systemd", "launchd"}
  MaxKills = 1
  MaxOrders = 1
  MaxUpsets = 1
INVARIANTS
  TypeOK
  OneDaemonWhenAlone
PROPERTIES
  StopStops
  UpAgain
