\* A daemon of a shell and one of the manager, an old number in the pid file, one stop.
SPECIFICATION Spec
CONSTANTS
  Pids = {p1, p2, p3}
  Clients = {c1, c2}
  None = None
  Stale = Stale
  Managers = {"none", "systemd", "launchd"}
  MaxKills = 0
  MaxOrders = 1
  MaxUpsets = 1
PROPERTY
  StopsTheDaemon
