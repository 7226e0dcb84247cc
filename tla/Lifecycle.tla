----------------------------- MODULE Lifecycle -----------------------------
(***************************************************************************)
(* How daemons come and go.                                                *)
(*                                                                         *)
(* Nothing but two files says that a daemon runs: the socket, which it     *)
(* binds, and the pid file, which it writes (src/daemon.rs, run).  `fore   *)
(* start`, which every new shell runs in the background (shell/fore.zsh),  *)
(* stop, restart, shutdown, install and uninstall (src/service.rs,         *)
(* src/main.rs) are processes of their own that look at those files; the   *)
(* service manager starts daemons as well.  No lock keeps any two of them  *)
(* apart, so that each system call is an action.                           *)
(*                                                                         *)
(* A pid may be given again once its process has ended, to a daemon or to  *)
(* a program of the user that has nothing to do with fore ("other").       *)
(***************************************************************************)
EXTENDS Naturals

CONSTANTS
  Pids,      \* process numbers
  Clients,   \* places for processes of the command line tool
  None,      \* no file; no process
  Stale,     \* a socket file whose process has ended
  Managers,  \* service managers to consider
  MaxKills,  \* bound: daemons that are killed or crash
  MaxOrders, \* bound: runs of stop, restart, shutdown, install and uninstall
  MaxUpsets  \* bound: starts and stops that begin while another is under way, and
             \* other programs that are given a number

ASSUME LifecycleAssumption ==
  /\ None \notin Pids \cup Clients /\ Stale \notin Pids /\ None # Stale
  /\ Pids \cap {"absent", "off", "due"} = {}
  /\ Managers \subseteq {"none", "systemd", "launchd"}
  /\ {MaxKills, MaxOrders, MaxUpsets} \subseteq Nat

VARIABLES
  proc,     \* proc[p]: how far the daemon with this number is, or "free", or "other"
  sock,     \* the socket file: who bound it, Stale or None
  pidFile,  \* the pid file: the number in it or None
  manager,  \* the machine's service manager
  unit,     \* its fore unit: "absent", "off", "due", or the process it watches
  cli,      \* cli[c]: where a command line process is, with what, and what next
  kills,
  orders,
  others,
  mistaken, \* `fore stop` has taken another program for the daemon
  races     \* starts and stops that have begun while another was under way

counts == <<kills, orders, others, mistaken>>
files  == <<sock, pidFile>>
vars == <<proc, files, manager, unit, cli, counts, races>>

\* Before a daemon listens; with its socket; and after its loop.
Starting == {"boot", "looking", "connecting", "unlinking", "binding", "bound"}
Serving  == {"listening", "ending"}
Ending   == {"ending", "unlinked"}

\* No daemon, or one that has removed its files and only has to end.
Gone == {"free", "other", "leaving"}

Stopping == {"asked", "signal", "terming", "rmpid", "rmsock"}
Idle     == [at |-> "idle", pid |-> None, then |-> "idle"]

\* service.rs, socket_alive: somebody accepts connections on the socket file.
Answers == sock \in Pids /\ proc[sock] \in Serving

\* service.rs, is_running: kill(pid, 0) succeeds, for any process of the user.
IsRunning == pidFile # None /\ proc[pidFile] # "free"

\* service.rs, autostart_installed.
AutostartInstalled == unit # "absent"

Free == {p \in Pids : proc[p] = "free"}

\* A daemon is starting or ending (p, which c is about to terminate, may be ending
\* already), or somebody other than c is stopping one.
Busy(c, p) ==
  \/ \E q \in Pids : /\ proc[q] \notin Gone \cup {"listening"}
                     /\ ~(q = p /\ proc[p] \in Ending)
  \/ \E d \in Clients \ {c} : cli[d].at \in Stopping

Init ==
  /\ proc = [p \in Pids |-> "free"]
  /\ sock \in {None, Stale}
  /\ pidFile \in Pids \cup {None}
  /\ manager \in Managers
  /\ unit \in IF manager = "none" THEN {"absent"} ELSE {"absent", "due"}
  /\ cli = [c \in Clients |-> Idle]
  /\ kills = 0 /\ orders = 0 /\ others = 0
  /\ mistaken = FALSE
  /\ races = 0

-----------------------------------------------------------------------------
(***************************************************************************)
(* A daemon.                                                               *)
(***************************************************************************)

\* c, or the manager, begins to start or to end the daemon p.
Begins(c, p) ==
  /\ races' = IF Busy(c, p) THEN races + 1 ELSE races
  /\ races' + others =< MaxUpsets

Spawned(p, c) ==
  /\ proc' = [proc EXCEPT ![p] = "boot"]
  /\ Begins(c, p)

\* service.rs, launchd_plist and systemd_unit: KeepAlive or Restart=on-failure.
Restarts(failed) == manager = "launchd" \/ failed

\* Mutant: the manager does not see its process end.
ExitsUnseen(p, failed, u) ==
  /\ proc' = [proc EXCEPT ![p] = "free"]
  /\ sock' = IF sock = p THEN Stale ELSE sock
  /\ unit' = u

\* p ends; u is what the unit was up to then.
Exits(p, failed, u) ==
  /\ proc' = [proc EXCEPT ![p] = "free"]
  /\ sock' = IF sock = p THEN Stale ELSE sock
  /\ unit' = IF u # p THEN u ELSE IF Restarts(failed) THEN "due" ELSE "off"

Goes(p, from, to) ==
  /\ proc[p] = from
  /\ proc' = [proc EXCEPT ![p] = to]

\* daemon.rs, run: the pid is written before the socket is looked at.
WritesPid(p) ==
  /\ Goes(p, "boot", "looking")
  /\ pidFile' = p
  /\ UNCHANGED <<sock, manager, unit, cli, counts, races>>

\* daemon.rs, run: socket_path.exists().
LooksForSocket(p) ==
  /\ Goes(p, "looking", IF sock = None THEN "binding" ELSE "connecting")
  /\ UNCHANGED <<files, manager, unit, cli, counts, races>>

\* Mutant: nobody is asked whether the socket is in use.
ConnectsNot(p) ==
  /\ Goes(p, "connecting", "unlinking")
  /\ UNCHANGED <<files, manager, unit, cli, counts, races>>

\* daemon.rs, run: connect; "another fore daemon is already listening".
Connects(p) ==
  /\ proc[p] = "connecting"
  /\ IF Answers THEN Exits(p, TRUE, unit)
     ELSE Goes(p, "connecting", "unlinking") /\ UNCHANGED <<sock, unit>>
  /\ UNCHANGED <<pidFile, manager, cli, counts, races>>

\* Mutant: a stale socket stays.
KeepsSocket(p) ==
  /\ Goes(p, "unlinking", "binding")
  /\ UNCHANGED <<files, manager, unit, cli, counts, races>>

\* daemon.rs, run: remove_file, whatever is there by now.
RemovesStale(p) ==
  /\ Goes(p, "unlinking", "binding")
  /\ sock' = None
  /\ UNCHANGED <<pidFile, manager, unit, cli, counts, races>>

\* daemon.rs, run: bind, which fails if the file exists.
Binds(p) ==
  /\ proc[p] = "binding"
  /\ IF sock # None THEN Exits(p, TRUE, unit)
     ELSE Goes(p, "binding", "bound") /\ sock' = p /\ UNCHANGED unit
  /\ UNCHANGED <<pidFile, manager, cli, counts, races>>

\* UnixListener::bind is two calls, bind and listen; and SIGTERM ends the
\* process at once until its handler is installed.
Listens(p) ==
  /\ Goes(p, "bound", "listening")
  /\ UNCHANGED <<files, manager, unit, cli, counts, races>>

\* daemon.rs, run, after the loop: remove_file(socket_path), whosever it is.
RemovesSocket(p) ==
  /\ Goes(p, "ending", "unlinked")
  /\ sock' = None
  /\ UNCHANGED <<pidFile, manager, unit, cli, counts, races>>

\* daemon.rs, run, after the loop: remove_file(pid_path), and return.
RemovesPid(p) ==
  /\ Goes(p, "unlinked", "leaving")
  /\ pidFile' = None
  /\ UNCHANGED <<sock, manager, unit, cli, counts, races>>

\* main.rs, Cmd::Daemon: listener, State and runtime are dropped, which waits for
\* what runs on blocking threads, and the process ends.
Leaves(p) ==
  /\ proc[p] = "leaving"
  /\ Exits(p, FALSE, unit)
  /\ UNCHANGED <<pidFile, manager, cli, counts, races>>

\* A daemon is killed, crashes, or cannot open its database.
Dies(p) ==
  /\ proc[p] \notin {"free", "other"} /\ kills < MaxKills
  /\ kills' = kills + 1
  /\ Exits(p, TRUE, unit)
  /\ UNCHANGED <<pidFile, manager, cli, orders, others, mistaken, races>>

\* Another program of the user is given the number p, and ends some time.
OtherStarts(p) ==
  /\ races + others < MaxUpsets
  /\ Goes(p, "free", "other")
  /\ others' = others + 1
  /\ UNCHANGED <<files, manager, unit, cli, kills, orders, mistaken, races>>

OtherEnds(p) ==
  /\ Goes(p, "other", "free")
  /\ UNCHANGED <<files, manager, unit, cli, counts, races>>

\* The manager starts the unit, at once or RestartSec after it has failed.
UnitStarts ==
  /\ unit = "due"
  /\ \E p \in Free : Spawned(p, None) /\ unit' = p
  /\ UNCHANGED <<files, manager, cli, counts>>

\* SIGTERM or a Shutdown request reaches p: its loop ends, or, as long as it
\* has no handler, the process.
Terminated(p, c, u) ==
  /\ Begins(c, p)
  /\ IF proc[p] \in Starting THEN Exits(p, FALSE, u)
     ELSE /\ proc' = [proc EXCEPT ![p] = IF @ = "listening" THEN "ending" ELSE @]
          /\ unit' = u
          /\ UNCHANGED sock

\* The manager terminates its process, if it has one; the unit becomes u.
UnitTerminated(c, u) ==
  IF unit \in Pids THEN Terminated(unit, c, u)
  ELSE unit' = u /\ UNCHANGED <<proc, sock, races>>

-----------------------------------------------------------------------------
(***************************************************************************)
(* The command line tool.                                                  *)
(***************************************************************************)

At(c, place) == cli[c].at = place
To(c, place) == cli' = [cli EXCEPT ![c].at = place]
Ends(c)      == cli' = [cli EXCEPT ![c] = [Idle EXCEPT !.at = cli[c].then]]

\* Orders of the user: where each begins, and what comes after `stop`.
Orders == {<<"stop", "idle">>, <<"stop", "restart">>, <<"stop", "uninstall">>,
           <<"shutdown", "idle">>, <<"install", "start">>}

\* fore.zsh: every new shell runs `fore status || fore start`.
ShellOpens(c) ==
  /\ At(c, "idle")
  /\ To(c, "start")
  /\ UNCHANGED <<proc, files, manager, unit, counts, races>>

UserOrders(c) ==
  /\ At(c, "idle") /\ orders < MaxOrders
  /\ orders' = orders + 1
  /\ \E o \in Orders : cli' = [cli EXCEPT ![c] = [at |-> o[1], pid |-> None, then |-> o[2]]]
  /\ UNCHANGED <<proc, files, manager, unit, kills, others, mistaken, races>>

\* service.rs, start: "already running", or the manager is asked, if any.
StartLooks(c) ==
  /\ At(c, "start")
  /\ IF Answers THEN Ends(c) ELSE To(c, "spawn")
  /\ unit' = IF ~Answers /\ unit = "off" THEN "due" ELSE unit
  /\ UNCHANGED <<proc, files, manager, counts, races>>

\* service.rs, start: the manager's daemon answers within three seconds.
StartWaits(c) ==
  /\ At(c, "spawn") /\ AutostartInstalled /\ Answers
  /\ Ends(c)
  /\ UNCHANGED <<proc, files, manager, unit, counts, races>>

\* service.rs, start: no manager, or no answer: a daemon of its own, unless there is
\* no process to be had.  The wait that follows changes nothing.
StartSpawns(c) ==
  /\ At(c, "spawn")
  /\ \/ \E p \in Free : Spawned(p, c)
     \/ Free = {} /\ UNCHANGED <<proc, races>>
  /\ Ends(c)
  /\ UNCHANGED <<files, manager, unit, counts>>

\* service.rs, stop: the manager stops its process if the pid file names any.
\* systemd forgets the process, launchd will start it again.
StopAsks(c) ==
  /\ At(c, "stop") /\ AutostartInstalled /\ IsRunning
  /\ cli' = [cli EXCEPT ![c].at = "asked", ![c].pid = unit]
  /\ UnitTerminated(c, IF manager = "systemd" THEN "off" ELSE unit)
  /\ UNCHANGED <<pidFile, manager, counts>>

\* systemctl returns when the process has ended; launchctl at once.
StopAsked(c) ==
  /\ At(c, "asked")
  /\ (manager = "systemd" /\ cli[c].pid \in Pids)
       => proc[cli[c].pid] \notin Ending \cup {"leaving"}
  /\ To(c, "signal")
  /\ UNCHANGED <<proc, files, manager, unit, counts, races>>

\* SIGTERM reaches another program, which may end by it.
Mistakes(c) ==
  /\ Begins(c, pidFile)
  /\ mistaken' = TRUE
  /\ proc' \in {proc, [proc EXCEPT ![pidFile] = "free"]}
  /\ UNCHANGED <<sock, unit>>

\* service.rs, stop: SIGTERM to the number in the pid file, or an error.
StopSignals(c) ==
  /\ \/ At(c, "signal")
     \/ At(c, "stop") /\ ~(AutostartInstalled /\ IsRunning)
  /\ IF IsRunning
     THEN /\ cli' = [cli EXCEPT ![c].at = "terming", ![c].pid = pidFile]
          /\ IF proc[pidFile] = "other" THEN Mistakes(c)
             ELSE Terminated(pidFile, c, unit) /\ UNCHANGED mistaken
     ELSE Ends(c) /\ UNCHANGED <<proc, sock, unit, races, mistaken>>
  /\ UNCHANGED <<pidFile, manager, kills, orders, others>>

\* Mutant: the process is not killed when the time is up.
StopKillsNot(c) ==
  /\ At(c, "terming")
  /\ To(c, "rmpid")
  /\ UNCHANGED <<proc, files, manager, unit, counts, races>>

\* service.rs, stop: the pid file names no process any more; or three seconds
\* are over, and SIGKILL goes to the number signalled before.
StopKills(c) ==
  /\ At(c, "terming")
  /\ IF IsRunning /\ proc[cli[c].pid] # "free" THEN Exits(cli[c].pid, TRUE, unit)
     ELSE UNCHANGED <<proc, sock, unit>>
  /\ To(c, "rmpid")
  /\ UNCHANGED <<pidFile, manager, counts, races>>

\* service.rs, stop: remove_file(pid_path), whosever it is by now.
StopRemovesPid(c) ==
  /\ At(c, "rmpid")
  /\ pidFile' = None
  /\ To(c, "rmsock")
  /\ UNCHANGED <<proc, sock, manager, unit, counts, races>>

\* service.rs, stop: remove_file(socket_path), whosever it is by now; Ok.
StopRemovesSocket(c) ==
  /\ At(c, "rmsock")
  /\ sock' = None
  /\ Ends(c)
  /\ UNCHANGED <<proc, pidFile, manager, unit, counts, races>>

\* main.rs, Shutdown; and Restart between stop and start.
Shuts(c) ==
  /\ At(c, "shutdown") \/ At(c, "restart")
  /\ IF Answers /\ proc[sock] = "listening" THEN Terminated(sock, c, unit)
     ELSE UNCHANGED <<proc, sock, unit, races>>
  /\ cli' = [cli EXCEPT ![c] = [Idle EXCEPT !.at = IF At(c, "restart") THEN "start" ELSE "idle"]]
  /\ UNCHANGED <<pidFile, manager, counts>>

\* service.rs, install_autostart, followed by start if nothing answers.
Installs(c) ==
  /\ At(c, "install")
  /\ CASE manager = "none"    -> UNCHANGED <<proc, sock, unit, races>>
       [] manager = "systemd" -> /\ unit' = IF unit \in Pids THEN unit ELSE "due"
                                 /\ UNCHANGED <<proc, sock, races>>
       [] manager = "launchd" -> UnitTerminated(c, "due")
  /\ cli' = [cli EXCEPT ![c] = [Idle EXCEPT !.at = "start"]]
  /\ UNCHANGED <<pidFile, manager, counts>>

\* service.rs, uninstall_autostart: the manager stops the unit and forgets it.
Uninstalls(c) ==
  /\ At(c, "uninstall")
  /\ UnitTerminated(c, "absent")
  /\ Ends(c)
  /\ UNCHANGED <<pidFile, manager, counts>>

DaemonStep(p) ==
  \/ WritesPid(p) \/ LooksForSocket(p) \/ Connects(p) \/ RemovesStale(p) \/ Binds(p)
  \/ Listens(p) \/ RemovesSocket(p) \/ RemovesPid(p) \/ Leaves(p)

ClientStep(c) ==
  \/ StartLooks(c) \/ StartWaits(c) \/ StartSpawns(c)
  \/ StopAsks(c) \/ StopAsked(c) \/ StopSignals(c) \/ StopKills(c)
  \/ StopRemovesPid(c) \/ StopRemovesSocket(c)
  \/ Shuts(c) \/ Installs(c) \/ Uninstalls(c)

Next ==
  \/ \E p \in Pids : DaemonStep(p) \/ Dies(p) \/ OtherStarts(p) \/ OtherEnds(p)
  \/ UnitStarts
  \/ \E c \in Clients : ClientStep(c) \/ ShellOpens(c) \/ UserOrders(c)

Spec == Init /\ [][Next]_vars

\* The system runs what can run; the user goes on opening shells.
Fairness ==
  /\ \A p \in Pids : WF_vars(DaemonStep(p))
  /\ WF_vars(UnitStarts)
  /\ \A c \in Clients : WF_vars(ClientStep(c)) /\ WF_vars(ShellOpens(c))

FairSpec == Spec /\ Fairness

-----------------------------------------------------------------------------
(***************************************************************************)
(* Properties.                                                             *)
(***************************************************************************)

Places == {"idle", "start", "spawn", "stop", "shutdown", "restart", "install",
           "uninstall"} \cup Stopping

\* Every variable holds values of its kind; a socket file that is not stale is
\* that of a process that has bound it, and the manager watches a process.
TypeOK ==
  /\ proc \in [Pids -> Gone \cup Starting \cup {"listening"} \cup Ending]
  /\ sock \in Pids \cup {None, Stale}
  /\ sock \in Pids => proc[sock] \in {"bound"} \cup Serving
  /\ pidFile \in Pids \cup {None}
  /\ manager \in Managers
  /\ unit \in Pids \cup {"absent", "off", "due"}
  /\ unit \in Pids => proc[unit] \notin {"free", "other"}
  /\ cli \in [Clients -> [at : Places, pid : Pids \cup {None, "absent", "off", "due"},
                          then : Places]]
  /\ kills \in Nat /\ orders \in Nat /\ others \in Nat
  /\ mistaken \in BOOLEAN
  /\ races \in 0..MaxUpsets

\* As long as no start or stop began while another was under way, and stop took no
\* other program for the daemon, a daemon that listens can be reached by its socket,
\* and so there is one at most: whatever was killed half-way, whatever files were
\* left, whoever starts daemons (daemon.rs:119).
OneDaemonWhenAlone ==
  races = 0 /\ ~mistaken => \A p \in Pids : proc[p] = "listening" => sock = p

\* c has removed the files, and the stop succeeds.
Succeeds(c) == At(c, "rmsock") /\ cli'[c] # cli[c]

\* And when `fore stop` reports success (service.rs:100), no daemon serves or has
\* anything left to remove, though it may still be on its way out.
StopStops ==
  [][races = 0 /\ ~mistaken
       => \A c \in Clients : Succeeds(c) => \A p \in Pids : proc'[p] \in Gone]_vars

\* install.sh:102-104, of its `fore stop`: "Stop a running daemon first ... the old
\* daemon would keep running old code": after a success no daemon runs, races apart.
StopsTheDaemon ==
  [][races = 0 => \A c \in Clients : Succeeds(c) => \A p \in Pids : proc'[p] \in Gone]_vars

\* Whatever was killed, stopped or lost in races, once the user leaves it alone
\* and goes on opening shells some daemon answers, and goes on answering.
UpAgain == <>[]Answers
=============================================================================
