-------------------------- MODULE LifecycleProofs --------------------------
(***************************************************************************)
(* Proofs about Lifecycle, for any number of processes, clients, kills,    *)
(* orders, other programs and races: as long as no start or stop begins    *)
(* while another is under way, and `fore stop` takes no other program for  *)
(* the daemon, there is one daemon at most, it can be reached, and after   *)
(* `fore stop` none serves or has files to remove.                         *)
(***************************************************************************)
EXTENDS Lifecycle, TLAPS

(***************************************************************************)
(* Types.                                                                  *)
(***************************************************************************)

Watching == {"absent", "off", "due"}

\* What the types say of the variables that the processes change.
ProcTypes ==
  /\ proc \in [Pids -> Gone \cup Starting \cup {"listening"} \cup Ending]
  /\ sock \in Pids \cup {None, Stale}
  /\ sock \in Pids => proc[sock] \in {"bound"} \cup Serving
  /\ unit \in Pids \cup Watching
  /\ unit \in Pids => proc[unit] \notin {"free", "other"}

\* The places from the signal to the success of stop.
Closings   == {"terming", "rmpid", "rmsock"}
Closing(c) == cli[c].at \in Closings

\* A client that waits for a process to end has its number, and none goes to
\* such a place when an order ends.
Named == \A c \in Clients : /\ cli[c].at = "terming" => cli[c].pid \in Pids
                            /\ cli[c].then \notin Closings

\* A daemon that has removed the pid file is not named by it again.
Written == pidFile \in Pids => proc[pidFile] # "leaving"

CliType == [at : Places, pid : Pids \cup {None} \cup Watching, then : Places]

\* The types, without the long sets.
LEMMA TypesAre ==
  TypeOK <=> /\ ProcTypes
             /\ pidFile \in Pids \cup {None}
             /\ manager \in Managers
             /\ cli \in [Clients -> CliType]
             /\ kills \in Nat /\ orders \in Nat /\ others \in Nat
             /\ mistaken \in BOOLEAN
             /\ races \in 0..MaxUpsets
<1>1. Pids \cup Watching = Pids \cup {"absent", "off", "due"}
  BY DEF Watching
<1>2. Pids \cup {None} \cup Watching = Pids \cup {None, "absent", "off", "due"}
  BY DEF Watching
<1> QED BY <1>1, <1>2 DEF TypeOK, ProcTypes, CliType

\* The same of the next state.
LEMMA TypesAreNext ==
  TypeOK' <=> /\ ProcTypes'
              /\ pidFile' \in Pids \cup {None}
              /\ manager' \in Managers
              /\ cli' \in [Clients -> CliType]
              /\ kills' \in Nat /\ orders' \in Nat /\ others' \in Nat
              /\ mistaken' \in BOOLEAN
              /\ races' \in 0..MaxUpsets
<1>1. Pids \cup Watching = Pids \cup {"absent", "off", "due"}
  BY DEF Watching
<1>2. Pids \cup {None} \cup Watching = Pids \cup {None, "absent", "off", "due"}
  BY DEF Watching
<1> QED BY <1>1, <1>2 DEF TypeOK, ProcTypes, CliType

\* A process that ends leaves the socket file stale and the unit without it.
LEMMA ExitsTypes ==
  ASSUME ProcTypes, NEW p \in Pids, NEW failed, NEW u, u \in Watching \/ u = unit,
         Exits(p, failed, u)
  PROVE  /\ ProcTypes'
         /\ proc'[p] = "free" /\ \A q \in Pids \ {p} : proc'[q] = proc[q]
<1> USE LifecycleAssumption
<1>1. /\ proc' = [proc EXCEPT ![p] = "free"]
      /\ sock' = IF sock = p THEN Stale ELSE sock
      /\ (unit' = u /\ u # p) \/ unit' \in {"due", "off"}
  BY DEF Exits
<1>2. unit' \in Pids => unit' = unit /\ unit # p
  BY <1>1 DEF Watching
<1>3. unit' \in Pids \cup Watching
  BY <1>1 DEF ProcTypes, Watching
<1> QED BY <1>1, <1>2, <1>3 DEF ProcTypes, Gone, Serving

\* A process that goes on.
LEMMA GoesTypes ==
  ASSUME ProcTypes, NEW p \in Pids, NEW from, NEW to \in Starting \cup {"listening", "leaving"} \cup Ending,
         Goes(p, from, to), from \notin {"free", "other"}, unit' = unit,
         \/ sock' = sock /\ (from \in {"bound"} \cup Serving => to \in {"bound"} \cup Serving)
         \/ sock' = None
         \/ sock' = p /\ to = "bound"
  PROVE  /\ ProcTypes'
         /\ proc'[p] = to /\ \A q \in Pids \ {p} : proc'[q] = proc[q]
<1> USE LifecycleAssumption
<1>1. proc' = [proc EXCEPT ![p] = to] /\ proc[p] = from
  BY DEF Goes
<1>2. to \notin {"free", "other"}
  BY DEF Starting, Ending
<1> QED BY <1>1, <1>2 DEF ProcTypes, Gone

\* A process that is started.
LEMMA SpawnedTypes ==
  ASSUME ProcTypes, NEW p \in Free, NEW c, Spawned(p, c), sock' = sock,
         unit' = unit \/ unit' = p
  PROVE  /\ ProcTypes'
         /\ p \in Pids /\ proc[p] = "free"
         /\ proc'[p] = "boot" /\ \A q \in Pids \ {p} : proc'[q] = proc[q]
<1> USE LifecycleAssumption
<1>1. p \in Pids /\ proc[p] = "free"
  BY DEF Free
<1>2. proc' = [proc EXCEPT ![p] = "boot"]
  BY DEF Spawned
<1>3. sock # p
  BY <1>1 DEF ProcTypes, Serving
<1> QED BY <1>1, <1>2, <1>3 DEF ProcTypes, Starting

\* A process that is asked to end.
LEMMA TerminatedTypes ==
  ASSUME ProcTypes, NEW p \in Pids, NEW c, NEW u, u \in Watching \/ u = unit,
         proc[p] \notin {"free", "other"}, Terminated(p, c, u)
  PROVE  /\ ProcTypes'
         /\ \A q \in Pids \ {p} : proc'[q] = proc[q]
         /\ proc[p] = "listening" => proc'[p] = "ending" /\ sock' = sock
         /\ proc[p] \in Ending \cup {"leaving"} => proc'[p] = proc[p] /\ sock' = sock
         /\ \A q \in Pids : proc'[q] = "leaving" => proc[q] = "leaving"
         /\ Begins(c, p)
<1>1. CASE proc[p] \in Starting
  BY <1>1, ExitsTypes DEF Terminated, Starting, Ending
<1>2. CASE proc[p] \notin Starting
  <2>1. /\ proc' = [proc EXCEPT ![p] = IF @ = "listening" THEN "ending" ELSE @]
        /\ unit' = u /\ sock' = sock /\ Begins(c, p)
    BY <1>2 DEF Terminated
  <2>2. proc[p] \in {"listening", "leaving"} \cup Ending
    BY <1>2 DEF ProcTypes, Gone
  <2>3. u \in Pids => u = unit
    BY LifecycleAssumption DEF Watching
  <2> QED BY <2>1, <2>2, <2>3 DEF ProcTypes, Serving, Ending, Gone
<1> QED BY <1>1, <1>2

\* The manager terminates its process, if any.
LEMMA UnitTerminatedTypes ==
  ASSUME ProcTypes, NEW c, NEW u, u \in Watching \/ u = unit, UnitTerminated(c, u)
  PROVE  /\ ProcTypes'
         /\ \/ UNCHANGED <<proc, sock, races>>
            \/ /\ unit \in Pids /\ Terminated(unit, c, u)
<1>1. CASE unit \in Pids
  BY <1>1, TerminatedTypes DEF UnitTerminated, ProcTypes
<1>2. CASE unit \notin Pids
  BY <1>2, LifecycleAssumption DEF UnitTerminated, ProcTypes, Watching
<1> QED BY <1>1, <1>2

\* A start or stop that begins is counted.
LEMMA BeginsTypes ==
  ASSUME NEW c, NEW p, races \in 0..MaxUpsets, others \in Nat, Begins(c, p)
  PROVE  races' \in 0..MaxUpsets /\ (races' = 0 => races = 0 /\ ~Busy(c, p))
  BY LifecycleAssumption DEF Begins

\* A client goes to a place, perhaps with a number, or ends.
LEMMA CliTypes ==
  ASSUME cli \in [Clients -> CliType], NEW c \in Clients,
         \/ \E place \in Places : To(c, place)
         \/ Ends(c)
         \/ \E place \in Places, x \in Pids \cup {None} \cup Watching :
              cli' = [cli EXCEPT ![c].at = place, ![c].pid = x]
         \/ \E place \in Places, place2 \in Places :
              cli' = [cli EXCEPT ![c] = [at |-> place, pid |-> None, then |-> place2]]
  PROVE  /\ cli' \in [Clients -> CliType]
         /\ \A d \in Clients \ {c} : cli'[d] = cli[d]
<1>1. CASE \E place \in Places : To(c, place)
  <2>1. PICK place \in Places : cli' = [cli EXCEPT ![c].at = place]
    BY <1>1 DEF To
  <2>2. \A r \in CliType : [r EXCEPT !.at = place] \in CliType
    BY DEF CliType
  <2> QED BY <2>1, <2>2
<1>2. CASE Ends(c)
  <2>1. [Idle EXCEPT !.at = cli[c].then] \in CliType
    BY DEF CliType, Idle, Places
  <2> QED BY <1>2, <2>1 DEF Ends
<1>3. CASE \E place \in Places, x \in Pids \cup {None} \cup Watching :
             cli' = [cli EXCEPT ![c].at = place, ![c].pid = x]
  <2>1. PICK place \in Places, x \in Pids \cup {None} \cup Watching :
             cli' = [cli EXCEPT ![c].at = place, ![c].pid = x]
    BY <1>3
  <2>2. \A r \in CliType : [[r EXCEPT !.at = place] EXCEPT !.pid = x] \in CliType
    BY DEF CliType
  <2> QED BY <2>1, <2>2
<1>4. CASE \E place \in Places, place2 \in Places :
             cli' = [cli EXCEPT ![c] = [at |-> place, pid |-> None, then |-> place2]]
  <2>1. PICK place \in Places, place2 \in Places :
             cli' = [cli EXCEPT ![c] = [at |-> place, pid |-> None, then |-> place2]]
    BY <1>4
  <2>2. [at |-> place, pid |-> None, then |-> place2] \in CliType
    BY DEF CliType
  <2> QED BY <2>1, <2>2
<1> QED BY <1>1, <1>2, <1>3, <1>4

-----------------------------------------------------------------------------
(***************************************************************************)
(* The invariant.  OneDaemonWhenAlone is not inductive: it needs to know   *)
(* who may remove or replace the socket of a daemon that listens.          *)
(***************************************************************************)

Moving(p) == proc[p] \notin Gone \cup {"listening"}

\* Those that are about to bind, remove or have removed the socket.
Exclusive == {"unlinking", "binding", "bound", "ending", "unlinked"}

\* A daemon that listens has the socket; one at a time starts or ends, and is the
\* only one from the moment it has found nobody to answer.
Alone ==
  /\ \A p \in Pids : proc[p] = "listening" => sock = p
  /\ \A p, q \in Pids : Moving(p) /\ Moving(q) => p = q
  /\ \A p \in Pids : proc[p] \in Exclusive => \A q \in Pids \ {p} : proc[q] \in Gone
  /\ \A p \in Pids : proc[p] = "bound" => sock = p

\* One client at a time ends a stop, and the daemon it waits for is the only
\* one, ending, with its number still in the pid file.
ClosedAlone ==
  /\ \A c, d \in Clients : Closing(c) /\ Closing(d) => c = d
  /\ \A c \in Clients, p \in Pids : Closing(c) /\ proc[p] \notin Gone =>
       /\ cli[c].at = "terming" /\ p = cli[c].pid
       /\ p = pidFile /\ proc[p] \in Ending

LifecycleInv ==
  TypeOK /\ Named /\ Written /\ (races = 0 /\ ~mistaken => Alone /\ ClosedAlone)

\* At the start there is no process.
LEMMA LifecycleInvInit == Init => LifecycleInv
<1> SUFFICES ASSUME Init PROVE LifecycleInv
  OBVIOUS
<1> USE LifecycleAssumption DEF Init
<1>1. TypeOK
  <2>1. ProcTypes
    BY DEF ProcTypes, Watching, Gone
  <2>2. cli \in [Clients -> CliType]
    BY DEF CliType, Idle, Places
  <2>3. races \in 0..MaxUpsets
    OBVIOUS
  <2> QED BY <2>1, <2>2, <2>3, TypesAre
<1>2. Named /\ Written
  BY DEF Named, Written, Idle, Closings
<1>3. Alone /\ ClosedAlone
  BY DEF Alone, ClosedAlone, Moving, Exclusive, Closing, Closings, Idle, Gone
<1> QED BY <1>1, <1>2, <1>3 DEF LifecycleInv

\* Nothing happens to the processes and the socket.
LEMMA SameAlone ==
  ASSUME Alone, UNCHANGED <<proc, sock>>
  PROVE  Alone'
  BY DEF Alone, Moving

\* A process ends.
LEMMA ExitsAlone ==
  ASSUME ProcTypes, NEW p \in Pids, NEW failed, NEW u, Exits(p, failed, u)
  PROVE  /\ proc'[p] = "free" /\ \A q \in Pids \ {p} : proc'[q] = proc[q]
         /\ Alone => Alone'
<1>1. /\ proc' = [proc EXCEPT ![p] = "free"]
      /\ sock' = IF sock = p THEN Stale ELSE sock
  BY DEF Exits
<1>2. proc'[p] = "free" /\ \A q \in Pids \ {p} : proc'[q] = proc[q]
  BY <1>1 DEF ProcTypes
<1> QED BY <1>1, <1>2 DEF Alone, Moving, Exclusive, Gone

\* A process starts where nothing was going on.
LEMMA SpawnedAlone ==
  ASSUME ProcTypes, Alone, NEW p \in Free, NEW c, ~Busy(c, p), Spawned(p, c), sock' = sock
  PROVE  Alone'
<1>1. p \in Pids /\ proc' = [proc EXCEPT ![p] = "boot"]
  BY DEF Free, Spawned
<1>2. proc'[p] = "boot" /\ \A q \in Pids \ {p} : proc'[q] = proc[q]
  BY <1>1 DEF ProcTypes
<1>3. \A q \in Pids : ~Moving(q)
  BY DEF Busy, Moving, Free, Ending, Gone
<1> QED BY <1>1, <1>2, <1>3 DEF Alone, Moving, Exclusive, Gone

\* A process is asked to end where nothing else was going on: unless it is on its
\* way out, it is the only one.
LEMMA TerminatedAlone ==
  ASSUME ProcTypes, Alone, NEW p \in Pids, NEW c, NEW u, u \in Watching \/ u = unit,
         proc[p] \notin {"free", "other"}, ~Busy(c, p), Terminated(p, c, u)
  PROVE  /\ Alone'
         /\ proc[p] # "leaving" =>
              proc'[p] \in Ending /\ \A q \in Pids \ {p} : proc'[q] \in Gone
<1>1. \/ proc[p] \in {"listening", "leaving"} /\ \A q \in Pids : ~Moving(q)
      \/ proc[p] \in Ending
  BY DEF Busy, Moving, Gone
<1>2. CASE proc[p] = "listening" /\ \A q \in Pids : ~Moving(q)
  <2>1. /\ proc'[p] = "ending" /\ sock' = sock
        /\ \A q \in Pids \ {p} : proc'[q] = proc[q]
    BY <1>2, TerminatedTypes
  <2>2. \A q \in Pids \ {p} : proc[q] \in Gone
    BY <1>2 DEF Alone, Moving
  <2> QED BY <2>1, <2>2 DEF Alone, Moving, Exclusive, Gone, Ending
<1>3. CASE proc[p] \in Ending \cup {"leaving"}
  <2>1. sock' = sock /\ \A q \in Pids : proc'[q] = proc[q]
    BY <1>3, TerminatedTypes
  <2>2. proc[p] # "leaving" => \A q \in Pids \ {p} : proc[q] \in Gone
    BY <1>3 DEF Alone, Ending, Exclusive
  <2> QED BY <1>3, <2>1, <2>2 DEF Alone, Moving
<1> QED BY <1>1, <1>2, <1>3

\* Nobody else is at the end of a stop while a start or stop may begin.
LEMMA NotBusy ==
  ASSUME NEW c, NEW p, ~Busy(c, p)
  PROVE  \A d \in Clients \ {c} : ~Closing(d)
  BY DEF Busy, Closing, Closings, Stopping

\* Processes only end, or the one that ends goes on.
LEMMA ClosedDaemon ==
  ASSUME ClosedAlone, cli' = cli,
         (\E c \in Clients : Closing(c)) =>
           \A p \in Pids : proc'[p] \notin Gone =>
             /\ proc[p] \notin Gone /\ pidFile' = pidFile
             /\ proc'[p] \in Ending
  PROVE  ClosedAlone'
  BY DEF ClosedAlone, Closing

\* A client that does not end a stop moves, and processes only end.
LEMMA ClosedClient ==
  ASSUME ClosedAlone, NEW c \in Clients, \A d \in Clients \ {c} : cli'[d] = cli[d],
         cli'[c].at \notin Closings, UNCHANGED <<proc, pidFile>>
  PROVE  ClosedAlone'
  BY DEF ClosedAlone, Closing

\* Nobody but RemovesPid leaves, and the pid file is not written.
LEMMA WrittenAfter ==
  ASSUME Written, pidFile' \in {pidFile, None},
         \A q \in Pids : proc'[q] = "leaving" => proc[q] = "leaving"
  PROVE  Written'
  BY LifecycleAssumption DEF Written

-----------------------------------------------------------------------------
(***************************************************************************)
(* The steps of a daemon.                                                  *)
(***************************************************************************)

\* Where a daemon is, is a place of its own.
LEMMA DaemonStepInv ==
  ASSUME LifecycleInv, NEW p \in Pids, DaemonStep(p) \/ Dies(p)
  PROVE  LifecycleInv'
<1> USE DEF LifecycleInv
<1>1. /\ ProcTypes /\ pidFile \in Pids \cup {None} /\ manager \in Managers
      /\ cli \in [Clients -> CliType] /\ kills \in Nat /\ orders \in Nat
      /\ others \in Nat /\ mistaken \in BOOLEAN /\ races \in 0..MaxUpsets
  BY TypesAre
<1>2. UNCHANGED <<cli, manager, orders, others, mistaken, races>>
  BY DEF DaemonStep, Dies, WritesPid, LooksForSocket, Connects, RemovesStale, Binds, Listens,
         RemovesSocket, RemovesPid, Leaves, counts, files
<1>3. Named'
  BY <1>2 DEF Named
<1>4. kills' \in Nat
  <2>1. CASE DaemonStep(p)
    <3>1. kills' = kills
      BY <2>1 DEF DaemonStep, WritesPid, LooksForSocket, Connects, RemovesStale, Binds, Listens,
                  RemovesSocket, RemovesPid, Leaves, counts
    <3> QED BY <1>1, <3>1
  <2>2. CASE Dies(p)
    <3>1. kills' = kills + 1
      BY <2>2 DEF Dies
    <3> QED BY <1>1, <3>1
  <2> QED BY <2>1, <2>2
\* What each step says of the processes: p ends, or it goes on.
<1>5. \/ \E failed : Exits(p, failed, unit) /\ pidFile' = pidFile
      \/ /\ Goes(p, "boot", "looking") /\ pidFile' = p /\ UNCHANGED <<sock, unit>>
      \/ /\ Goes(p, "looking", "binding") /\ sock = None /\ UNCHANGED <<sock, unit, pidFile>>
      \/ /\ Goes(p, "looking", "connecting") /\ UNCHANGED <<sock, unit, pidFile>>
      \/ /\ Goes(p, "connecting", "unlinking") /\ ~Answers /\ UNCHANGED <<sock, unit, pidFile>>
      \/ /\ Goes(p, "unlinking", "binding") /\ sock' = None /\ UNCHANGED <<unit, pidFile>>
      \/ /\ Goes(p, "binding", "bound") /\ sock' = p /\ UNCHANGED <<unit, pidFile>>
      \/ /\ Goes(p, "bound", "listening") /\ UNCHANGED <<sock, unit, pidFile>>
      \/ /\ Goes(p, "ending", "unlinked") /\ sock' = None /\ UNCHANGED <<unit, pidFile>>
      \/ /\ Goes(p, "unlinked", "leaving") /\ pidFile' = None /\ UNCHANGED <<sock, unit>>
  <2>1. CASE WritesPid(p) \/ LooksForSocket(p)
    BY <2>1 DEF WritesPid, LooksForSocket, files
  <2>2. CASE Connects(p) \/ RemovesStale(p)
    BY <2>2 DEF Connects, RemovesStale
  <2>3. CASE Binds(p) \/ Listens(p)
    BY <2>3 DEF Binds, Listens, files
  <2>4. CASE RemovesSocket(p) \/ RemovesPid(p) \/ Leaves(p)
    BY <2>4 DEF RemovesSocket, RemovesPid, Leaves
  <2>5. CASE Dies(p)
    BY <2>5 DEF Dies
  <2> QED BY <2>1, <2>2, <2>3, <2>4, <2>5 DEF DaemonStep
<1>6. ASSUME NEW failed, Exits(p, failed, unit), pidFile' = pidFile
      PROVE  LifecycleInv'
  <2>1. ProcTypes' /\ proc'[p] = "free" /\ \A q \in Pids \ {p} : proc'[q] = proc[q]
    BY <1>1, <1>6, ExitsTypes
  <2>2. TypeOK'
    BY <1>1, <1>2, <1>4, <1>6, <2>1, TypesAreNext
  <2>3. Written'
    BY <1>6, <2>1, WrittenAfter
  <2>4. Alone => Alone'
    BY <1>1, <1>6, ExitsAlone
  <2>5. ClosedAlone => ClosedAlone'
    BY <1>2, <1>6, <2>1, ClosedDaemon DEF ClosedAlone, Gone
  <2> QED BY <1>2, <1>3, <2>2, <2>3, <2>4, <2>5
<1>7. CASE ~\E failed : Exits(p, failed, unit) /\ pidFile' = pidFile
  <2>1. PICK from, to :
          /\ Goes(p, from, to) /\ unit' = unit
          /\ \/ from = "boot" /\ to = "looking" /\ sock' = sock
             \/ from = "looking" /\ to = "binding" /\ sock = None /\ sock' = sock
             \/ from = "looking" /\ to = "connecting" /\ sock' = sock
             \/ from = "connecting" /\ to = "unlinking" /\ ~Answers /\ sock' = sock
             \/ from = "unlinking" /\ to = "binding" /\ sock' = None
             \/ from = "binding" /\ to = "bound" /\ sock' = p
             \/ from = "bound" /\ to = "listening" /\ sock' = sock
             \/ from = "ending" /\ to = "unlinked" /\ sock' = None /\ pidFile' = pidFile
             \/ from = "unlinked" /\ to = "leaving" /\ sock' = sock
          /\ IF to = "leaving" THEN pidFile' = None
             ELSE pidFile' = pidFile \/ (pidFile' = p)
    BY <1>5, <1>7
  <2>2. ProcTypes' /\ proc'[p] = to /\ \A q \in Pids \ {p} : proc'[q] = proc[q]
    <3>1. /\ to \in Starting \cup {"listening", "leaving"} \cup Ending
          /\ from \notin {"free", "other"}
      BY <2>1 DEF Starting, Ending
    <3> QED BY <1>1, <2>1, <3>1, GoesTypes DEF Serving
  <2>3. TypeOK'
    BY <1>1, <1>2, <1>4, <2>1, <2>2, TypesAreNext
  <2>4. proc[p] = from
    BY <2>1 DEF Goes
  <2>5. Written'
    BY <2>1, <2>2, LifecycleAssumption DEF Written
  <2>6. Alone => Alone'
    <3> SUFFICES ASSUME Alone PROVE Alone'
      OBVIOUS
    <3>1. Moving(p) /\ \A q \in Pids \ {p} : ~Moving(q)
      BY <2>1, <2>4 DEF Alone, Moving, Gone
    <3>2. to \in Exclusive \cup {"listening", "leaving"} =>
            \A q \in Pids \ {p} : proc[q] \in Gone
      BY <1>1, <2>1, <2>4, <3>1, LifecycleAssumption DEF Alone, Exclusive, Moving, Answers, Serving
    <3>3. \A q \in Pids \ {p} : proc'[q] \in Gone \cup {"listening"} /\ proc'[q] = proc[q]
      BY <2>2, <3>1 DEF Moving
    <3>4. \A q \in Pids : proc'[q] = "listening" => sock' = q
      BY <2>1, <2>2, <2>4, <3>2, <3>3 DEF Alone, Exclusive, Gone
    <3> QED BY <2>1, <2>2, <2>4, <3>2, <3>3, <3>4 DEF Alone, Moving, Exclusive, Gone
  <2>7. Alone /\ ClosedAlone => ClosedAlone'
    <3> SUFFICES ASSUME Alone, ClosedAlone PROVE ClosedAlone'
      OBVIOUS
    <3>1. CASE to = "leaving"
      <4>1. \A q \in Pids : proc'[q] \in Gone
        BY <2>1, <2>2, <2>4, <3>1 DEF Alone, Exclusive, Gone
      <4> QED BY <1>2, <4>1, ClosedDaemon
    <3>2. CASE to # "leaving"
      <4>1. ASSUME NEW c \in Clients, Closing(c), NEW q \in Pids, proc'[q] \notin Gone
            PROVE  proc[q] \notin Gone /\ pidFile' = pidFile /\ proc'[q] \in Ending
        <5>1. proc[p] \notin Gone
          BY <2>1, <2>4 DEF Gone
        <5>2. from \in Ending
          BY <2>4, <4>1, <5>1 DEF ClosedAlone
        <5>3. from = "ending" /\ to = "unlinked" /\ pidFile' = pidFile
          BY <2>1, <3>2, <5>2 DEF Ending
        <5> QED BY <2>2, <4>1, <5>1, <5>3 DEF ClosedAlone, Ending
      <4> QED BY <1>2, <4>1, ClosedDaemon
    <3> QED BY <3>1, <3>2
  <2> QED BY <1>2, <1>3, <2>3, <2>5, <2>6, <2>7
<1> QED BY <1>6, <1>7

\* Other programs come and go where no daemon is.
LEMMA OtherInv ==
  ASSUME LifecycleInv, NEW p \in Pids, OtherStarts(p) \/ OtherEnds(p)
  PROVE  LifecycleInv'
<1> USE DEF LifecycleInv
<1>1. /\ ProcTypes /\ pidFile \in Pids \cup {None} /\ manager \in Managers
      /\ cli \in [Clients -> CliType] /\ kills \in Nat /\ orders \in Nat
      /\ others \in Nat /\ mistaken \in BOOLEAN /\ races \in 0..MaxUpsets
  BY TypesAre
<1>2. UNCHANGED <<sock, pidFile, manager, unit, cli, kills, orders, mistaken, races>>
  BY DEF OtherStarts, OtherEnds, files, counts
<1>3. others' \in Nat
  <2>1. others' = others \/ others' = others + 1
    BY DEF OtherStarts, OtherEnds, counts
  <2> QED BY <1>1, <2>1
<1>4. PICK to \in {"free", "other"} :
        proc[p] \in {"free", "other"} /\ proc' = [proc EXCEPT ![p] = to]
  BY DEF OtherStarts, OtherEnds, Goes
<1>5. proc'[p] = to /\ \A q \in Pids \ {p} : proc'[q] = proc[q]
  BY <1>1, <1>4 DEF ProcTypes
<1>6. ProcTypes'
  BY <1>1, <1>2, <1>4, <1>5 DEF ProcTypes, Gone, Serving
<1>7. TypeOK' /\ Named'
  BY <1>1, <1>2, <1>3, <1>6, TypesAreNext DEF Named
<1>8. Written'
  BY <1>2, <1>4, <1>5, WrittenAfter
<1>9. Alone => Alone'
  BY <1>2, <1>4, <1>5 DEF Alone, Moving, Exclusive, Gone
<1>10. ClosedAlone => ClosedAlone'
  BY <1>2, <1>4, <1>5, ClosedDaemon DEF ClosedAlone, Gone
<1> QED BY <1>2, <1>7, <1>8, <1>9, <1>10

\* The manager starts its unit.
LEMMA UnitStartsInv ==
  ASSUME LifecycleInv, UnitStarts
  PROVE  LifecycleInv'
<1> USE DEF LifecycleInv
<1>1. /\ ProcTypes /\ pidFile \in Pids \cup {None} /\ manager \in Managers
      /\ cli \in [Clients -> CliType] /\ kills \in Nat /\ orders \in Nat
      /\ others \in Nat /\ mistaken \in BOOLEAN /\ races \in 0..MaxUpsets
  BY TypesAre
<1>2. PICK p \in Free : Spawned(p, None) /\ unit' = p
  BY DEF UnitStarts
<1>3. UNCHANGED <<sock, pidFile, manager, cli, kills, orders, others, mistaken>>
  BY DEF UnitStarts, files, counts
<1>4. ProcTypes' /\ \A q \in Pids : proc'[q] = "leaving" => proc[q] = "leaving"
  BY <1>1, <1>2, <1>3, SpawnedTypes
<1>5. races' \in 0..MaxUpsets /\ (races' = 0 => races = 0 /\ ~Busy(None, p))
  BY <1>1, <1>2, BeginsTypes DEF Spawned
<1>6. TypeOK' /\ Named'
  BY <1>1, <1>3, <1>4, <1>5, TypesAreNext DEF Named
<1>7. Written'
  BY <1>3, <1>4, WrittenAfter
<1>8. ASSUME races' = 0, ~mistaken' PROVE Alone' /\ ClosedAlone'
  <2>1. Alone'
    BY <1>1, <1>2, <1>3, <1>5, <1>8, SpawnedAlone
  <2>2. \A d \in Clients : ~Closing(d)
    BY <1>5, <1>8, NotBusy, LifecycleAssumption
  <2> QED BY <1>3, <2>1, <2>2 DEF ClosedAlone, Closing
<1> QED BY <1>6, <1>7, <1>8

-----------------------------------------------------------------------------
(***************************************************************************)
(* The steps of a client.                                                  *)
(***************************************************************************)

\* A client that moves to a place outside a stop's end, with no number that
\* matters, keeps the names right.
LEMMA NamedAfter ==
  ASSUME Named, NEW c \in Clients, \A d \in Clients \ {c} : cli'[d] = cli[d],
         cli'[c].at # "terming" \/ cli'[c].pid \in Pids,
         cli'[c].then \notin Closings
  PROVE  Named'
  BY DEF Named

\* A client that moves without touching a process, its socket or the pid file.
LEMMA OnlyClient ==
  ASSUME LifecycleInv, NEW c \in Clients, cli' \in [Clients -> CliType],
         \A d \in Clients \ {c} : cli'[d] = cli[d],
         cli'[c].at \notin Closings, cli'[c].then \notin Closings,
         UNCHANGED <<proc, sock, pidFile, manager, kills, others, mistaken, races>>,
         orders' \in Nat, unit' = unit \/ unit' \in Watching
  PROVE  LifecycleInv'
<1> USE DEF LifecycleInv
<1>1. /\ ProcTypes /\ pidFile \in Pids \cup {None} /\ manager \in Managers
      /\ kills \in Nat /\ others \in Nat /\ mistaken \in BOOLEAN /\ races \in 0..MaxUpsets
  BY TypesAre
<1>2. ProcTypes'
  BY <1>1, LifecycleAssumption DEF ProcTypes, Watching
<1>3. TypeOK'
  BY <1>1, <1>2, TypesAreNext
<1>4. Named' /\ Written'
  BY NamedAfter, WrittenAfter DEF Closings
<1>5. races = 0 /\ ~mistaken => Alone' /\ ClosedAlone'
  BY SameAlone, ClosedClient
<1> QED BY <1>3, <1>4, <1>5

\* A client that moves where a start or a stop may begin.
LEMMA BeginningClient ==
  ASSUME LifecycleInv, NEW c \in Clients, cli' \in [Clients -> CliType],
         \A d \in Clients \ {c} : cli'[d] = cli[d],
         cli'[c].at \notin Closings, cli'[c].then \notin Closings,
         UNCHANGED <<pidFile, manager, kills, orders, others, mistaken>>,
         ProcTypes', \A q \in Pids : proc'[q] = "leaving" => proc[q] = "leaving",
         races' \in 0..MaxUpsets,
         NEW p, races' = 0 => races = 0 /\ ~Busy(c, p),
         races' = 0 /\ ~mistaken => Alone'
  PROVE  LifecycleInv'
<1> USE DEF LifecycleInv
<1>1. /\ pidFile \in Pids \cup {None} /\ manager \in Managers
      /\ kills \in Nat /\ orders \in Nat /\ others \in Nat /\ mistaken \in BOOLEAN
  BY TypesAre
<1>2. TypeOK'
  BY <1>1, TypesAreNext
<1>3. Named' /\ Written'
  BY NamedAfter, WrittenAfter DEF Closings
<1>4. races' = 0 => ClosedAlone'
  <2> SUFFICES ASSUME races' = 0 PROVE \A d \in Clients : ~Closing(d)'
    BY DEF ClosedAlone
  <2> QED BY NotBusy DEF Closing
<1> QED BY <1>2, <1>3, <1>4

\* The same where the manager is asked to end its process, if it has one.
LEMMA AskingClient ==
  ASSUME LifecycleInv, NEW c \in Clients, cli' \in [Clients -> CliType],
         \A d \in Clients \ {c} : cli'[d] = cli[d],
         cli'[c].at \notin Closings, cli'[c].then \notin Closings,
         UNCHANGED <<pidFile, manager, kills, orders, others, mistaken>>,
         NEW u, u \in Watching \/ u = unit, UnitTerminated(c, u)
  PROVE  LifecycleInv'
<1> USE DEF LifecycleInv
<1>1. ProcTypes /\ races \in 0..MaxUpsets /\ orders \in Nat /\ others \in Nat
  BY TypesAre
<1>2. CASE unit \notin Pids
  <2>1. unit' = u /\ UNCHANGED <<proc, sock, races>>
    BY <1>2 DEF UnitTerminated
  <2> QED BY <1>1, <2>1, OnlyClient
<1>3. CASE unit \in Pids
  <2>1. Terminated(unit, c, u) /\ proc[unit] \notin {"free", "other"}
    BY <1>1, <1>3 DEF UnitTerminated, ProcTypes
  <2>2. /\ ProcTypes' /\ Begins(c, unit)
        /\ \A q \in Pids : proc'[q] = "leaving" => proc[q] = "leaving"
    BY <1>1, <1>3, <2>1, TerminatedTypes
  <2>3. races' \in 0..MaxUpsets /\ (races' = 0 => races = 0 /\ ~Busy(c, unit))
    BY <1>1, <2>2, BeginsTypes
  <2>4. races' = 0 /\ ~mistaken => Alone'
    BY <1>1, <1>3, <2>1, <2>3, TerminatedAlone
  <2> QED BY <2>2, <2>3, <2>4, BeginningClient
<1> QED BY <1>2, <1>3

\* A client that waits for the process it has signalled, or removes the files
\* behind it; the others are not at the end of a stop.
LEMMA ClosingClient ==
  ASSUME LifecycleInv, NEW c \in Clients, cli' \in [Clients -> CliType],
         \A d \in Clients \ {c} : cli'[d] = cli[d],
         cli'[c].at \in {"rmpid", "rmsock"}, cli'[c].then = cli[c].then, Closing(c),
         ProcTypes', \A q \in Pids : proc'[q] = "leaving" => proc[q] = "leaving",
         pidFile' \in {pidFile, None},
         UNCHANGED <<manager, kills, orders, others, mistaken, races>>,
         Alone /\ ClosedAlone => Alone' /\ \A p \in Pids : proc'[p] \in Gone
  PROVE  LifecycleInv'
<1> USE DEF LifecycleInv
<1>1. /\ pidFile \in Pids \cup {None} /\ manager \in Managers
      /\ kills \in Nat /\ orders \in Nat /\ others \in Nat /\ mistaken \in BOOLEAN
      /\ races \in 0..MaxUpsets
  BY TypesAre
<1>2. TypeOK'
  BY <1>1, TypesAreNext
<1>3. Named' /\ Written'
  BY WrittenAfter DEF Named
<1>4. races' = 0 /\ ~mistaken => Alone' /\ ClosedAlone'
  <2> SUFFICES ASSUME races' = 0, ~mistaken PROVE Alone' /\ ClosedAlone'
    OBVIOUS
  <2>1. Alone' /\ \A p \in Pids : proc'[p] \in Gone
    OBVIOUS
  <2>2. \A d \in Clients \ {c} : ~Closing(d)
    BY DEF ClosedAlone
  <2>3. \A d \in Clients \ {c} : ~Closing(d)'
    BY <2>2 DEF Closing
  <2> QED BY <2>1, <2>3 DEF ClosedAlone
<1> QED BY <1>2, <1>3, <1>4

\* StopSignals: the daemon it signals is the only one, and ends; or it is no daemon.
LEMMA StopSignalsInv ==
  ASSUME LifecycleInv, NEW c \in Clients, StopSignals(c)
  PROVE  LifecycleInv'
<1> USE DEF LifecycleInv
<1>1. /\ ProcTypes /\ pidFile \in Pids \cup {None} /\ manager \in Managers
      /\ cli \in [Clients -> CliType] /\ kills \in Nat /\ orders \in Nat
      /\ others \in Nat /\ mistaken \in BOOLEAN /\ races \in 0..MaxUpsets
  BY TypesAre
<1>2. UNCHANGED <<pidFile, manager, kills, orders, others>>
  BY DEF StopSignals
<1>3. CASE ~IsRunning
  <2>1. Ends(c) /\ UNCHANGED <<proc, sock, unit, races, mistaken>>
    BY <1>3 DEF StopSignals
  <2>2. /\ cli' \in [Clients -> CliType]
        /\ \A d \in Clients \ {c} : cli'[d] = cli[d]
    BY <1>1, <2>1, CliTypes
  <2>3. cli'[c].at = cli[c].then /\ cli'[c].then = "idle"
    BY <1>1, <2>1 DEF Ends, Idle
  <2>4. cli'[c].at \notin Closings /\ cli'[c].then \notin Closings
    BY <2>3 DEF Named, Closings
  <2> QED BY <1>1, <1>2, <2>1, <2>2, <2>4, OnlyClient
<1>4. CASE IsRunning
  <2>1. cli' = [cli EXCEPT ![c].at = "terming", ![c].pid = pidFile]
    BY <1>4 DEF StopSignals
  <2>2. pidFile \in Pids /\ proc[pidFile] \notin {"free", "leaving"}
    BY <1>1, <1>4 DEF IsRunning, Written
  <2>3. /\ cli' \in [Clients -> CliType]
        /\ \A d \in Clients \ {c} : cli'[d] = cli[d]
    BY <1>1, <2>1, <2>2, CliTypes DEF Places, Stopping
  <2>4. cli'[c].at = "terming" /\ cli'[c].pid = pidFile /\ cli'[c].then = cli[c].then
    BY <1>1, <2>1 DEF CliType
  <2>5. Named'
    BY <2>2, <2>3, <2>4, NamedAfter DEF Named
  <2>6. CASE proc[pidFile] = "other"
    <3>1. Mistakes(c)
      BY <1>4, <2>6 DEF StopSignals
    <3>2. ASSUME NEW q \in Pids
          PROVE  proc'[q] = proc[q] \/ (proc'[q] = "free" /\ proc[q] = "other")
      <4>1. CASE proc' = proc
        BY <4>1
      <4>2. CASE proc' = [proc EXCEPT ![pidFile] = "free"]
        BY <1>1, <2>2, <2>6, <4>2 DEF ProcTypes
      <4> QED BY <3>1, <4>1, <4>2 DEF Mistakes
    <3>3. ProcTypes'
      <4>1. proc' \in [Pids -> Gone \cup Starting \cup {"listening"} \cup Ending]
        BY <1>1, <2>2, <3>1 DEF Mistakes, ProcTypes, Gone
      <4> QED BY <1>1, <3>1, <3>2, <4>1 DEF Mistakes, ProcTypes, Serving
    <3>4. races' \in 0..MaxUpsets
      BY <1>1, <3>1, BeginsTypes DEF Mistakes
    <3>5. mistaken' = TRUE
      BY <3>1 DEF Mistakes
    <3>6. TypeOK'
      BY <1>1, <1>2, <2>3, <3>3, <3>4, <3>5, TypesAreNext
    <3>7. Written'
      BY <1>2, <3>2, WrittenAfter
    <3> QED BY <2>5, <3>5, <3>6, <3>7
  <2>7. CASE proc[pidFile] # "other"
    <3>1. Terminated(pidFile, c, unit) /\ mistaken' = mistaken
      BY <1>4, <2>7 DEF StopSignals
    <3>2. /\ ProcTypes' /\ Begins(c, pidFile)
          /\ \A q \in Pids : proc'[q] = "leaving" => proc[q] = "leaving"
      BY <1>1, <2>2, <2>7, <3>1, TerminatedTypes
    <3>3. races' \in 0..MaxUpsets /\ (races' = 0 => races = 0 /\ ~Busy(c, pidFile))
      BY <1>1, <3>2, BeginsTypes
    <3>4. TypeOK'
      BY <1>1, <1>2, <2>3, <3>1, <3>2, <3>3, TypesAreNext
    <3>5. Written'
      BY <1>2, <3>2, WrittenAfter
    <3>6. ASSUME races' = 0, ~mistaken PROVE Alone' /\ ClosedAlone'
      <4>1. /\ Alone' /\ proc'[pidFile] \in Ending
            /\ \A q \in Pids \ {pidFile} : proc'[q] \in Gone
        BY <1>1, <2>2, <2>7, <3>1, <3>3, <3>6, TerminatedAlone
      <4>2. \A d \in Clients \ {c} : ~Closing(d)
        BY <3>3, <3>6, NotBusy
      <4>3. \A d \in Clients \ {c} : ~Closing(d)'
        BY <2>3, <4>2 DEF Closing
      <4> QED BY <1>2, <2>4, <4>1, <4>3 DEF ClosedAlone
    <3> QED BY <2>5, <3>1, <3>4, <3>5, <3>6
  <2> QED BY <2>6, <2>7
<1> QED BY <1>3, <1>4

\* StopKills: if the number in the pid file is still that of a process, it is
\* the one that was signalled.
LEMMA StopKillsInv ==
  ASSUME LifecycleInv, NEW c \in Clients, StopKills(c)
  PROVE  LifecycleInv'
<1> USE DEF LifecycleInv
<1>1. /\ ProcTypes /\ pidFile \in Pids \cup {None} /\ cli \in [Clients -> CliType]
  BY TypesAre
<1>2. To(c, "rmpid") /\ UNCHANGED <<pidFile, manager, kills, orders, others, mistaken, races>>
  BY DEF StopKills, counts
<1>3. /\ cli' \in [Clients -> CliType]
      /\ \A d \in Clients \ {c} : cli'[d] = cli[d]
  BY <1>1, <1>2, CliTypes DEF Places, Stopping
<1>4. cli'[c].at = "rmpid" /\ cli'[c].then = cli[c].then
  BY <1>1, <1>2 DEF To, CliType
<1>5. Closing(c) /\ cli[c].pid \in Pids
  BY DEF StopKills, At, Closing, Closings, Named
<1>6. CASE IsRunning /\ proc[cli[c].pid] # "free"
  <2>1. Exits(cli[c].pid, TRUE, unit)
    BY <1>6 DEF StopKills
  <2>2. ProcTypes'
    BY <1>1, <1>5, <2>1, ExitsTypes
  <2>3. /\ Alone => Alone'
        /\ proc'[cli[c].pid] = "free" /\ \A q \in Pids \ {cli[c].pid} : proc'[q] = proc[q]
    BY <1>1, <1>5, <2>1, ExitsAlone
  <2>4. ClosedAlone => \A p \in Pids : proc'[p] \in Gone
    BY <1>5, <2>3 DEF ClosedAlone, Gone
  <2>5. \A q \in Pids : proc'[q] = "leaving" => proc[q] = "leaving"
    BY <2>3
  <2> QED BY <1>1, <1>2, <1>3, <1>4, <1>5, <2>2, <2>3, <2>4, <2>5, ClosingClient
<1>7. CASE ~(IsRunning /\ proc[cli[c].pid] # "free")
  <2>1. UNCHANGED <<proc, sock, unit>>
    BY <1>7 DEF StopKills
  <2>2. ProcTypes'
    BY <1>1, <2>1 DEF ProcTypes
  <2>3. Alone => Alone'
    BY <2>1, SameAlone
  <2>4. ClosedAlone => \A p \in Pids : proc'[p] \in Gone
    BY <1>5, <1>7, <2>1, LifecycleAssumption DEF ClosedAlone, Gone, IsRunning
  <2> QED BY <1>1, <1>2, <1>3, <1>4, <1>5, <2>1, <2>2, <2>3, <2>4, ClosingClient
<1> QED BY <1>6, <1>7

\* StopRemovesPid and StopRemovesSocket find no daemon.
LEMMA StopRemovesInv ==
  ASSUME LifecycleInv, NEW c \in Clients, StopRemovesPid(c) \/ StopRemovesSocket(c)
  PROVE  LifecycleInv'
<1> USE DEF LifecycleInv
<1>1. /\ ProcTypes /\ pidFile \in Pids \cup {None} /\ manager \in Managers
      /\ cli \in [Clients -> CliType] /\ kills \in Nat /\ orders \in Nat
      /\ others \in Nat /\ mistaken \in BOOLEAN /\ races \in 0..MaxUpsets
  BY TypesAre
<1>2. Closing(c) /\ cli[c].at # "terming"
  BY DEF StopRemovesPid, StopRemovesSocket, At, Closing, Closings
<1>3. ClosedAlone => \A p \in Pids : proc[p] \in Gone
  BY <1>2 DEF ClosedAlone
<1>4. UNCHANGED <<proc, manager, unit, kills, orders, others, mistaken, races>>
  BY DEF StopRemovesPid, StopRemovesSocket, counts
<1>5. CASE StopRemovesPid(c)
  <2>1. To(c, "rmsock") /\ pidFile' = None /\ sock' = sock
    BY <1>5 DEF StopRemovesPid
  <2>2. /\ cli' \in [Clients -> CliType]
        /\ \A d \in Clients \ {c} : cli'[d] = cli[d]
    BY <1>1, <2>1, CliTypes DEF Places, Stopping
  <2>3. cli'[c].at = "rmsock" /\ cli'[c].then = cli[c].then
    BY <1>1, <2>1 DEF To, CliType
  <2>4. ProcTypes'
    BY <1>1, <1>4, <2>1 DEF ProcTypes
  <2>5. Alone /\ ClosedAlone => Alone' /\ \A p \in Pids : proc'[p] \in Gone
    BY <1>3, <1>4, <2>1, SameAlone
  <2> QED BY <1>2, <1>4, <2>1, <2>2, <2>3, <2>4, <2>5, ClosingClient
<1>6. CASE StopRemovesSocket(c)
  <2>1. Ends(c) /\ sock' = None /\ pidFile' = pidFile
    BY <1>6 DEF StopRemovesSocket
  <2>2. /\ cli' \in [Clients -> CliType]
        /\ \A d \in Clients \ {c} : cli'[d] = cli[d]
    BY <1>1, <2>1, CliTypes
  <2>3. cli'[c].at = cli[c].then /\ cli'[c].then = "idle"
    BY <1>1, <2>1 DEF Ends, Idle
  <2>4. cli'[c].at \notin Closings /\ cli'[c].then \notin Closings
    BY <2>3 DEF Named, Closings
  <2>5. ProcTypes'
    BY <1>1, <1>4, <2>1, LifecycleAssumption DEF ProcTypes
  <2>6. TypeOK'
    BY <1>1, <1>4, <2>1, <2>2, <2>5, TypesAreNext
  <2>7. Named' /\ Written'
    BY <1>4, <2>1, <2>2, <2>4, NamedAfter, WrittenAfter DEF Closings
  <2>8. ASSUME races' = 0, ~mistaken' PROVE Alone' /\ ClosedAlone'
    <3>1. \A p \in Pids : proc'[p] \in Gone
      BY <1>3, <1>4, <2>8
    <3>2. \A d \in Clients \ {c} : ~Closing(d)
      BY <1>2, <1>4, <2>8 DEF ClosedAlone
    <3>3. \A d \in Clients : ~Closing(d)'
      BY <2>2, <2>4, <3>2 DEF Closing
    <3> QED BY <3>1, <3>3 DEF Alone, Moving, Exclusive, ClosedAlone, Gone
  <2> QED BY <2>6, <2>7, <2>8
<1> QED BY <1>5, <1>6

\* The steps of a client that start no process, end none and remove no file.
LEMMA QuietClientInv ==
  ASSUME LifecycleInv, NEW c \in Clients,
         ShellOpens(c) \/ UserOrders(c) \/ StartLooks(c) \/ StartWaits(c) \/ StopAsked(c)
  PROVE  LifecycleInv'
<1>1. /\ cli \in [Clients -> CliType] /\ orders \in Nat /\ Named
  BY TypesAre DEF LifecycleInv
<1>2. UNCHANGED <<proc, sock, pidFile, manager, kills, others, mistaken, races>>
  BY DEF ShellOpens, UserOrders, StartLooks, StartWaits, StopAsked, files, counts
<1>3. orders' \in Nat
  <2>1. orders' = orders \/ orders' = orders + 1
    BY DEF ShellOpens, UserOrders, StartLooks, StartWaits, StopAsked, counts
  <2> QED BY <1>1, <2>1
<1>4. unit' = unit \/ unit' \in Watching
  BY DEF ShellOpens, UserOrders, StartLooks, StartWaits, StopAsked, Watching
<1>5. CASE \E place \in {"start", "spawn", "signal"} : To(c, place)
  <2>1. PICK place \in {"start", "spawn", "signal"} : To(c, place)
    BY <1>5
  <2>2. place \in Places
    BY DEF Places, Stopping
  <2>3. /\ cli' \in [Clients -> CliType]
        /\ \A d \in Clients \ {c} : cli'[d] = cli[d]
    BY <1>1, <2>1, <2>2, CliTypes
  <2>4. cli'[c].at = place /\ cli'[c].then = cli[c].then
    BY <1>1, <2>1 DEF To, CliType
  <2>5. cli'[c].at \notin Closings /\ cli'[c].then \notin Closings
    BY <1>1, <2>4 DEF Named, Closings
  <2> QED BY <1>2, <1>3, <1>4, <2>3, <2>5, OnlyClient
<1>6. CASE Ends(c)
  <2>1. /\ cli' \in [Clients -> CliType]
        /\ \A d \in Clients \ {c} : cli'[d] = cli[d]
    BY <1>1, <1>6, CliTypes
  <2>2. cli'[c].at = cli[c].then /\ cli'[c].then = "idle"
    BY <1>1, <1>6 DEF Ends, Idle
  <2>3. cli'[c].at \notin Closings /\ cli'[c].then \notin Closings
    BY <1>1, <2>2 DEF Named, Closings
  <2> QED BY <1>2, <1>3, <1>4, <2>1, <2>3, OnlyClient
<1>7. CASE UserOrders(c)
  <2>1. PICK o \in Orders : cli' = [cli EXCEPT ![c] = [at |-> o[1], pid |-> None, then |-> o[2]]]
    BY <1>7 DEF UserOrders
  <2>2. /\ o[1] \in {"stop", "shutdown", "install"}
        /\ o[2] \in {"idle", "restart", "uninstall", "start"}
    BY DEF Orders
  <2>3. o[1] \in Places \ Closings /\ o[2] \in Places \ Closings
    BY <2>2 DEF Places, Stopping, Closings
  <2>4. /\ cli' \in [Clients -> CliType]
        /\ \A d \in Clients \ {c} : cli'[d] = cli[d]
    BY <1>1, <2>1, <2>3, CliTypes
  <2>5. cli'[c].at = o[1] /\ cli'[c].then = o[2]
    BY <1>1, <2>1
  <2>6. cli'[c].at \notin Closings /\ cli'[c].then \notin Closings
    BY <2>3, <2>5
  <2> QED BY <1>2, <1>3, <1>4, <2>4, <2>6, OnlyClient
<1>8. Ends(c) \/ UserOrders(c) \/ \E place \in {"start", "spawn", "signal"} : To(c, place)
  BY DEF ShellOpens, StartLooks, StartWaits, StopAsked
<1> QED BY <1>5, <1>6, <1>7, <1>8

\* StartSpawns.
LEMMA StartSpawnsInv ==
  ASSUME LifecycleInv, NEW c \in Clients, StartSpawns(c)
  PROVE  LifecycleInv'
<1>1. /\ ProcTypes /\ cli \in [Clients -> CliType] /\ orders \in Nat /\ others \in Nat
      /\ races \in 0..MaxUpsets /\ Named
  BY TypesAre DEF LifecycleInv
<1>2. Ends(c) /\ UNCHANGED <<sock, pidFile, manager, unit, kills, orders, others, mistaken>>
  BY DEF StartSpawns, files, counts
<1>3. /\ cli' \in [Clients -> CliType]
      /\ \A d \in Clients \ {c} : cli'[d] = cli[d]
  BY <1>1, <1>2, CliTypes
<1>4. cli'[c].at = cli[c].then /\ cli'[c].then = "idle"
  BY <1>1, <1>2 DEF Ends, Idle
<1>5. cli'[c].at \notin Closings /\ cli'[c].then \notin Closings
  BY <1>1, <1>4 DEF Named, Closings
<1>6. CASE \E p \in Free : Spawned(p, c)
  <2>1. PICK p \in Free : Spawned(p, c)
    BY <1>6
  <2>2. ProcTypes' /\ \A q \in Pids : proc'[q] = "leaving" => proc[q] = "leaving"
    BY <1>1, <1>2, <2>1, SpawnedTypes
  <2>3. races' \in 0..MaxUpsets /\ (races' = 0 => races = 0 /\ ~Busy(c, p))
    BY <1>1, <2>1, BeginsTypes DEF Spawned
  <2>4. races' = 0 /\ ~mistaken => Alone'
    BY <1>1, <1>2, <2>1, <2>3, SpawnedAlone DEF LifecycleInv
  <2> QED BY <1>2, <1>3, <1>5, <2>2, <2>3, <2>4, BeginningClient
<1>7. CASE UNCHANGED <<proc, races>>
  BY <1>1, <1>2, <1>3, <1>5, <1>7, OnlyClient
<1> QED BY <1>6, <1>7 DEF StartSpawns

\* What the manager is asked to do.
LEMMA ManagedInv ==
  ASSUME LifecycleInv, NEW c \in Clients, StopAsks(c) \/ Installs(c) \/ Uninstalls(c)
  PROVE  LifecycleInv'
<1>1. /\ ProcTypes /\ cli \in [Clients -> CliType] /\ Named /\ manager \in Managers
      /\ orders \in Nat
  BY TypesAre DEF LifecycleInv
<1>2. UNCHANGED <<pidFile, manager, kills, orders, others, mistaken>>
  BY DEF StopAsks, Installs, Uninstalls, counts
<1>3. CASE StopAsks(c)
  <2>1. cli' = [cli EXCEPT ![c].at = "asked", ![c].pid = unit]
    BY <1>3 DEF StopAsks
  <2>2. "asked" \in Places /\ unit \in Pids \cup {None} \cup Watching
    BY <1>1 DEF Places, Stopping, ProcTypes
  <2>3. /\ cli' \in [Clients -> CliType]
        /\ \A d \in Clients \ {c} : cli'[d] = cli[d]
    BY <1>1, <2>1, <2>2, CliTypes
  <2>4. cli'[c].at = "asked" /\ cli'[c].then = cli[c].then
    BY <1>1, <2>1 DEF CliType
  <2>5. cli'[c].at \notin Closings /\ cli'[c].then \notin Closings
    BY <1>1, <2>4 DEF Named, Closings
  <2>6. CASE manager = "systemd"
    <3>1. UnitTerminated(c, "off")
      BY <1>3, <2>6 DEF StopAsks
    <3> QED BY <1>2, <2>3, <2>5, <3>1, AskingClient DEF Watching
  <2>7. CASE manager # "systemd"
    <3>1. UnitTerminated(c, unit)
      BY <1>3, <2>7 DEF StopAsks
    <3> QED BY <1>2, <2>3, <2>5, <3>1, AskingClient
  <2> QED BY <2>6, <2>7
<1>4. CASE Uninstalls(c)
  <2>1. Ends(c) /\ UnitTerminated(c, "absent")
    BY <1>4 DEF Uninstalls
  <2>2. /\ cli' \in [Clients -> CliType]
        /\ \A d \in Clients \ {c} : cli'[d] = cli[d]
    BY <1>1, <2>1, CliTypes
  <2>3. cli'[c].at = cli[c].then /\ cli'[c].then = "idle"
    BY <1>1, <2>1 DEF Ends, Idle
  <2>4. cli'[c].at \notin Closings /\ cli'[c].then \notin Closings
    BY <1>1, <2>3 DEF Named, Closings
  <2> QED BY <1>2, <2>1, <2>2, <2>4, AskingClient DEF Watching
<1>5. CASE Installs(c)
  <2>1. cli' = [cli EXCEPT ![c] = [at |-> "start", pid |-> None, then |-> "idle"]]
    <3>1. [Idle EXCEPT !.at = "start"] = [at |-> "start", pid |-> None, then |-> "idle"]
      BY DEF Idle
    <3> QED BY <1>5, <3>1 DEF Installs
  <2>2. "start" \in Places \ Closings /\ "idle" \in Places \ Closings
    BY DEF Places, Closings
  <2>3. /\ cli' \in [Clients -> CliType]
        /\ \A d \in Clients \ {c} : cli'[d] = cli[d]
    BY <1>1, <2>1, <2>2, CliTypes
  <2>4. cli'[c].at \notin Closings /\ cli'[c].then \notin Closings
    BY <1>1, <2>1, <2>2
  <2>5. CASE manager = "launchd"
    <3>1. UnitTerminated(c, "due")
      BY <1>5, <2>5 DEF Installs
    <3> QED BY <1>2, <2>3, <2>4, <3>1, AskingClient DEF Watching
  <2>6. CASE manager # "launchd"
    <3>1. UNCHANGED <<proc, sock, races>> /\ (unit' = unit \/ unit' = "due")
      BY <1>1, <1>5, <2>6, LifecycleAssumption DEF Installs
    <3> QED BY <1>1, <1>2, <2>3, <2>4, <3>1, OnlyClient DEF Watching
  <2> QED BY <2>5, <2>6
<1> QED BY <1>3, <1>4, <1>5

\* Shuts.
LEMMA ShutsInv ==
  ASSUME LifecycleInv, NEW c \in Clients, Shuts(c)
  PROVE  LifecycleInv'
<1>1. /\ ProcTypes /\ cli \in [Clients -> CliType] /\ races \in 0..MaxUpsets
      /\ orders \in Nat /\ others \in Nat
  BY TypesAre DEF LifecycleInv
<1>2. UNCHANGED <<pidFile, manager, kills, orders, others, mistaken>>
  BY DEF Shuts, counts
<1> DEFINE place == IF At(c, "restart") THEN "start" ELSE "idle"
<1>3. cli' = [cli EXCEPT ![c] = [at |-> place, pid |-> None, then |-> "idle"]]
  <2>1. [Idle EXCEPT !.at = place] = [at |-> place, pid |-> None, then |-> "idle"]
    BY DEF Idle
  <2> QED BY <2>1 DEF Shuts
<1>4. place \in Places \ Closings /\ "idle" \in Places \ Closings
  BY DEF Places, Closings
<1>5. /\ cli' \in [Clients -> CliType]
      /\ \A d \in Clients \ {c} : cli'[d] = cli[d]
  BY <1>1, <1>3, <1>4, CliTypes
<1>6. cli'[c].at \notin Closings /\ cli'[c].then \notin Closings
  BY <1>1, <1>3, <1>4
<1>7. CASE Answers /\ proc[sock] = "listening"
  <2>1. Terminated(sock, c, unit) /\ sock \in Pids /\ proc[sock] \notin {"free", "other"}
    BY <1>7 DEF Shuts, Answers
  <2>2. /\ ProcTypes' /\ Begins(c, sock)
        /\ \A q \in Pids : proc'[q] = "leaving" => proc[q] = "leaving"
    BY <1>1, <2>1, TerminatedTypes
  <2>3. races' \in 0..MaxUpsets /\ (races' = 0 => races = 0 /\ ~Busy(c, sock))
    BY <1>1, <2>2, BeginsTypes
  <2>4. races' = 0 /\ ~mistaken => Alone'
    BY <1>1, <2>1, <2>3, TerminatedAlone DEF LifecycleInv
  <2> QED BY <1>2, <1>5, <1>6, <2>2, <2>3, <2>4, BeginningClient
<1>8. CASE ~(Answers /\ proc[sock] = "listening")
  <2>1. UNCHANGED <<proc, sock, unit, races>>
    BY <1>8 DEF Shuts
  <2> QED BY <1>1, <1>2, <1>5, <1>6, <2>1, OnlyClient
<1> QED BY <1>7, <1>8

-----------------------------------------------------------------------------
(***************************************************************************)
(* The theorems.                                                           *)
(***************************************************************************)

\* Every step keeps the invariant.
LEMMA LifecycleInvStep == LifecycleInv /\ [Next]_vars => LifecycleInv'
<1> SUFFICES ASSUME LifecycleInv, [Next]_vars PROVE LifecycleInv'
  OBVIOUS
<1>1. CASE \E p \in Pids : DaemonStep(p) \/ Dies(p)
  BY <1>1, DaemonStepInv
<1>2. CASE UnitStarts
  BY <1>2, UnitStartsInv
<1>3. CASE \E p \in Pids : OtherStarts(p) \/ OtherEnds(p)
  BY <1>3, OtherInv
<1>4. CASE \E c \in Clients : ClientStep(c) \/ ShellOpens(c) \/ UserOrders(c)
  <2>1. PICK c \in Clients : ClientStep(c) \/ ShellOpens(c) \/ UserOrders(c)
    BY <1>4
  <2>2. CASE ShellOpens(c) \/ UserOrders(c) \/ StartLooks(c) \/ StartWaits(c) \/ StopAsked(c)
    BY <2>2, QuietClientInv
  <2>3. CASE StartSpawns(c)
    BY <2>3, StartSpawnsInv
  <2>4. CASE StopAsks(c) \/ Installs(c) \/ Uninstalls(c)
    BY <2>4, ManagedInv
  <2>5. CASE StopSignals(c)
    BY <2>5, StopSignalsInv
  <2>6. CASE StopKills(c)
    BY <2>6, StopKillsInv
  <2>7. CASE StopRemovesPid(c) \/ StopRemovesSocket(c)
    BY <2>7, StopRemovesInv
  <2>8. CASE Shuts(c)
    BY <2>8, ShutsInv
  <2> QED BY <2>1, <2>2, <2>3, <2>4, <2>5, <2>6, <2>7, <2>8 DEF ClientStep
<1>5. CASE UNCHANGED vars
  BY <1>5 DEF vars, counts, files, LifecycleInv, TypeOK, Named, Written, Alone, ClosedAlone,
              Moving, Closing
<1> QED BY <1>1, <1>2, <1>3, <1>4, <1>5 DEF Next

\* So it holds throughout.
LEMMA LifecycleInvCorrect == Spec => []LifecycleInv
  BY LifecycleInvInit, LifecycleInvStep, PTL DEF Spec

\* Every variable keeps to its kind: in particular a socket file that is not
\* stale is that of a process that has bound it, the manager's process runs, and
\* no more starts and stops are counted as races than the bound allows.
THEOREM TypeCorrect == Spec => []TypeOK
<1>1. LifecycleInv => TypeOK
  BY DEF LifecycleInv
<1> QED BY <1>1, LifecycleInvCorrect, PTL

\* Two daemons never listen, and the one that does can be reached, as long as no
\* start or stop has begun while another was under way (daemon.rs, run, removes and
\* binds the socket without a lock) and `fore stop` has taken no other program for
\* the daemon (service.rs, is_running, asks for any process): for any number of
\* processes, other programs, crashes and clients.
THEOREM OneDaemon == Spec => []OneDaemonWhenAlone
<1>1. LifecycleInv => OneDaemonWhenAlone
  BY DEF LifecycleInv, OneDaemonWhenAlone, Alone
<1> QED BY <1>1, LifecycleInvCorrect, PTL

\* When `fore stop` reports success under the same conditions, no daemon serves,
\* starts, or has a file left to remove (service.rs, stop, waits for one number,
\* kills it, and then removes whatever files are there): a daemon that has removed
\* its files may still be on its way out.
THEOREM StopCorrect == Spec => StopStops
<1> DEFINE A == races = 0 /\ ~mistaken =>
                  \A c \in Clients : Succeeds(c) => \A p \in Pids : proc'[p] \in Gone
<1>1. LifecycleInv /\ [Next]_vars => [A]_vars
  <2> SUFFICES ASSUME LifecycleInv, Next PROVE A
    BY DEF vars
  <2> SUFFICES ASSUME NEW c \in Clients, At(c, "rmsock"), cli'[c] # cli[c],
                      races = 0, ~mistaken
               PROVE  \A p \in Pids : proc'[p] \in Gone
    BY DEF Succeeds
  <2>1. cli \in [Clients -> CliType]
    BY TypesAre DEF LifecycleInv
  <2>2. Closing(c) /\ cli[c].at = "rmsock"
    BY DEF At, Closing, Closings
  <2>3. \A p \in Pids : proc[p] \in Gone
    BY <2>2 DEF LifecycleInv, ClosedAlone
  <2>4. PICK d \in Clients : ClientStep(d) \/ ShellOpens(d) \/ UserOrders(d)
    BY DEF Next, DaemonStep, Dies, UnitStarts, OtherStarts, OtherEnds, WritesPid, LooksForSocket,
           Connects, RemovesStale, Binds, Listens, RemovesSocket, RemovesPid, Leaves
  <2>5. d = c
    <3> SUFFICES ASSUME d # c PROVE cli'[c] = cli[c]
      OBVIOUS
    <3> QED BY <2>1, <2>4 DEF ClientStep, ShellOpens, UserOrders, StartLooks, StartWaits, StartSpawns,
                   StopAsks, StopAsked, StopSignals, StopKills, StopRemovesPid,
                   StopRemovesSocket, Shuts, Installs, Uninstalls, To, Ends
  <2>6. UNCHANGED proc
    BY <2>2, <2>4, <2>5 DEF ClientStep, ShellOpens, UserOrders, StartLooks, StartWaits, StartSpawns,
           StopAsks, StopAsked, StopSignals, StopKills, StopRemovesPid, StopRemovesSocket,
           Shuts, Installs, Uninstalls, At
  <2> QED BY <2>3, <2>6
<1> QED BY <1>1, LifecycleInvCorrect, PTL DEF Spec, StopStops
=============================================================================
