------------------------------ MODULE History ------------------------------
(***************************************************************************)
(* How the daemon learns what the shells ran.                              *)
(*                                                                         *)
(* Every prompt of a zsh session runs two hooks, preexec and precmd        *)
(* (shell/fore.zsh).  Each hook starts a client process in the background  *)
(* ("&!") and does not wait for it, so the Exec and Done requests of one   *)
(* session reach the daemon in any order, or not at all.  The daemon       *)
(* (src/daemon.rs) keeps what they say in three places at once:            *)
(*   rows        the SQLite history, durable (src/store.rs);               *)
(*   predictor   the newest Capacity commands in memory (src/predict.rs);  *)
(*   inflight    what each session runs now (daemon.rs, State).            *)
(* A handler holds the one State mutex from its first read to its last     *)
(* write and never waits while it holds it, so a handler is one action.    *)
(*                                                                         *)
(* A command is named by its number in the order the shells start them; a  *)
(* row by its SQLite id, which is its place in the sequence rows.  Texts,  *)
(* directories, branches, durations and redaction are left out.            *)
(***************************************************************************)
EXTENDS Integers, Sequences, FiniteSetsExt

CONSTANTS
  Sessions,     \* the zsh sessions (FORE_SESSION)
  Importer,     \* the session name 'import' of rows that come from a file
  ExitCodes,    \* exit codes a command may end with
  NoExit,       \* NULL in the column exit_code: not finished
  Capacity,     \* [history].hot_rows
  Kinds,        \* the kinds of command lines that occur
  ImportFiles,  \* history files: sequences of [n, ts], n = 0 for a noise line
  NoTime,       \* the file has no time stamp for an entry
  Hour,         \* an hour, in ticks of the clock
  Span,         \* thirty days, in ticks
  MaxCommands,  \* bound: commands the shells run
  MaxImports,   \* bound: runs of `fore import`
  MaxCrashes,   \* bound: times the daemon stops or dies
  MaxClock      \* bound: ticks of the wall clock

ASSUME HistoryAssumption ==
  /\ Importer \notin Sessions
  /\ ExitCodes \subseteq Nat
  /\ NoExit \notin Nat
  /\ Capacity \in Nat
  /\ Kinds \subseteq {"plain", "spaced", "ignored"}
  /\ NoTime \notin Nat
  /\ ImportFiles \subseteq Seq([n : Nat, ts : Nat \cup {NoTime}])
  /\ Hour \in Nat \ {0}
  /\ Span \in Nat
  /\ {MaxCommands, MaxImports, MaxCrashes, MaxClock} \subseteq Nat

VARIABLES
  ran,          \* number of commands started
  running,      \* running[s]: the command s is running, or 0 at the prompt
  execs,        \* Exec requests on their way
  dones,        \* Done requests on their way
  reloads,      \* number of Reload requests on their way
  imports,      \* number of imports so far
  clock,        \* the wall clock, now_ms()
  rows,         \* table history, in the order of its ids
  up,           \* the daemon runs
  crashes,      \* number of times it stopped
  predictor,    \* Predictor.history, newest first: [row, exit]
  inflight,     \* inflight[s]: id of the row of the running command, or 0
  lastFailure,  \* lastFailure[s]: the failure a fix was started for
  \* history variables: what the properties need and the code does not keep
  known,        \* ids this daemon has loaded or pushed itself
  boot,         \* number of rows when this daemon loaded them
  clean         \* clean[s]: no request of s was lost or overtaken so far

shellVars  == <<ran, running>>
netVars    == <<execs, dones, reloads>>
daemonVars == <<up, predictor, inflight, lastFailure, known, boot>>
vars == <<shellVars, netVars, imports, clock, rows, crashes, daemonVars, clean>>

NoFailure == [row |-> 0, exit |-> 0]

\* daemon.rs, should_record: a line that starts with a space ("spaced") or with
\* a prefix listed in [history].ignore_prefixes ("ignored") is not recorded.
ShouldRecord(kind) == kind = "plain"

\* daemon.rs, Request::Done: a failure worth a fix, not Ctrl-C or Ctrl-Z.
Failing(code) == code \notin {0, 130, 148}

-----------------------------------------------------------------------------
(***************************************************************************)
(* The store.                                                              *)
(***************************************************************************)

Ids == DOMAIN rows

RowsOf(s)   == {i \in Ids : rows[i].session = s}

\* Mutants: the query without "exit_code IS NULL"; without "session = ?1".
OpenRowsFinished(s)   == RowsOf(s)
OpenRowsOfAnybody(s)  == {i \in Ids : rows[i].exit = NoExit}

\* store.rs, record_done: the rows its query finds.
OpenRows(s) == {i \in RowsOf(s) : rows[i].exit = NoExit}

\* Mutant: the query without "DESC".
OldestOpen(s) == CHOOSE i \in OpenRows(s) : \A j \in OpenRows(s) : i <= j

\* store.rs, record_done: "ORDER BY id DESC LIMIT 1".
LatestOpen(s) == CHOOSE i \in OpenRows(s) : \A j \in OpenRows(s) : j <= i

\* In a listing by time row i may stand before row j.
Leads(i, j) == i # j /\ rows[i].ts >= rows[j].ts

\* The first `limit' of the rows in S, newest first, those of one timestamp in
\* any order.
Listings(S, limit) ==
  LET size == IF Cardinality(S) < limit THEN Cardinality(S) ELSE limit
  IN  {p \in [1..size -> S] :
         /\ \A a, b \in 1..size : a < b => Leads(p[a], p[b])
         /\ \A i \in S \ {p[a] : a \in 1..size} : \A a \in 1..size : Leads(p[a], i)}

\* store.rs, recent: "ORDER BY ts_ms DESC LIMIT ?1", read off idx_history_ts (store.rs:53).
\* The index is descending in ts_ms and ascending in the id, and is read forward: of
\* rows of one timestamp the one inserted first stands first.
Newest(S, limit) ==
  {p \in Listings(S, limit) :
     \A a \in DOMAIN p, i \in S :
       (rows[i].ts = rows[p[a]].ts /\ i < p[a]) => \E b \in 1..(a - 1) : p[b] = i}

-----------------------------------------------------------------------------
(***************************************************************************)
(* The predictor.                                                          *)
(***************************************************************************)

\* predict.rs, Predictor::new and replace, on what Store::recent returned.
Load(p) == [a \in DOMAIN p |-> [row |-> p[a], exit |-> rows[p[a]].exit]]

\* Mutants: push does not evict; push adds at the wrong end.
PushUnbounded(p, e) == <<e>> \o p
PushBack(p, e) ==
  LET q == Append(p, e)
  IN  IF Len(q) > Capacity THEN SubSeq(q, 1, Len(q) - 1) ELSE q

\* predict.rs, Predictor::push.
Push(p, e) ==
  LET q == <<e>> \o p
  IN  IF Len(q) > Capacity THEN SubSeq(q, 1, Len(q) - 1) ELSE q

\* Mutant: mark_done searches from the other end.
MarkOldestDone(p, code) ==
  LET open == {a \in DOMAIN p : p[a].exit = NoExit}
  IN  [a \in DOMAIN p |->
         IF a \in open /\ \A b \in open : b <= a
         THEN [p[a] EXCEPT !.exit = code]
         ELSE p[a]]

\* predict.rs, Predictor::mark_done: the newest entry with no exit code.
MarkDone(p, code) ==
  LET open == {a \in DOMAIN p : p[a].exit = NoExit}
  IN  [a \in DOMAIN p |->
         IF a \in open /\ \A b \in open : a <= b
         THEN [p[a] EXCEPT !.exit = code]
         ELSE p[a]]

-----------------------------------------------------------------------------
Init ==
  /\ ran = 0
  /\ running = [s \in Sessions |-> 0]
  /\ execs = {} /\ dones = {} /\ reloads = 0
  /\ imports = 0
  /\ clock = 1
  /\ rows = << >>
  /\ up = TRUE
  /\ crashes = 0
  /\ predictor = << >>
  /\ inflight = [s \in Sessions |-> 0]
  /\ lastFailure = [s \in Sessions |-> NoFailure]
  /\ known = {}
  /\ boot = 0
  /\ clean = [s \in Sessions |-> TRUE]

(***************************************************************************)
(* The shell hooks.                                                        *)
(***************************************************************************)

\* fore.zsh, _fore_preexec: nothing is sent for a line with a leading space.
Preexec(s, kind) ==
  /\ running[s] = 0
  /\ ran < MaxCommands
  /\ ran' = ran + 1
  /\ running' = [running EXCEPT ![s] = ran']
  /\ execs' = IF kind = "spaced" THEN execs
              ELSE execs \cup {[session |-> s, n |-> ran', kind |-> kind]}
  /\ UNCHANGED <<dones, reloads, imports, clock, rows, crashes, daemonVars, clean>>

\* fore.zsh, _fore_precmd: Done is sent whatever the line looked like.
Precmd(s, code) ==
  /\ running[s] # 0
  /\ running' = [running EXCEPT ![s] = 0]
  /\ dones' = dones \cup {[session |-> s, n |-> running[s], exit |-> code]}
  /\ UNCHANGED <<ran, execs, reloads, imports, clock, rows, crashes,
                 daemonVars, clean>>

\* Request m of command m.n overtakes an Exec or a Done sent before it.
OvertakesDone(m) == \E d \in dones : d.session = m.session /\ d.n < m.n
OvertakesExec(m, limit) == \E x \in execs : x.session = m.session /\ x.n < limit

(***************************************************************************)
(* The daemon's handlers.                                                  *)
(***************************************************************************)

\* daemon.rs, Request::Exec.
Exec(m) ==
  /\ up /\ m \in execs
  /\ execs' = execs \ {m}
  /\ clean' = [clean EXCEPT ![m.session] =
                 @ /\ ~OvertakesDone(m) /\ ~OvertakesExec(m, m.n)]
  /\ IF ShouldRecord(m.kind)
     THEN LET id == Len(rows) + 1
          IN  /\ rows' = Append(rows, [session |-> m.session, n |-> m.n, ts |-> clock,
                                       exit |-> NoExit, by |-> 0])
              /\ predictor' = Push(predictor, [row |-> id, exit |-> NoExit])
              /\ inflight' = [inflight EXCEPT ![m.session] = id]
              /\ known' = known \cup {id}
     ELSE UNCHANGED <<rows, predictor, inflight, known>>
  /\ UNCHANGED <<shellVars, dones, reloads, imports, clock, up, crashes, lastFailure, boot>>

\* daemon.rs, Request::Done.  paused is what Circuit::is_open answers: the
\* breaker is a component of its own.  by records whose Done closed the row.
Done(m, paused) ==
  LET s == m.session
      closed == OpenRows(s) # {}
  IN
  /\ up /\ m \in dones
  /\ dones' = dones \ {m}
  /\ clean' = [clean EXCEPT ![s] = @ /\ ~OvertakesDone(m) /\ ~OvertakesExec(m, m.n + 1)]
  /\ IF closed
     THEN /\ rows' = [rows EXCEPT ![LatestOpen(s)].exit = m.exit, ![LatestOpen(s)].by = m.n]
          /\ predictor' = MarkDone(predictor, m.exit)
     ELSE UNCHANGED <<rows, predictor>>
  /\ inflight' = [inflight EXCEPT ![s] = 0]
  /\ lastFailure' = IF Failing(m.exit) /\ ~paused /\ inflight[s] # 0
                    THEN [lastFailure EXCEPT ![s] = [row |-> inflight[s], exit |-> m.exit]]
                    ELSE lastFailure
  /\ UNCHANGED <<shellVars, execs, reloads, imports, clock, up, crashes, known, boot>>

\* daemon.rs, Request::Reload.
Reload ==
  /\ up /\ reloads > 0
  /\ reloads' = reloads - 1
  /\ \E p \in Newest(Ids, Capacity) : predictor' = Load(p)
  /\ known' = Ids
  /\ UNCHANGED <<shellVars, execs, dones, imports, clock, rows, up, crashes, inflight,
                 lastFailure, boot, clean>>

(***************************************************************************)
(* A request that has no effect: the daemon is down, the client gave up,   *)
(* or SQLite failed, on which every handler returns before it changes      *)
(* anything else.                                                          *)
(***************************************************************************)
DropExec(m) ==
  /\ m \in execs
  /\ execs' = execs \ {m}
  /\ clean' = [clean EXCEPT ![m.session] = FALSE]
  /\ UNCHANGED <<shellVars, dones, reloads, imports, clock, rows, crashes, daemonVars>>

DropDone(m) ==
  /\ m \in dones
  /\ dones' = dones \ {m}
  /\ clean' = [clean EXCEPT ![m.session] = FALSE]
  /\ UNCHANGED <<shellVars, execs, reloads, imports, clock, rows, crashes, daemonVars>>

DropReload ==
  /\ reloads > 0
  /\ reloads' = reloads - 1
  /\ UNCHANGED <<shellVars, execs, dones, imports, clock, rows, crashes, daemonVars, clean>>

(***************************************************************************)
(* The rest of the world.                                                  *)
(***************************************************************************)

\* Mutant: the anchor is the end of the hour.
HourAfter(now) == now - (now % Hour) + Hour

\* import.rs, parse: the hour boundary times without a later neighbour hang on.
AnchorEnd(now) == now - (now % Hour)

\* i64 division rounds towards zero.
Quotient(a, b) == IF a >= 0 THEN a \div b ELSE -((-a) \div b)

Timed(file) == {k \in DOMAIN file : file[k].ts # NoTime}

\* import.rs, parse: the time of entry k of a file read at now.  An entry
\* without one lies on the line between its neighbours with one; without an
\* earlier neighbour the line is thirty days long, without a later one it ends
\* at the hour boundary.
TimeOf(file, k, now) ==
  LET earlier == {j \in Timed(file) : j < k}
      later   == {j \in Timed(file) : k < j}
      from == IF earlier = {} THEN 0 ELSE Max(earlier)
      to   == IF later = {} THEN Len(file) + 1 ELSE Min(later)
      hi   == IF later = {} THEN AnchorEnd(now) ELSE file[to].ts
      lo   == IF earlier = {} THEN hi - Span ELSE file[from].ts
  IN  IF k \in Timed(file) THEN file[k].ts
      ELSE lo + Quotient((hi - lo) * (k - from), to - from)

\* import.rs, read: what of the file may be imported, noise left out.
Entry(file, k, now) == [n |-> file[k].n, ts |-> TimeOf(file, k, now)]
Entries(file) == {k \in DOMAIN file : file[k].n # 0}

\* Mutant: import does not look for what is there.
FreshAlways(file) == Entries(file)

\* store.rs, import: the entries whose (cmd, ts) no import inserted, be it an
\* earlier one or this one.
Fresh(file) ==
  {k \in Entries(file) :
     LET e == Entry(file, k, clock)
     IN  /\ \A i \in RowsOf(Importer) : <<rows[i].n, rows[i].ts>> # <<e.n, e.ts>>
         /\ \A j \in Entries(file) : j < k => Entry(file, j, clock) # e}

\* main.rs, import_history, for one file, in a process of its own: parse, then
\* one transaction of the store.  The client then asks the daemon to reload.  A
\* history file holds no future times.
Import(file) ==
  LET fresh == Fresh(file)
      size  == Cardinality(fresh)
  IN
  /\ imports < MaxImports
  /\ \A k \in Timed(file) : file[k].ts <= clock
  /\ imports' = imports + 1
  /\ \E p \in [1..size -> fresh] :
       /\ \A a, b \in 1..size : a < b => p[a] < p[b]
       /\ rows' = rows \o [a \in 1..size |->
                             [session |-> Importer, n |-> file[p[a]].n,
                              ts |-> TimeOf(file, p[a], clock), exit |-> 0, by |-> 0]]
  /\ reloads' = reloads + 1
  /\ UNCHANGED <<shellVars, execs, dones, clock, crashes, daemonVars, clean>>

\* The daemon is stopped or dies: only the table survives.
Stop ==
  /\ up
  /\ crashes < MaxCrashes
  /\ up' = FALSE
  /\ crashes' = crashes + 1
  /\ predictor' = << >>
  /\ inflight' = [s \in Sessions |-> 0]
  /\ lastFailure' = [s \in Sessions |-> NoFailure]
  /\ known' = {}
  /\ UNCHANGED <<shellVars, netVars, imports, clock, rows, boot, clean>>

\* daemon.rs, run: load the newest hot_rows and start with no session state.
Start ==
  /\ ~up
  /\ up' = TRUE
  /\ \E p \in Newest(Ids, Capacity) : predictor' = Load(p)
  /\ known' = Ids
  /\ boot' = Len(rows)
  /\ UNCHANGED <<shellVars, netVars, imports, clock, rows, crashes, inflight, lastFailure,
                 clean>>

Tick ==
  /\ clock < MaxClock
  /\ clock' = clock + 1
  /\ UNCHANGED <<shellVars, netVars, imports, rows, crashes, daemonVars, clean>>

Shell   == \E s \in Sessions : \/ \E kind \in Kinds : Preexec(s, kind)
                               \/ \E code \in ExitCodes : Precmd(s, code)
Handler == \/ \E m \in execs : Exec(m)
           \/ \E m \in dones, paused \in BOOLEAN : Done(m, paused)
           \/ Reload
Drop    == \/ \E m \in execs : DropExec(m)
           \/ \E m \in dones : DropDone(m)
           \/ DropReload
World   == \/ \E file \in ImportFiles : Import(file)
           \/ Stop
           \/ Start
           \/ Tick

Next == Shell \/ Handler \/ Drop \/ World

Spec == Init /\ [][Next]_vars

-----------------------------------------------------------------------------
(***************************************************************************)
(* Properties.                                                             *)
(***************************************************************************)

ExecRequest == [session : Sessions, n : Nat, kind : Kinds]
DoneRequest == [session : Sessions, n : Nat, exit : ExitCodes]
Exits       == ExitCodes \cup {0, NoExit}
Row         == [session : Sessions \cup {Importer}, n : Nat, ts : Int, exit : Exits, by : Nat]
HotEntry    == [row : Nat, exit : Exits]

\* Every variable holds values of its kind, and the predictor never holds more
\* than hot_rows entries (predict.rs:24, "Bounded by `capacity`").
TypeOK ==
  /\ ran \in Nat
  /\ running \in [Sessions -> Nat]
  /\ execs \subseteq ExecRequest
  /\ dones \subseteq DoneRequest
  /\ reloads \in Nat /\ imports \in Nat /\ clock \in Nat /\ crashes \in Nat
  /\ rows \in Seq(Row)
  /\ up \in BOOLEAN
  /\ predictor \in Seq(HotEntry) /\ Len(predictor) <= Capacity
  /\ inflight \in [Sessions -> Nat]
  /\ lastFailure \in [Sessions -> [row : Nat, exit : Exits]]
  /\ known \subseteq Nat
  /\ boot \in Nat
  /\ clean \in [Sessions -> BOOLEAN]

\* The in-memory map and the table agree on what a session is running: while
\* the daemon remembers a command as in flight, its row is the newest row of
\* that session and has no exit code; and the newest row of a session is open
\* without being remembered only if an earlier daemon inserted it.  This is
\* what lets Done use both as if they spoke of one command.
InflightTracksStore ==
  up => \A s \in Sessions :
    /\ inflight[s] # 0 => /\ inflight[s] \in OpenRows(s)
                          /\ \A i \in RowsOf(s) : i <= inflight[s]
    /\ \A i \in OpenRows(s) :
         (\A j \in RowsOf(s) : j <= i) /\ i > boot => inflight[s] = i

\* A fix is only ever started for a command of that very session, which the
\* history marks as failed with the exit code the model was told, whatever was
\* lost, overtaken or restarted: one Done names one command everywhere.
FixMatchesHistory ==
  \A s \in Sessions :
    LET f == lastFailure[s]
    IN  f.row # 0 => /\ f.row \in RowsOf(s)
                     /\ rows[f.row].exit = f.exit
                     /\ f.exit \notin {0, 130, 148}

\* The predictor holds the newest hot_rows of the rows this daemon has seen,
\* newest first, however pushes, evictions, reloads and imports by another process
\* interleave.  Rows of one millisecond may stand either way: a push puts the
\* later one first, a reload the earlier one, and keeps the earlier one at the end.
HotIsNewest ==
  up => [a \in DOMAIN predictor |-> predictor[a].row] \in Listings(known, Capacity)

\* Files that overlap, imported again and again between live commands, leave no
\* (cmd, ts) pair twice in the table (store.rs:124, "re-running an import is
\* idempotent").
ImportIsIdempotent ==
  \A i, j \in Ids :
    (/\ {rows[i].session, rows[j].session} = {Importer}
     /\ rows[i].n = rows[j].n /\ rows[i].ts = rows[j].ts) => i = j

\* Whatever times an import makes up, none of them is later than what is typed after
\* it, so that no imported row is decayed less than a live one (import.rs:6,
\* "they're a baseline that your real, located history quickly outranks").
ImportsLieBehind ==
  \A i, j \in Ids :
    (rows[i].session # Importer /\ rows[j].session = Importer /\ j < i)
      => rows[j].ts <= rows[i].ts

LiveRows == {i \in Ids : rows[i].session # Importer}

\* The rows of shells are of one session, and no two of one millisecond.
Alone ==
  \A i, j \in LiveRows : /\ rows[i].session = rows[j].session
                         /\ rows[i].ts = rows[j].ts => i = j

Agrees(e) == e.exit = rows[e.row].exit

\* As long as one shell at most has used the history, and never twice in a
\* millisecond, the predictor and the store give every command the same outcome,
\* although they look the command of a Done up by different rules.
AgreesWhenAlone == Alone => \A a \in DOMAIN predictor : Agrees(predictor[a])

\* In a session none of whose requests was lost or overtaken, every exit code
\* stands at the command that ended with it; and once nothing of the session
\* is on its way or running, every recorded command has its exit code.
CleanSessionsAreExact ==
  \A s \in {c \in Sessions : clean[c]} :
    /\ \A i \in RowsOf(s) : rows[i].exit # NoExit => rows[i].by = rows[i].n
    /\ (running[s] = 0 /\ \A m \in execs \cup dones : m.session # s) => OpenRows(s) = {}

\* A row, once inserted, keeps its id, command and time for ever, and an exit
\* code, once written, is never replaced: a late or repeated Done cannot
\* rewrite the past.
PastIsKept ==
  /\ Len(rows) <= Len(rows')
  /\ \A i \in Ids :
       /\ rows'[i].session = rows[i].session
       /\ rows'[i].n = rows[i].n
       /\ rows'[i].ts = rows[i].ts
       /\ rows[i].exit # NoExit => rows'[i].exit = rows[i].exit
HistoryIsFinal == [][PastIsKept]_rows

\* import.rs:79-80: entries without a time are interpolated "so file order ==
\* time order", here for a first import, from files whose own times are in order.
FileOrderIsTimeOrder ==
  imports <= 1 => \A i, j \in RowsOf(Importer) : i < j => rows[i].ts <= rows[j].ts
=============================================================================
