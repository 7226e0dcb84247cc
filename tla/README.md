# Verification of fore

`fore` is an assistant for zsh: a plugin (`src/shell/fore.zsh`) whose hooks and
key bindings talk over a Unix socket to a daemon (`src/src/daemon.rs`), which
keeps the command history, predicts commands, asks a language model for fixes
and checks commands before they run. `fore rm`, `fore undo` and `fore import`
work in processes of their own. This directory holds TLA+ modules of the parts
whose correctness depends on the order of things or on many rules meeting, the
TLC configurations that check them on small instances, and proofs that TLAPS
checks.

    tlc -workers 2 -config MCHistory.cfg MCHistory      # a run
    tlapm HistoryProofs.tla                             # the proofs of a module

`PROJECT.json` lists components, runs, mutants (plausible bugs that each
property is known to catch), the source lines every definition stands for,
hazards, findings and theorems.

## 1. Inventory

| component | state | operations | correct when |
|---|---|---|---|
| history store (`store.rs`) | table `history`, counters | record_exec, record_done, recent, import | rows are final; an exit code stands at the command that ended with it; imports do not repeat |
| predictor (`predict.rs`) | the newest `hot_rows` entries | push, mark_done, replace, suggest | it is the head of the table; it agrees with the table |
| daemon, ingestion (`daemon.rs`) | `inflight` per session | Exec, Done, Reload | table, predictor and `inflight` speak of one command |
| import (`import.rs`) | none | parse, interpolate times | file order is time order; imports rank behind live commands; the same file gives the same rows |
| daemon, fixes (`daemon.rs`, `assist.rs`, `llm.rs`) | `last_failure` per session, watch channels, two atomics of `Circuit` | Done, Fix, Nl, model calls | every request is answered, with the right answer; the breaker counts exactly and its pauses end |
| safe rm, undo, trash (`undo.rs`) | operation directories with `journal.json` | rm, undo, purge | nothing is lost, nothing duplicated, an operation can be undone as a whole |
| lifecycle (`service.rs`, `daemon.rs` run) | pid file, socket, the service manager's unit | start, stop, restart, shutdown, install, uninstall, exit | one daemon listens; stop leaves none that serves; some daemon answers in the end |
| Enter key and widgets (`fore.zsh`) | `_fore_confirmed`, buffer, proposal | accept-line, editing, Ctrl-/, Ctrl-Space | a blocked line runs only after it was shown, once for each showing |
| preflight (`preflight.rs`) | none | guards, previews, insights, ignore list | nothing destructive passes in silence; where there is more to lose, no less is said |
| classifier (`safety.rs`) | none | assess | a wrapped command is seen as the command |
| redactor (`redact.rs`) | none | redact | secrets go before storage |
| insights (`insights.rs`) | counters | aliases, stats | counts are right |
| providers, config, doctor, install scripts | files | read, write, print | (I/O) |

How they interact: each zsh hook starts `fore exec` or `fore done` in the
background and does not wait. The daemon answers every connection in a task of
its own; tasks share one `State` under a mutex that is never held across an
await, and two atomics without a lock. A failed command starts a further task
that calls the model and reports through a watch channel. `fore import` writes
the same SQLite file from another process and then sends `Reload`. `fore rm`,
`fore undo` and the purge (at the daemon's start) share a directory without any
lock. Daemons, `fore start`, `fore stop` and the service manager know of each
other by a socket file and a pid file only. At Enter the plugin asks the daemon
and waits, at most 400 ms; the daemon asks the file system, git, the history
and the classifier, which each parse the line for themselves.

What is hard: requests of one session overtake each other or get lost; three
copies of "the running command" (table, predictor, inflight) found by three
rules; a check of the breaker long before the call it guards; a fix that is
replaced while somebody waits for it; processes killed between a move and the
journal that records it; copies across filesystems that end half-way; files
that say who runs and outlive them, until their number is another program's; a confirmation that outlives what it was
given for; two parsers and some thirty rules whose findings suppress each other.

## 2. Plan

Done, in this order: **History** and its proofs; **FixService** with liveness
and its proofs; **Trash** and its proofs; import times within History; **Lifecycle** with
liveness; **Safety**, **Preflight** and **EnterKey**, with **Gate** as the
abstract specification that EnterKey implements, and EnterKey's proofs; the
proofs of History's table and predictor and of Lifecycle; the proofs of the rules
of Safety and Preflight.

Next, in this order:

1. **Daemon**, the composition of History and FixService (today History lets the
   breaker be open or not at random, and FixService has commands without rows).
2. Undo without an id in Trash (which operation the next undo picks after one
   was killed), and targets inside other targets.
3. Ranking (`suggest`) and alias mining as operators with reference definitions.

## 3. The modules

### History (`MCHistory`, `HistoryProofs`, `StoreProofs`, `PredictorProofs`)

A command is a number, a row of the table is its id. `Preexec` and `Precmd` are
the hooks; they put requests into the sets `execs` and `dones`, from which the
daemon takes them in any order, or which lose them (`DropExec`, `DropDone`,
`DropReload`: daemon down, client timed out, database error, on all of which
the handler changes nothing). `Exec`, `Done` and `Reload` are the handlers of
`daemon.rs`, each one step, because each holds the mutex from its first read to
its last write. `Stop` and `Start` are the daemon's death and `run`. A line with
a leading space is taken with `ignore_space = true`, the default. The variables
`known`, `boot`, `clean` and the field `by` only serve the properties. Whether
the breaker is open in `Done` is a free choice.

Rows of one millisecond are common (imports have whole seconds, two commands can
start at once), and their order is not the same everywhere. `Newest` is what
`recent` returns: its query names only `ts_ms` and reads the descending index on it
forward, so that the row inserted first stands first. `Push` puts the later command
first. `Listings`, which `HotIsNewest` is stated with, allows both orders.

`Import` reads one file in a process of its own: a sequence of entries, some
without a time (`NoTime`), some that are noise (an empty line, `exit`, a line
of fore's own), which take part in the interpolation and are then left out.
`TimeOf` gives each entry its time: between its neighbours that have one, in
whole numbers rounded as i64 division rounds, over thirty days (`Span`) if
there is none before it, towards the last full hour (`AnchorEnd`) if there is
none after it. `Fresh` is what the transaction of `store.rs` inserts. Files
carry no times from the future.

*Abstracted:* texts, directories, durations, redaction, how the bytes of a file
become entries; the wall clock does not go backwards.

### FixService (`MCFixService`, `FixProofs`)

A task and an Nl request are a *caller*, whose model call goes through the
stages calling, ended, (tripping,) recorded. `Record` and `Trip` are the two
atomic operations of `Circuit::record`; between them anything may happen. A Fix
request checks the breaker (`Fix`), clones the receiver under the lock
(`FixLooksUp`), and then has the value or times out. `DoneWithFix` replaces the
session's channel while older tasks still run. Slots of tasks and requests are
used again, so behaviours are infinite. `failures` is counted up to `Threshold`:
the code compares with `>=` only, and a wrap of the 32 bit counter would take
four billion failures without a success.

*Fairness* (`FairSpec`): weak fairness of every stage of a call (tokio runs what
can run, and `Llm::new` gives each HTTP request a timeout, so that `CallEnds`
always comes), of the end of a task, of the steps of a request, and of time. No
shell has to do anything and no daemon has to die.

### Trash (`MCTrash`, `TrashProofs`)

What is in a file or a tree is a set of pieces, and each `fore rm` is a process
that moves targets one by one (`RmMoves`; across filesystems `RmCopies`, then
`RmRemoves`, each of which may stop half-way) and writes its journal last.
`fore undo` checks that a path is free in one step and moves in the next.
`PurgeStarts` reads the journals, `PurgeDeletes` removes one directory at a
time. All three can be killed at any step, and the user writes files meanwhile.
Any number of days may pass between two steps. An undo onto another filesystem
is one step with every outcome of its two halves; what others can do between
the halves they can also do after them. Pieces that were put at a path just
after somebody had found it free are `late`: rename replaces them, and the
properties leave them out. `purged` are pieces whose time was up, `dropped`
those deleted although it was not.

*Abstracted:* flags, sizes, messages, protected paths, targets inside other
targets, symbolic links, a directory removed in part by a purge.

### Lifecycle (`MCLifecycle`, `LifecycleProofs`)

`proc[p]` is how far the daemon with number p has got in `run`: it writes its
pid, looks for a socket file, connects to it, removes it, binds, listens; at the
end it removes the socket and then the pid file, whosever they are, and is then
`leaving`: its listener, its state and its runtime are dropped, which takes time,
before it `Leaves`. Each is a step. `sock` is who bound the socket file, or `Stale`
once that process has ended. A number is given again when its process is gone, to a
daemon or to another program of the user (`other`; `OtherStarts`, `OtherEnds`), so
that an old pid file may name a stranger, whom `kill(pid, 0)` takes for the daemon
(`IsRunning`); `mistaken` remembers that a stop has signalled one. `cli[c]` is a process of the command line tool in the
middle of `service.rs`: start looks, asks the manager or spawns; stop asks the
manager, reads the pid file, signals, waits, kills, removes both files. `unit`
is what the service manager is up to: `due` to start a daemon, `off`, or
watching a process, which launchd (`KeepAlive`) and systemd
(`Restart=on-failure`) restart under different conditions (`Restarts`). What
the managers themselves do is external. A three-second wait that runs out is a
step that is always possible.

Starts and stops that begin while another one is under way are counted in
`races`: the properties about a lone daemon are about behaviours with none, as
nothing in the code keeps two starts apart (see *Noted without a run*), and
`UpAgain` is about all of them.

*Fairness* (`FairSpec`): weak fairness of each daemon's steps, of the manager's
start of a unit that is due, of each command line process's steps, and of
`ShellOpens`: the user goes on opening shells, each of which runs `fore start`
if nobody answers (`fore.zsh:45`). Crashes, orders, other programs and races are bounded, so
they end.

### Safety, Preflight (pure operators, `RulesProofs`)

A command is a sequence of words and a line a sequence of commands; how a line
is taken apart is the grammar's business. `Marks[w]` is what the code finds in
a word by `starts_with` and `contains`. `Safety` has `assess` with each of its
rules, and the recursion of `find -exec` and `xargs` as a recursive function.
One name stands for each list of names that is treated alike. `Preflight` has
the second parser (`Place`, `Simple`, `Commands`; it skips wrappers by other
rules than `NamePlace` of Safety does), the guards, the previews and `Run`,
which combines them with the classifier, and `Findings`, the request. A *world*
is all that the checks look at; a directory walk is the number of files a word
names. `Plain(a)` is the set of places in the arguments `a` of words that are no
flags; `Lost` gives each of them what goes with it in an rm, all of a directory
only if rm is recursive (`Whole`), and the preview counts the sum over them, a
file that is named twice twice. Texts, their order and duplicates are left out.

### EnterKey, Gate (`MCEnterKey`, `EnterKeyProofs`, `RulesProofs`)

The line editor holds a line, commented out or not; the user types, recalls or
empties it, the model proposes, other programs change environment and files at
any time. Enter is three steps (`EnterAsks`, then `Answers` or `NoAnswer`) or
one (`EnterRuns`, `EnterConfirms`); between the question and the answer the
world may change but the line may not, as zle waits for the widget. Widgets
that the plugin wraps forget the confirmation, others do not, and with
zsh-autosuggestions none is wrapped (`wrapped`).

`Runs` is what the shell makes of a line that is commented out: nothing if it has
INTERACTIVE_COMMENTS (`comments`); otherwise `#` is a command that is not found, and
what does not wait for its success runs (`Live`: behind `;` or `||`, at the other end
of a pipe, in a substitution).

`Gate` says what this is for, with three variables: dangerous lines (`asks`), a
line shown as blocked and waiting (`offered`), and what ran and how. A dangerous
line that was looked at runs only by confirmation, and a confirmation uses up a
showing. EnterKey implements it (`GateSpec`) with `asks` the lines whose
findings block in every world, `offered` the variable `_fore_confirmed`, and
`ran` what ran unless nobody had looked (checks off, no daemon, time-out).

`Safer(v, w)`, for `MoreToLose`, says that the world `w` has at least as much to
lose as `v`: a word names the same kind of thing in both or nothing in `v`, with no
more files; what the checks take for production, a protected branch, a secret,
unmerged or uncommitted work in `v` is that in `w` too; the rest is equal.

*Abstracted:* the ghost text, cursor, messages; the buffer changes as a whole.

## 4. The runs

| run | instance | shows |
|---|---|---|
| `history` | 2 shells, 2 commands, predictor of 2, 2 imports of 3 files, clock of 2, 1 restart | types and capacity; `InflightTracksStore`, `FixMatchesHistory`: one Done names one command everywhere; `HotIsNewest`; `AgreesWhenAlone`; `CleanSessionsAreExact`; `ImportIsIdempotent`; `ImportsLieBehind`; `HistoryIsFinal` |
| `fix` | 1 session, 2 remembered calls, 1 Nl and 1 Fix request, threshold 2, cooldown 2 | `SomebodyWillAnswer` (no lost wake-up), `AnswerIsForAskedFailure`, `CountsConsecutiveFailures`; under fairness `PauseEnds`, `EveryRequestIsAnswered` |
| `trash` | a path here and one on another filesystem, 2 rms with 2 targets between them, 2 undos, a purge | `NothingElseIsLost`, `NothingIsTwice`, `JournalCoversTrash` |
| `lifecycle` | 3 process numbers, 2 command line processes, each manager, 1 crash, 1 order, and 1 race or 1 other program | `OneDaemonWhenAlone`, `StopStops`; under fairness `UpAgain` |
| `enter` | 94 lines, 4 directories, 3 environments, with and without safe rm, in shells with and without comments | `GateSpec`; `MoreToLose`, `SeesThroughWrappers` of the rules; `CommentHolds`, `DestructiveIsAsked` of the key |
| `history_order`, `fix_stale`, `trash_device`, `trash_partial`, `lifecycle_stranger`, `enter_comment`, `enter_borrowed` | smaller, or one option changed | the findings below |

Why the bounds suffice for what the properties tell apart. *History*: with two
shells each rule that forgets the session goes wrong; two commands of one shell
overtake each other, two of different shells interfere; a predictor of two
overflows with the third row, which imports provide; two of the files overlap in
one entry, one has an entry before its first time and one has no times and
begins with noise; an hour of two ticks ends within the clock. *FixService*: two
task slots let a failure replace one whose call still runs, with a third caller
that reports to the breaker between them; a threshold of two needs two reports
and a cooldown of two can be renewed while it passes. *Trash*: two pieces are
the least that can be torn apart, and two rms and two undos the least that clash
at a path; three targets together take longer than five minutes and showed
nothing else as far as they got. *Lifecycle*: three numbers are one daemon that
answers, one that starts in spite of it and one to be taken for another; an
initial state may have a stale socket, an old pid file and an installed unit. Races
and other programs share a bound (`MaxUpsets`), as the safety properties are about
behaviours without races, and the run would take more than five minutes with both.
*EnterKey*: the catalogue has lines on both sides of each rule's and each
guard's condition; directories with no, one and two files per name stand below,
between and at the thresholds, which are set to two; a session has one line, or
two of which one is always blocked. The History and Trash runs stop when their
bounds are used up, so deadlock is not checked there; the others run for ever
and are checked for it.

### Findings

- `history_order`: `import.rs:82-84` promises that file order is time order.
  Entries at the end of a file are spread towards the last full hour, which may
  lie before the last time in the file: their times then run backwards.
- `fix_stale`: a failure for which no fix is started (breaker open, or a command
  that was not recorded) leaves the older `LastFailure` (`daemon.rs:33`), and the
  next Ctrl-/ explains the wrong command.
- `trash_device`: after a complete copy and a removal that failed half-way,
  `safe_rm` removes its directory with the only complete copy (`undo.rs:14-16`).
- `trash_partial`: an undo that restores some targets marks all restored; the
  others can no longer be undone and are purged after a day instead of
  `keep_days` (`README.md:192`).
- `enter_comment`: a destructive proposal is put in the line behind `# `, so that
  Enter is a no-op (`fore.zsh:242-243`). zsh takes `#` for a comment in a typed
  line only under INTERACTIVE_COMMENTS, which is off by default and which the plugin
  never sets; what follows a `;` runs, and the daemon, which parses as bash does, has
  seen a comment. `CommentHolds`, of the run `enter`, is the part that holds.
- `enter_borrowed`: a destructive command is announced unless a preview "already
  established it's a no-op" (`preflight.rs:107-110`), but the code is content with such
  a preview of any command of the line: `rm notes; git push -f` pushes at the first
  Enter if notes is missing, or if rm goes to the trash. `DestructiveIsAsked` is the
  part that holds.
- `lifecycle_stranger`: a daemon of the manager that gave up, because another one
  answers, leaves its number in the pid file. Once another program has that number,
  `fore stop` (`service.rs:16`, `service.rs:91-99`) signals and kills that program,
  removes both files and reports success; the daemon listens on where nobody reaches
  it. `install.sh:102-103` counts on stop to end it.

### Noted without a run

- "Any edit resets the confirmation" (`fore.zsh:318`, `README.md:169`). Four widgets
  do (`fore.zsh:203-206`), and none of them with zsh-autosuggestions. A blocked line that
  is killed and yanked back, recalled, pasted or proposed again equals the one that was
  remembered and runs at the next Enter. `GateSpec` says what the code does keep: no
  other line runs, and a showing is used once.
- With `FORE_IGNORE=venv,prod`, the example of `fore.zsh:320`, the finding `prod`
  suppresses the finding `destructive` (`preflight.rs:112`) and is then silenced
  (`preflight.rs:116`): a `kubectl delete` in production runs at the first Enter. The
  hypothesis of `DestructiveAsked` leaves such lists out.
- One list of flags with values serves all wrappers (`safety.rs:168`,
  `preflight.rs:167`), and `-n` is on it: behind `sudo -n` neither parser sees the `rm`,
  which `safety.rs:5` says must be flagged. `SeesThroughWrappers` is about what both
  parsers peel off when it stands alone, and `sudo -n` is not.
- `command rm` is the real rm (`README.md:193`, `fore.zsh:388`), but the preview peels
  `command` off (`preflight.rs:411`): under `safe_rm` (`preflight.rs:63`) `command rm -rf
  build` runs at the first Enter, announced as a move to the trash.
- `predict.rs:49-50` claims the store's rule for `mark_done` but leaves the session
  out: with two shells the predictor gives a command the exit code of another
  session's. `AgreesWhenAlone` is the part that holds.
- `main.rs:52` says "Stop the daemon". launchd keeps its agent alive (`service.rs:186`)
  and stop does not unload it: the next daemon is due before stop is over. `StopStops`
  counts its start, if stop is not over by then, as a race.
- Of rows of one millisecond `recent` puts the one inserted first in front. At such a
  tie an imported row stands in front of a command typed after the import, and of two
  open rows of one shell `mark_done` takes, after a reload, the first and `record_done`
  the second. `ImportsLieBehind` and `AgreesWhenAlone` are stated without these ties.
- `fore stop` of a daemon of the manager reports "not running" if the manager has ended
  it already (`service.rs:100-106`); and it reports success as soon as the pid file is
  gone, while the process may still wait for its blocking threads (`leaving`).
- `README.md:225-226` says that nothing is sent for a line with a leading space.
  Its Done is sent (`fore.zsh:113`), and if an earlier Done of the session was
  lost, closes that command's row. `CleanSessionsAreExact` is the part that holds.
- `protocol.rs:39`: Fix "Returns the precomputed fix if ready, otherwise
  computes it now". A ready fix is refused while the breaker is open
  (`daemon.rs:295`), and the code never computes one in Fix: it waits for the
  call that `Done` started.
- `daemon.rs:119` says of another daemon's socket "Don't steal". Two daemons that
  start at once over a stale socket can: the second removes what the first has
  bound in the meantime. The first one then listens unseen. Removing the bound on
  races from `OneDaemonWhenAlone` shows it.
- The classifier takes for arguments what follows the first word that equals the
  command's name (`safety.rs:204`), which need not be the name itself: in
  `sudo -u git git push --force`, with a user named git, it takes the second `git`
  for the sub-command, and the push is only Privileged. `Written` leaves this out.
- Importing a file without times again after an hour has passed inserts its
  entries again, with other times; `import.rs:93-94` claims it only within the hour.

## 5. The proofs

All are for any values of the constants that satisfy the module's assumption
(`HistoryAssumption`, `FixAssumption`, `TrashAssumption`, `LifecycleAssumption`,
`SafetyAssumption`, `EnterKeyAssumption`)
and of the theorem where it has one, so for any number of sessions, commands,
tasks, requests, operations, processes, files, lines and worlds. The assumptions
say that constants are of their kind and that the values which stand for
"nothing" (`NoExit`, `NoTime`, `None`, `Stale`, and the words for what a service
manager does when it watches no process) are not values of what they are
missing from: in the code they are a NULL, a `None` or another enum variant. That of
EnterKey adds that lines are sequences of commands and that the files are those of the
directory, whatever the shell's environment says.

**HistoryProofs.** `TypeCorrect`, `InflightCorrect`, `FixCorrect` and
`HistoryFinal`. `InflightTracksStore` and `FixMatchesHistory` are not inductive.
`HistoryInv` adds to them and to `TypeOK`: `DownForgets` (no command is in flight
while the daemon is down, so that `Start` may declare every open row older than
itself) and `FailureHasCode` (a remembered failure has a real exit code, so that
its row is closed and no later Done can touch it). The step that matters is
`Done`: the row it closes is the newest open row of the session, and by
`InflightTracksStore` that is the row in flight, if one is. The lemma
`LatestOpenIsOpen` gives CHOOSE its meaning, from the existence of a maximum in
a bounded set of numbers (`HasMax`, by the least-number principle). For imports,
`FileEntries` and `TimeOfType` show that every entry is given a number.

**StoreProofs.** `ImportIdempotent` and `ImportsBehind` hold by `TableInv`, which
adds `AllPast`: no row is of a time that is not yet. A command is inserted at the
clock, so what was imported before it is of no later time only if no import makes up
a time in the future; `TimeOfPast` shows that none does, from the shape of the
interpolation (`TimeOfParts`) and the rounding of i64 division (`QuotientBelow`).
For `ImportIdempotent` what an import appends is a selection of `Fresh`, each
entry once and in file order (`ImportedFrom`). `CleanSessionsExact` is the
furthest from inductive, since a Done names no command: `SessionsInv` says for
each session what is running and on its way. `Numbered` orders the numbers of
commands by how far they got; `InTurn` says of a session that is still clean
that every command recorded or about to be still awaits its exit code, and that
at most one row is open, of the first of these commands. The exit code that
arrives next in order then belongs to that row (`DoneSession`), and a row that is
inserted in order finds no other open (`ExecSession`).

**PredictorProofs.** `HotCorrect` needs `AllPast` again: `push` puts a command in
front of all others and drops the last, which is right only because no listed or
unlisted row is of a later time (`HotPushed`). The list is right up to the order of
rows of one millisecond; a reload gives one of these lists (`HotLoaded`).
`AgreesAlone` is about one shell of which no two commands are of one millisecond (at
a tie it is false, see *Noted without a run*). It needs `HotIsNewest`
itself, and that rows of shells are in the order of their times (`LiveOrdered`),
that imported rows are never open (`ImportedEnded`), and that the daemon has seen
every row of a shell (`KnownRows`): then the latest open row of the one session
(`record_done`) is the newest of all open rows, so that it is the first open
entry of the list (`mark_done`), or, if it was evicted, no entry is open
(`DonePredictor`).

**FixProofs.** `TypeCorrect`, `NoLostWakeup`, `RightAnswer`, `CounterCorrect`.
The first needs `Equipped` (a request that waits has a task, a call that ended
has a result), the second the fact that a slot is free only when no session and
no request refers to it, `RightAnswer` needs `OwnChannel` (a channel is written
by its own task only), and the counter is proved from `CounterIsRun`: `failures`
is the length of the run of errors at the end of the reported outcomes, up to
the threshold.

**TrashProofs.** `TypeCorrect`, `NothingLost`, `NothingTwice`, `JournalCovers`,
all from one invariant, `Inv`. None of the three properties is inductive: that
`NothingElseIsLost` survives the removal after a copy needs `Copied` (what is at
a target that was copied is in its slot, or was put there since and is `late`);
that it survives a rename onto a path which was checked a step before needs
`UndoRight` (what is at the destination by then is `late`), and both need the
step that put it there to have counted the piece as `late`, which is what
`AtRiskOf` says of `AtRisk`. `NothingIsTwice` needs its converse for the slots
(`SlotsAlone`), and `Written`: a piece that is new is nowhere. That an undo,
a purge and an rm of the same operation never meet is `JournalRight`, `UndoRight`
and `PurgeRight`: all three only know operations whose rm has ended.
`JournalCovers` follows from `Filled` (a slot that was filled by a rename has an
entry in the rm's memory) and from the journal being that memory. Each kind of
move is reduced to one lemma: `TargetStep` for rm (with `Transfers`),
`RestoresStep` for undo (with `Restores`), `NothingMoves` for the rest.

**LifecycleProofs.** `TypeCorrect`, `OneDaemon`, `StopCorrect`. Neither property is
inductive. `Alone` says, for behaviours without races, how far several processes
can have got at once: one at most is starting or ending, and from the moment it
has found that nobody answers, until it listens, it is the only process; the same
while it removes its files. That is what makes it harmless that `run` looks,
removes and binds in separate steps. `ClosedAlone` says of a `fore stop` between
its signal and its success that it is the only one, and that the process it waits
for, if it has not removed its files yet, is the only process left, still named by the
pid file: so the removal of both
files touches nobody else's. `Named` gives the process it waits for a number, and
`Written` says that a process on its way out is not named by the pid file any more, so
that nobody signals it for the daemon. Both properties are about behaviours in which no
stop has signalled another program (`~mistaken`): the run `lifecycle_stranger` shows
that they are false of the others. What other programs do is `OtherInv`.
The invariant is `LifecycleInv`; each system call is reduced to what it does to
the processes (`SpawnedAlone`, `TerminatedAlone`, `ExitsAlone`), and a step that
begins a start or stop during another counts as a race, after which nothing is
claimed.

**EnterKeyProofs.** `TypeCorrect`, `GateCorrect`, `ProposalsInert`,
`DestructiveAsked`. `TypeCorrect` holds by `Inv`, which adds
`Asked` (what is asked comes from a shell, about a line that is to be checked);
that nothing blocks an empty or commented line (`NothingBlocks`) is what keeps
such a line from ever waiting for the second Enter. `GateCorrect` is the
refinement: the initial states map to Gate's, `Answers` to its Offer or Pass,
`EnterConfirms` to Confirm, every other action to Other, and Pass is allowed
because a line that is blocked in every world is blocked in this one
(`PassesAreSafe`). `ProposalsInert` proves `CommentHolds` for every shell. It needs
`Muted` (what the model wrote and still is in the line is commented out, or is not
destructive) and what a shell makes of a comment: nothing if it knows comments, and
nothing either of a line that goes on behind `&&` only (`OnlyConditional`, `WhatRuns`).
`DestructiveAsked` goes through every guard and preview. What blocks a command other
than by the classifier's fallback is one of six checks (`WhatDecides`), and the theorem
assumes that the user silences none of these: without that it is false (see *Noted
without a run*). What keeps the fallback away without a block is a note, and only the preview of
an rm makes one (`RmExcuses`, `PreviewExcuses`, `ExcuseOfCommand`): the conclusion says
what such an rm is in terms of the directory, where none of its targets exists, or of
the option safe rm. That it need not be the destructive command itself is the finding
`enter_borrowed`. None of the four depends on what the rules of the classifier are.

**RulesProofs.** `SeesThrough` and `MoreIsSaid` state the invariants
`SeesThroughWrappers` and `MoreToLose`; both are about the rules, so they hold of
every line at once (`Unseen` and `Inverted` are empty) and need no step of EnterKey.
Both go through recursive definitions. Induction over an operator is out of reach, but the
least-number principle for sets is not: `Recursion` proves, for functions as values,
that an equation which gives each value from the one at a smaller argument has a
solution, and each recursive definition of Safety and Preflight is brought under it
(`WalkExists`, `RiskEquation`, `SumsExist`).

*SeesThrough.* The parsers walk over the words of a command. `Through` says that
a walk which comes to a place goes on from there as if it had begun there,
`SameWalk` that a walk does not depend on the words it has not reached, and
`Shifted` that it does not depend on what stands before it. With these, a walk over
`p \o s` first peels off `p` and then finds in `s` what it finds in `s` alone; the
verdict of `p \o s` is that of `s`, or graver behind sudo. Hypotheses:
what can be put before a command (`WrappedBy`) is peeled off by both parsers when it
stands alone (`Peeled`), and lines are `Written`: unless a command
begins with a wrapper, it begins with its name, which is not among the words before it. `UsualPeeled`
and `Chained` show what `Peeled` covers: each wrapper, `timeout` with its duration,
a wrapper with a flag that takes a value, or with an assignment, and every chain of
them, under the one condition that wrappers' names have no `-` or `=`. It does not
hold of `sudo -n`, where the property is false (see *Noted without a run*).

*MoreIsSaid.* Not each finding is graver where there is more to lose: one can stand in
for another, and an rm of which nothing exists stands in for the verdict of the
classifier. `Covered(A, B)` says that each finding of `A` has one in `B` that is no less
severe, and that is silenced only where it is silenced or that can decide;
`Excused(A, B)` says that what keeps the fallback away in `B` does so in `A`, or
that there is nothing to lose in `A`. Both are shown for every guard and preview
(`GuardsCovered`, `RmCovered`, `FileCovered`, `GitPreviewCovered`), then for a
whole line (`SpecificCovered`, `RunCovered`); `SumGrows` says that the sum over the
targets of an rm grows with its terms. Hypotheses: `WellFormed` (worlds, words and
thresholds are of their type) and `Heeding`, the hypothesis of `DestructiveAsked`:
no check that can decide is silenced. A silenced check stays silent when it is the
one that would have covered another.

TLC finds all four hypotheses true of the constants of the run `enter`, and `Peeled`
false of `sudo -n`.

*Only model-checked:* the liveness properties `PauseEnds`, `EveryRequestIsAnswered`
and `UpAgain` (fairness is beyond the prover). Every invariant and action property
of a passing run is stated by a theorem. The properties of the findings are false,
so nothing is proved of them.

## 6. What is not modelled, and why

The formatting of requests, replies and messages; the regular expressions of the
redactor, the byte level of history files and configuration, the grammar of the
shell (data without control state); the ranking of suggestions, aliases and
statistics (reads of the state on which nothing depends); log rotation; flag
parsing of `fore rm` and targets inside each other; model providers, doctor,
installers, demo and development scripts (pure I/O).
