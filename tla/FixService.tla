----------------------------- MODULE FixService -----------------------------
(***************************************************************************)
(* Fixes for failed commands and the breaker in front of the model.        *)
(*                                                                         *)
(* When a command fails, the daemon (src/daemon.rs, Request::Done) starts  *)
(* a call of the language model before the user asks, as a task of its own *)
(* with a watch channel of its own, and keeps the receiving end as the     *)
(* session's last_failure.  Ctrl-/ (Request::Fix) clones that end and      *)
(* waits on it; Ctrl-Space (Request::Nl) calls the model itself.  Both     *)
(* report the outcome to the circuit breaker, two atomics that no lock     *)
(* protects: Circuit::record counts with one operation and opens the       *)
(* breaker with another, and every reader checks is_open long before it    *)
(* acts on the answer.                                                     *)
(*                                                                         *)
(* The State mutex is never held across an await, so what a handler does   *)
(* under it is one step; what it does before, between and after are steps  *)
(* of their own.  A request or a task is a slot that is used again once    *)
(* nobody refers to it: the behaviours never end.  What a model says is    *)
(* left out: a call ends well ("ok") or not ("err": transport, HTTP status,*)
(* its timeout, or a reply that does not parse).                           *)
(***************************************************************************)
EXTENDS Naturals, Sequences, FiniteSets

CONSTANTS
  Sessions,   \* the zsh sessions
  Tasks,      \* bound: speculative calls that are remembered at a time
  Askers,     \* bound: Nl requests at a time
  Fixers,     \* bound: Fix requests at a time
  Threshold,  \* Circuit.threshold
  Cooldown,   \* Circuit.cooldown_ms, in ticks
  None        \* no task

ASSUME FixAssumption ==
  /\ Threshold \in Nat \ {0}   \* daemon.rs, run: circuit_failures.max(1)
  /\ Cooldown \in Nat
  /\ Tasks \cap Askers = {}
  /\ None \notin Tasks

VARIABLES
  failures,     \* Circuit.failures, counted up to Threshold
  openFor,      \* Circuit.open_until_ms - now_ms(), if that is positive
  inflight,     \* inflight[s]: a command of s is remembered as running
  lastFailure,  \* lastFailure[s]: the task whose channel s holds, or None
  call,         \* call[c]: how far the model call of task or asker c is
  chan,         \* chan[t]: the value in the watch channel of task t
  fixer,        \* fixer[f]: Fix request f
  \* history variables
  outcomes,     \* the last Threshold outcomes the breaker was told
  current       \* current[s]: lastFailure[s] is of the latest failure of s

vars == <<failures, openFor, inflight, lastFailure, call, chan, fixer, outcomes, current>>

Callers == Tasks \cup Askers

Idle       == [pc |-> "idle", result |-> "none"]
Empty      == [result |-> "none", by |-> None]
IdleFixer  == [pc |-> "idle", session |-> None, task |-> None, current |-> FALSE,
               answer |-> Empty]
Say(what)  == [result |-> what, by |-> None]

\* daemon.rs, Circuit::is_open.
IsOpen == openFor > 0

\* A task nobody runs, keeps or waits for.
Free(t) == /\ call[t].pc = "idle"
           /\ \A s \in Sessions : lastFailure[s] # t
           /\ \A f \in Fixers : fixer[f].task # t

Init ==
  /\ failures = 0
  /\ openFor = 0
  /\ inflight = [s \in Sessions |-> FALSE]
  /\ lastFailure = [s \in Sessions |-> None]
  /\ call = [c \in Callers |-> Idle]
  /\ chan = [t \in Tasks |-> Empty]
  /\ fixer = [f \in Fixers |-> IdleFixer]
  /\ outcomes = << >>
  /\ current = [s \in Sessions |-> TRUE]

-----------------------------------------------------------------------------
(***************************************************************************)
(* Commands start and end.                                                 *)
(***************************************************************************)

\* daemon.rs, Request::Exec of a line that is recorded.
Exec(s) ==
  /\ inflight' = [inflight EXCEPT ![s] = TRUE]
  /\ UNCHANGED <<failures, openFor, lastFailure, call, chan, fixer, outcomes, current>>

\* daemon.rs, Request::Done with an exit code that needs no fix.
DoneQuietly(s) ==
  /\ inflight' = [inflight EXCEPT ![s] = FALSE]
  /\ UNCHANGED <<failures, openFor, lastFailure, call, chan, fixer, outcomes, current>>

\* Mutant: Done does not ask the breaker.
DoneUnchecked(s, t) ==
  /\ inflight[s] /\ Free(t)
  /\ inflight' = [inflight EXCEPT ![s] = FALSE]
  /\ lastFailure' = [lastFailure EXCEPT ![s] = t]
  /\ chan' = [chan EXCEPT ![t] = Empty]
  /\ call' = [call EXCEPT ![t].pc = "calling"]
  /\ current' = [current EXCEPT ![s] = TRUE]
  /\ UNCHANGED <<failures, openFor, fixer, outcomes>>

\* daemon.rs, Request::Done of a failure for which a fix is started: a channel
\* of its own replaces what the session remembered.
DoneWithFix(s, t) ==
  /\ ~IsOpen /\ inflight[s] /\ Free(t)
  /\ inflight' = [inflight EXCEPT ![s] = FALSE]
  /\ lastFailure' = [lastFailure EXCEPT ![s] = t]
  /\ chan' = [chan EXCEPT ![t] = Empty]
  /\ call' = [call EXCEPT ![t].pc = "calling"]
  /\ current' = [current EXCEPT ![s] = TRUE]
  /\ UNCHANGED <<failures, openFor, fixer, outcomes>>

\* daemon.rs, Request::Done of a failure that starts no fix: the breaker is
\* open, or the command was not recorded.
DoneWithoutFix(s) ==
  /\ IsOpen \/ ~inflight[s]
  /\ inflight' = [inflight EXCEPT ![s] = FALSE]
  /\ current' = [current EXCEPT ![s] = FALSE]
  /\ UNCHANGED <<failures, openFor, lastFailure, call, chan, fixer, outcomes>>

-----------------------------------------------------------------------------
(***************************************************************************)
(* A model call, of a task or of an Nl request.                            *)
(***************************************************************************)

\* daemon.rs, Request::Nl: the breaker is asked before the lock is taken and
\* before the model is called; when it is open the request ends at once.
Ask(a) ==
  /\ call[a].pc = "idle" /\ ~IsOpen
  /\ call' = [call EXCEPT ![a].pc = "checked"]
  /\ UNCHANGED <<failures, openFor, inflight, lastFailure, chan, fixer, outcomes, current>>

AskCalls(a) ==
  /\ call[a].pc = "checked"
  /\ call' = [call EXCEPT ![a].pc = "calling"]
  /\ UNCHANGED <<failures, openFor, inflight, lastFailure, chan, fixer, outcomes, current>>

\* assist.rs, fix and nl, on llm.rs, Llm::complete: every way a call can end.
CallEnds(c, result) ==
  /\ call[c].pc = "calling"
  /\ call' = [call EXCEPT ![c] = [pc |-> "ended", result |-> result]]
  /\ UNCHANGED <<failures, openFor, inflight, lastFailure, chan, fixer, outcomes, current>>

\* The last Threshold members of outcomes with one more.
Remember(result) ==
  LET all == Append(outcomes, result)
  IN  IF Len(all) > Threshold THEN Tail(all) ELSE all

\* Mutant: a success does not reset the counter.
RecordWithoutReset(c) ==
  /\ call[c].pc = "ended"
  /\ outcomes' = Remember(call[c].result)
  /\ IF call[c].result = "ok"
     THEN /\ failures' = failures
          /\ call' = [call EXCEPT ![c].pc = "recorded"]
     ELSE LET n == failures + 1
          IN  /\ failures' = IF n < Threshold THEN n ELSE Threshold
              /\ call' = [call EXCEPT ![c].pc =
                            IF n >= Threshold THEN "tripping" ELSE "recorded"]
  /\ UNCHANGED <<openFor, inflight, lastFailure, chan, fixer, current>>

\* daemon.rs, Circuit::record: one atomic operation on failures.
Record(c) ==
  /\ call[c].pc = "ended"
  /\ outcomes' = Remember(call[c].result)
  /\ IF call[c].result = "ok"
     THEN /\ failures' = 0
          /\ call' = [call EXCEPT ![c].pc = "recorded"]
     ELSE LET n == failures + 1
          IN  /\ failures' = IF n < Threshold THEN n ELSE Threshold
              /\ call' = [call EXCEPT ![c].pc =
                            IF n >= Threshold THEN "tripping" ELSE "recorded"]
  /\ UNCHANGED <<openFor, inflight, lastFailure, chan, fixer, current>>

\* Mutant: a late failure adds a cooldown to the one that runs.
TripAgain(c) ==
  /\ call[c].pc = "tripping"
  /\ openFor' = openFor + Cooldown
  /\ call' = [call EXCEPT ![c].pc = "recorded"]
  /\ UNCHANGED <<failures, inflight, lastFailure, chan, fixer, outcomes, current>>

\* daemon.rs, Circuit::record: the store that opens the breaker.
Trip(c) ==
  /\ call[c].pc = "tripping"
  /\ openFor' = Cooldown
  /\ call' = [call EXCEPT ![c].pc = "recorded"]
  /\ UNCHANGED <<failures, inflight, lastFailure, chan, fixer, outcomes, current>>

\* Mutant: only a fix is sent, an error is just logged.
DeliverFixesOnly(t) ==
  /\ call[t].pc = "recorded"
  /\ chan' = IF call[t].result = "err" THEN chan
             ELSE [chan EXCEPT ![t] = [result |-> "ok", by |-> t]]
  /\ call' = [call EXCEPT ![t] = Idle]
  /\ UNCHANGED <<failures, openFor, inflight, lastFailure, fixer, outcomes, current>>

\* daemon.rs, Request::Done, end of the task: tx.send(Some(r)).
Deliver(t) ==
  /\ call[t].pc = "recorded"
  /\ chan' = [chan EXCEPT ![t] = [result |-> call[t].result, by |-> t]]
  /\ call' = [call EXCEPT ![t] = Idle]
  /\ UNCHANGED <<failures, openFor, inflight, lastFailure, fixer, outcomes, current>>

\* daemon.rs, Request::Nl: the proposal or the error goes to the client.
AskReturns(a) ==
  /\ call[a].pc = "recorded"
  /\ call' = [call EXCEPT ![a] = Idle]
  /\ UNCHANGED <<failures, openFor, inflight, lastFailure, chan, fixer, outcomes, current>>

-----------------------------------------------------------------------------
(***************************************************************************)
(* Ctrl-/.                                                                 *)
(***************************************************************************)

Answer(f, what) == fixer' = [fixer EXCEPT ![f].pc = "answered", ![f].answer = what]

\* daemon.rs, Request::Fix: an open breaker ends the request.
Fix(f, s) ==
  /\ fixer[f].pc = "idle"
  /\ fixer' = [fixer EXCEPT ![f] =
       [IdleFixer EXCEPT !.session = s,
                         !.pc      = IF IsOpen THEN "answered" ELSE "checked",
                         !.answer  = IF IsOpen THEN Say("paused") ELSE Empty]]
  /\ UNCHANGED <<failures, openFor, inflight, lastFailure, call, chan, outcomes, current>>

\* Mutant: wait until the session has a failure.
FixAwaitsFailure(f) ==
  LET s == fixer[f].session
  IN
  /\ fixer[f].pc = "checked" /\ lastFailure[s] # None
  /\ fixer' = [fixer EXCEPT ![f].pc      = "waiting",
                            ![f].task    = lastFailure[s],
                            ![f].current = current[s]]
  /\ UNCHANGED <<failures, openFor, inflight, lastFailure, call, chan, outcomes, current>>

\* daemon.rs, Request::Fix, under the lock: clone the receiver.
FixLooksUp(f) ==
  LET s == fixer[f].session
  IN
  /\ fixer[f].pc = "checked"
  /\ IF lastFailure[s] = None
     THEN Answer(f, Say("nothing"))
     ELSE fixer' = [fixer EXCEPT ![f].pc      = "waiting",
                                 ![f].task    = lastFailure[s],
                                 ![f].current = current[s]]
  /\ UNCHANGED <<failures, openFor, inflight, lastFailure, call, chan, outcomes, current>>

\* Mutant: look the session up again after the wait.
FixLooksUpAgain(f) ==
  LET t == lastFailure[fixer[f].session]
  IN
  /\ fixer[f].pc = "waiting" /\ chan[t].result # "none"
  /\ Answer(f, chan[t])
  /\ UNCHANGED <<failures, openFor, inflight, lastFailure, call, chan, outcomes, current>>

\* daemon.rs, Request::Fix: the channel has a value, now or in time.
FixReturns(f) ==
  /\ fixer[f].pc = "waiting" /\ chan[fixer[f].task].result # "none"
  /\ Answer(f, chan[fixer[f].task])
  /\ UNCHANGED <<failures, openFor, inflight, lastFailure, call, chan, outcomes, current>>

\* daemon.rs, Request::Fix: timeout_s passed, "fix is still computing".
FixTimesOut(f) ==
  /\ fixer[f].pc = "waiting" /\ chan[fixer[f].task].result = "none"
  /\ Answer(f, Say("computing"))
  /\ UNCHANGED <<failures, openFor, inflight, lastFailure, call, chan, outcomes, current>>

\* The client has its answer; the request is over.
FixIsRead(f) ==
  /\ fixer[f].pc = "answered"
  /\ fixer' = [fixer EXCEPT ![f] = IdleFixer]
  /\ UNCHANGED <<failures, openFor, inflight, lastFailure, call, chan, outcomes, current>>

-----------------------------------------------------------------------------
\* The cooldown passes.
Tick ==
  /\ IsOpen
  /\ openFor' = openFor - 1
  /\ UNCHANGED <<failures, inflight, lastFailure, call, chan, fixer, outcomes, current>>

\* The daemon dies and another starts (daemon.rs, run): nothing of this is kept,
\* and a client that waits loses its connection.
Restart ==
  /\ failures' = 0 /\ openFor' = 0
  /\ inflight' = [s \in Sessions |-> FALSE]
  /\ lastFailure' = [s \in Sessions |-> None]
  /\ call' = [c \in Callers |-> Idle]
  /\ chan' = [t \in Tasks |-> Empty]
  /\ fixer' = [f \in Fixers |-> IdleFixer]
  /\ outcomes' = << >>
  /\ current' = [s \in Sessions |-> TRUE]

Command == \E s \in Sessions : \/ Exec(s)
                               \/ DoneQuietly(s)
                               \/ \E t \in Tasks : DoneWithFix(s, t)
                               \/ DoneWithoutFix(s)
Model(c)   == \/ \E result \in {"ok", "err"} : CallEnds(c, result)
              \/ Record(c)
              \/ Trip(c)
Request(f) == FixLooksUp(f) \/ FixReturns(f) \/ FixTimesOut(f)

Next ==
  \/ Command
  \/ \E a \in Askers : Ask(a) \/ AskCalls(a) \/ AskReturns(a)
  \/ \E c \in Callers : Model(c)
  \/ \E t \in Tasks : Deliver(t)
  \/ \E f \in Fixers : (\E s \in Sessions : Fix(f, s)) \/ Request(f) \/ FixIsRead(f)
  \/ Tick
  \/ Restart

(***************************************************************************)
(* Fairness: the executor runs every task that can run, every HTTP call    *)
(* has a timeout (llm.rs, Llm::new), and time passes.  Nothing makes a     *)
(* shell send a request or a daemon die.                                   *)
(***************************************************************************)
Fairness ==
  /\ \A c \in Callers : WF_vars(Model(c))
  /\ \A t \in Tasks : WF_vars(Deliver(t))
  /\ \A a \in Askers : WF_vars(AskCalls(a) \/ AskReturns(a))
  /\ \A f \in Fixers : WF_vars(Request(f))
  /\ WF_vars(Tick)

Spec == Init /\ [][Next]_vars
FairSpec == Spec /\ Fairness

-----------------------------------------------------------------------------
(***************************************************************************)
(* Properties.                                                             *)
(***************************************************************************)

Results  == {"ok", "err"}
Channel  == [result : Results \cup {"none"}, by : Tasks \cup {None}]
Stage    == {"idle", "checked", "calling", "ended", "tripping", "recorded"}
ModelCall == [pc : Stage, result : Results \cup {"none"}]
Reply    == [result : Results \cup {"none", "paused", "nothing", "computing"},
             by : Tasks \cup {None}]
FixRequest == [pc : {"idle", "checked", "waiting", "answered"},
               session : Sessions \cup {None}, task : Tasks \cup {None},
               current : BOOLEAN, answer : Reply]

\* Every variable holds values of its kind; a pause is never longer than the
\* cooldown.
TypeOK ==
  /\ failures \in 0..Threshold
  /\ openFor \in 0..Cooldown
  /\ inflight \in [Sessions -> BOOLEAN]
  /\ lastFailure \in [Sessions -> Tasks \cup {None}]
  /\ call \in [Callers -> ModelCall]
  /\ chan \in [Tasks -> Channel]
  /\ fixer \in [Fixers -> FixRequest]
  /\ outcomes \in Seq(Results) /\ Len(outcomes) <= Threshold
  /\ current \in [Sessions -> BOOLEAN]

Working(t) == call[t].pc # "idle"
Filled(t)  == chan[t].result # "none"

\* No lost wake-up: a session never remembers, and a request never waits on, a
\* channel that is empty and that no task is going to fill, however failures
\* replace each other while calls run and requests wait.
SomebodyWillAnswer ==
  /\ \A s \in Sessions : lastFailure[s] # None =>
       Working(lastFailure[s]) \/ Filled(lastFailure[s])
  /\ \A f \in Fixers : fixer[f].pc = "waiting" =>
       Working(fixer[f].task) \/ Filled(fixer[f].task)

\* A fix or an error that Ctrl-/ gets comes from the call for the failure the
\* session remembered when it asked, never from an older call that ended later
\* and never from one that replaced it meanwhile.
AnswerIsForAskedFailure ==
  \A f \in Fixers :
    fixer[f].pc = "answered" /\ fixer[f].answer.result \in Results
      => fixer[f].answer.by = fixer[f].task

\* The counter stands at the threshold exactly when the last Threshold calls
\* that were reported, by whatever tasks and requests and in whatever order
\* they ended, all failed ("consecutive", config.rs:32).
CountsConsecutiveFailures ==
  failures = Threshold <=>
    Len(outcomes) = Threshold /\ \A i \in DOMAIN outcomes : outcomes[i] = "err"

\* The pause ends again and again: calls that were under way when the breaker
\* opened may fail late and prolong it, but as no call begins while it is open
\* they run out (README, "it retries after the cooldown").
PauseEnds == IsOpen ~> ~IsOpen

\* Every Fix request and every Nl request gets an answer.
EveryRequestIsAnswered ==
  /\ \A f \in Fixers : fixer[f].pc = "checked" ~> fixer[f].pc \in {"answered", "idle"}
  /\ \A a \in Askers : call[a].pc = "checked" ~> call[a].pc = "idle"

\* daemon.rs:33 says a session's last_failure is "the most recent failure in a
\* session", and protocol.rs:38 that Ctrl-/ explains why that one failed.
FixIsAboutLatestFailure ==
  \A f \in Fixers :
    fixer[f].pc = "answered" /\ fixer[f].answer.result = "ok"
      => fixer[f].current
=============================================================================
