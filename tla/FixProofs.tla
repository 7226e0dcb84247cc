----------------------------- MODULE FixProofs -----------------------------
(***************************************************************************)
(* Proofs about FixService, for every number of sessions, tasks and        *)
(* requests and every threshold and cooldown.                              *)
(***************************************************************************)
EXTENDS FixService, TLAPS

(***************************************************************************)
(* The inductive invariant, part 1: types, and what a request or a call    *)
(* that has come so far has got.                                           *)
(***************************************************************************)
Equipped ==
  /\ \A f \in Fixers : fixer[f].pc = "checked" => fixer[f].session \in Sessions
  /\ \A f \in Fixers : fixer[f].pc = "waiting" => fixer[f].task \in Tasks
  /\ \A c \in Callers : call[c].pc \in {"ended", "tripping", "recorded"}
                          => call[c].result \in Results

WellFormed == TypeOK /\ Equipped

LEMMA WellFormedInit == Init => WellFormed
<1> SUFFICES ASSUME Init PROVE WellFormed
  OBVIOUS
<1>1. IdleFixer \in FixRequest /\ Idle \in ModelCall /\ Empty \in Channel
  BY DEF IdleFixer, FixRequest, Reply, Idle, ModelCall, Stage, Empty, Channel
<1>2. << >> \in Seq(Results) /\ Len(<< >>) = 0
  OBVIOUS
<1>3. outcomes \in Seq(Results) /\ Len(outcomes) <= Threshold
  BY <1>2, FixAssumption DEF Init
<1>4. failures \in 0..Threshold /\ openFor \in 0..Cooldown
  BY FixAssumption DEF Init
<1>5. TypeOK
  BY <1>1, <1>3, <1>4 DEF Init, TypeOK
<1>6. Equipped
  BY DEF Init, Equipped, IdleFixer, Idle
<1> QED BY <1>5, <1>6 DEF WellFormed

\* The window of outcomes: one more, and the oldest leaves when it is full.
LEMMA RememberIs ==
  ASSUME WellFormed, NEW r \in Results
  PROVE  /\ Remember(r) \in Seq(Results) /\ Len(outcomes) \in Nat
         /\ Len(outcomes) < Threshold =>
              /\ Len(Remember(r)) = Len(outcomes) + 1
              /\ \A i \in 1..Len(outcomes) : Remember(r)[i] = outcomes[i]
              /\ Remember(r)[Len(outcomes) + 1] = r
         /\ Len(outcomes) = Threshold =>
              /\ Len(Remember(r)) = Threshold
              /\ \A i \in 1..(Threshold - 1) : Remember(r)[i] = outcomes[i + 1]
              /\ Remember(r)[Threshold] = r
<1> DEFINE all == Append(outcomes, r)
<1>1. outcomes \in Seq(Results) /\ Len(outcomes) \in Nat /\ Threshold \in Nat \ {0}
  BY FixAssumption DEF WellFormed, TypeOK
<1>2. /\ all \in Seq(Results) /\ Len(all) = Len(outcomes) + 1
      /\ \A i \in 1..Len(outcomes) : all[i] = outcomes[i]
      /\ all[Len(outcomes) + 1] = r
  BY <1>1
<1>3. Remember(r) = IF Len(all) > Threshold THEN Tail(all) ELSE all
  BY DEF Remember
<1> HIDE DEF all
<1>4. CASE Len(outcomes) < Threshold
  <2>1. Remember(r) = all
    BY <1>1, <1>2, <1>3, <1>4
  <2> QED BY <1>1, <1>2, <1>4, <2>1
<1>5. CASE Len(outcomes) = Threshold
  <2>1. Remember(r) = Tail(all) /\ all # << >>
    BY <1>1, <1>2, <1>3, <1>5
  <2>2. /\ Tail(all) \in Seq(Results) /\ Len(Tail(all)) = Len(all) - 1
        /\ \A i \in 1..(Len(all) - 1) : Tail(all)[i] = all[i + 1]
    BY <1>2, <2>1
  <2>3. \A i \in 1..(Threshold - 1) : Tail(all)[i] = outcomes[i + 1]
    BY <1>1, <1>2, <1>5, <2>2
  <2>4. Tail(all)[Threshold] = r
    BY <1>1, <1>2, <1>5, <2>2
  <2> QED BY <1>1, <1>2, <1>5, <2>1, <2>2, <2>3, <2>4
<1>6. Len(outcomes) <= Threshold
  BY DEF WellFormed, TypeOK
<1> QED BY <1>1, <1>4, <1>5, <1>6

\* What happens to one Fix request when it is answered.
LEMMA AnswerType ==
  ASSUME WellFormed, NEW f \in Fixers, NEW what \in Reply, Answer(f, what)
  PROVE  /\ fixer' \in [Fixers -> FixRequest]
         /\ fixer'[f].pc = "answered" /\ fixer'[f].answer = what
         /\ fixer'[f].task = fixer[f].task
         /\ \A g \in Fixers \ {f} : fixer'[g] = fixer[g]
<1>1. fixer \in [Fixers -> FixRequest]
  BY DEF WellFormed, TypeOK
<1>2. fixer' = [fixer EXCEPT ![f].pc = "answered", ![f].answer = what]
  BY DEF Answer
<1>3. fixer'[f] = [[fixer[f] EXCEPT !.pc = "answered"] EXCEPT !.answer = what]
  BY <1>1, <1>2
<1>4. \A g \in Fixers \ {f} : fixer'[g] = fixer[g]
  BY <1>1, <1>2
<1>5. fixer[f] \in FixRequest
  BY <1>1
<1>6. /\ fixer'[f] \in FixRequest
      /\ fixer'[f].pc = "answered" /\ fixer'[f].answer = what
      /\ fixer'[f].task = fixer[f].task
  BY <1>3, <1>5 DEF FixRequest
<1>7. DOMAIN fixer' = Fixers /\ fixer' = [g \in Fixers |-> fixer'[g]]
  BY <1>1, <1>2
<1>8. \A g \in Fixers : fixer'[g] \in FixRequest
  BY <1>1, <1>4, <1>6
<1> QED BY <1>4, <1>6, <1>7, <1>8

\* What looking up the failure does to the request.
LEMMA LookUpType ==
  ASSUME WellFormed, NEW f \in Fixers, FixLooksUp(f)
  PROVE  /\ fixer' \in [Fixers -> FixRequest]
         /\ \A g \in Fixers \ {f} : fixer'[g] = fixer[g]
         /\ \/ /\ fixer'[f].pc = "answered" /\ fixer'[f].answer = Say("nothing")
            \/ /\ fixer'[f].pc = "waiting" /\ fixer'[f].task \in Tasks
               /\ \E s \in Sessions : fixer'[f].task = lastFailure[s]
<1> DEFINE s == fixer[f].session
<1>1. s \in Sessions
  BY DEF WellFormed, Equipped, FixLooksUp
<1>2. CASE lastFailure[s] = None
  <2>1. Say("nothing") \in Reply
    BY DEF Say, Reply
  <2>2. Answer(f, Say("nothing"))
    BY <1>2 DEF FixLooksUp
  <2> QED BY <2>1, <2>2, AnswerType
<1>3. CASE lastFailure[s] # None
  <2>1. fixer \in [Fixers -> FixRequest] /\ fixer[f] \in FixRequest
    BY DEF WellFormed, TypeOK
  <2>2. lastFailure[s] \in Tasks /\ current[s] \in BOOLEAN
    BY <1>1, <1>3 DEF WellFormed, TypeOK
  <2>3. fixer' = [fixer EXCEPT ![f].pc      = "waiting",
                               ![f].task    = lastFailure[s],
                               ![f].current = current[s]]
    BY <1>3 DEF FixLooksUp
  <2>4. fixer'[f] = [[[fixer[f] EXCEPT !.pc = "waiting"]
                               EXCEPT !.task = lastFailure[s]]
                               EXCEPT !.current = current[s]]
    BY <2>1, <2>3
  <2>5. \A g \in Fixers \ {f} : fixer'[g] = fixer[g]
    BY <2>1, <2>3
  <2>6. fixer'[f] \in FixRequest /\ fixer'[f].pc = "waiting"
        /\ fixer'[f].task = lastFailure[s]
    BY <2>1, <2>2, <2>4 DEF FixRequest
  <2>7. DOMAIN fixer' = Fixers /\ fixer' = [g \in Fixers |-> fixer'[g]]
    BY <2>1, <2>3
  <2>8. \A g \in Fixers : fixer'[g] \in FixRequest
    BY <2>1, <2>5, <2>6
  <2> QED BY <1>1, <2>2, <2>5, <2>6, <2>7, <2>8
<1> QED BY <1>2, <1>3

-----------------------------------------------------------------------------
\* Every action preserves the types.
LEMMA WellFormedStep == WellFormed /\ [Next]_vars => WellFormed'
<1> SUFFICES ASSUME WellFormed, [Next]_vars PROVE WellFormed'
  OBVIOUS
<1> USE FixAssumption
<1>1. ASSUME NEW s \in Sessions, Exec(s) \/ DoneQuietly(s) \/ DoneWithoutFix(s)
      PROVE  WellFormed'
  BY <1>1 DEF WellFormed, TypeOK, Equipped, Exec, DoneQuietly, DoneWithoutFix
<1>2. ASSUME NEW s \in Sessions, NEW t \in Tasks, DoneWithFix(s, t)
      PROVE  WellFormed'
  <2>1. call' = [call EXCEPT ![t].pc = "calling"] /\ call[t] \in ModelCall
        /\ call \in [Callers -> ModelCall] /\ t \in Callers
    BY <1>2 DEF DoneWithFix, WellFormed, TypeOK, Callers
  <2>2. call'[t] \in ModelCall /\ call'[t].pc = "calling"
        /\ \A c \in Callers \ {t} : call'[c] = call[c]
    BY <2>1 DEF ModelCall, Stage
  <2>3. call' \in [Callers -> ModelCall]
    BY <2>1, <2>2
  <2>4. chan' \in [Tasks -> Channel]
    BY <1>2 DEF DoneWithFix, WellFormed, TypeOK, Empty, Channel
  <2>5. TypeOK'
    BY <1>2, <2>3, <2>4 DEF DoneWithFix, WellFormed, TypeOK
  <2>6. Equipped'
    BY <1>2, <2>1, <2>2 DEF DoneWithFix, WellFormed, Equipped
  <2> QED BY <2>5, <2>6 DEF WellFormed
<1>3. ASSUME NEW c \in Callers, NEW what \in ModelCall, call' = [call EXCEPT ![c] = what],
             what.pc \in {"ended", "tripping", "recorded"} => what.result \in Results
      PROVE  /\ call' \in [Callers -> ModelCall]
             /\ \A d \in Callers : call'[d].pc \in {"ended", "tripping", "recorded"}
                                     => call'[d].result \in Results
  BY <1>3 DEF WellFormed, TypeOK, Equipped
<1>4. ASSUME NEW c \in Callers, NEW pc \in Stage, call' = [call EXCEPT ![c].pc = pc],
             pc \in {"ended", "tripping", "recorded"} => call[c].result \in Results
      PROVE  /\ call' \in [Callers -> ModelCall]
             /\ \A d \in Callers : call'[d].pc \in {"ended", "tripping", "recorded"}
                                     => call'[d].result \in Results
  <2>1. call \in [Callers -> ModelCall] /\ call[c] \in ModelCall
    BY DEF WellFormed, TypeOK
  <2>2. call'[c] = [call[c] EXCEPT !.pc = pc]
        /\ \A d \in Callers \ {c} : call'[d] = call[d]
    BY <1>4, <2>1
  <2>3. call'[c] \in ModelCall /\ call'[c].pc = pc /\ call'[c].result = call[c].result
    BY <2>1, <2>2 DEF ModelCall
  <2>4. call' \in [Callers -> ModelCall]
    BY <1>4, <2>1, <2>3
  <2> QED BY <1>4, <2>2, <2>3, <2>4 DEF WellFormed, Equipped
<1>5. ASSUME NEW a \in Askers, Ask(a) \/ AskCalls(a)
      PROVE  WellFormed'
  <2>1. a \in Callers
    BY DEF Callers
  <2>2. \E pc \in {"checked", "calling"} : call' = [call EXCEPT ![a].pc = pc]
    BY <1>5 DEF Ask, AskCalls
  <2>3. /\ call' \in [Callers -> ModelCall]
        /\ \A d \in Callers : call'[d].pc \in {"ended", "tripping", "recorded"}
                                => call'[d].result \in Results
    BY <1>4, <2>1, <2>2 DEF Stage
  <2> QED BY <1>5, <2>3 DEF Ask, AskCalls, WellFormed, TypeOK, Equipped
<1>6. ASSUME NEW a \in Askers, AskReturns(a)
      PROVE  WellFormed'
  <2>1. a \in Callers /\ Idle \in ModelCall /\ Idle.pc = "idle"
    BY DEF Callers, Idle, ModelCall, Stage
  <2>2. /\ call' \in [Callers -> ModelCall]
        /\ \A d \in Callers : call'[d].pc \in {"ended", "tripping", "recorded"}
                                => call'[d].result \in Results
    BY <1>3, <1>6, <2>1 DEF AskReturns
  <2> QED BY <1>6, <2>2 DEF AskReturns, WellFormed, TypeOK, Equipped
<1>7. ASSUME NEW c \in Callers, NEW r \in Results, CallEnds(c, r)
      PROVE  WellFormed'
  <2>1. [pc |-> "ended", result |-> r] \in ModelCall
    BY DEF ModelCall, Stage
  <2>2. /\ call' \in [Callers -> ModelCall]
        /\ \A d \in Callers : call'[d].pc \in {"ended", "tripping", "recorded"}
                                => call'[d].result \in Results
    BY <1>3, <1>7, <2>1 DEF CallEnds
  <2> QED BY <1>7, <2>2 DEF CallEnds, WellFormed, TypeOK, Equipped
<1>8. ASSUME NEW c \in Callers, Record(c)
      PROVE  WellFormed'
  <2>1. call[c].result \in Results /\ failures \in 0..Threshold
    BY <1>8 DEF Record, WellFormed, Equipped, TypeOK
  <2>2. \E pc \in {"tripping", "recorded"} : call' = [call EXCEPT ![c].pc = pc]
    BY <1>8 DEF Record
  <2>3. /\ call' \in [Callers -> ModelCall]
        /\ \A d \in Callers : call'[d].pc \in {"ended", "tripping", "recorded"}
                                => call'[d].result \in Results
    BY <1>4, <2>1, <2>2 DEF Stage
  <2>4. failures' \in 0..Threshold
    BY <1>8, <2>1 DEF Record
  <2>5. outcomes' \in Seq(Results) /\ Len(outcomes') <= Threshold
    <3>1. outcomes' = Remember(call[c].result)
      BY <1>8 DEF Record
    <3>2. Len(outcomes) \in Nat /\ Len(outcomes) <= Threshold
      BY DEF WellFormed, TypeOK
    <3> QED BY <2>1, <3>1, <3>2, RememberIs
  <2> QED BY <1>8, <2>3, <2>4, <2>5 DEF Record, WellFormed, TypeOK, Equipped
<1>9. ASSUME NEW c \in Callers, Trip(c)
      PROVE  WellFormed'
  <2>1. call[c].result \in Results
    BY <1>9 DEF Trip, WellFormed, Equipped
  <2>2. /\ call' \in [Callers -> ModelCall]
        /\ \A d \in Callers : call'[d].pc \in {"ended", "tripping", "recorded"}
                                => call'[d].result \in Results
    BY <1>4, <1>9, <2>1 DEF Trip, Stage
  <2>3. openFor' \in 0..Cooldown
    BY <1>9 DEF Trip
  <2> QED BY <1>9, <2>2, <2>3 DEF Trip, WellFormed, TypeOK, Equipped
<1>10. ASSUME NEW t \in Tasks, Deliver(t)
       PROVE  WellFormed'
  <2>1. t \in Callers /\ Idle \in ModelCall /\ Idle.pc = "idle" /\ call[t].result \in Results
    BY <1>10 DEF Deliver, Callers, Idle, ModelCall, Stage, WellFormed, Equipped
  <2>2. /\ call' \in [Callers -> ModelCall]
        /\ \A d \in Callers : call'[d].pc \in {"ended", "tripping", "recorded"}
                                => call'[d].result \in Results
    BY <1>3, <1>10, <2>1 DEF Deliver
  <2>3. chan' \in [Tasks -> Channel]
    BY <1>10, <2>1 DEF Deliver, WellFormed, TypeOK, Channel
  <2> QED BY <1>10, <2>2, <2>3 DEF Deliver, WellFormed, TypeOK, Equipped
<1>11. ASSUME NEW f \in Fixers, NEW s \in Sessions, Fix(f, s)
       PROVE  WellFormed'
  <2> DEFINE new == [IdleFixer EXCEPT !.session = s,
                         !.pc      = IF IsOpen THEN "answered" ELSE "checked",
                         !.answer  = IF IsOpen THEN Say("paused") ELSE Empty]
  <2>1. Say("paused") \in Reply /\ Empty \in Reply
    BY DEF Say, Empty, Reply
  <2>3. new \in FixRequest /\ new.session = s /\ new.pc # "waiting"
    <3>1. CASE IsOpen
      BY <2>1, <3>1 DEF IdleFixer, FixRequest
    <3>2. CASE ~IsOpen
      BY <2>1, <3>2 DEF IdleFixer, FixRequest
    <3> QED BY <3>1, <3>2
  <2>4. fixer' = [fixer EXCEPT ![f] = new]
    BY <1>11 DEF Fix
  <2> HIDE DEF new
  <2>5. TypeOK'
    BY <1>11, <2>3, <2>4 DEF Fix, WellFormed, TypeOK
  <2>6. Equipped'
    BY <1>11, <2>3, <2>4 DEF Fix, WellFormed, TypeOK, Equipped
  <2> QED BY <2>5, <2>6 DEF WellFormed
<1>12. ASSUME NEW f \in Fixers, FixLooksUp(f)
       PROVE  WellFormed'
  <2>1. /\ fixer' \in [Fixers -> FixRequest]
        /\ \A g \in Fixers \ {f} : fixer'[g] = fixer[g]
        /\ fixer'[f].pc # "checked"
        /\ fixer'[f].pc = "waiting" => fixer'[f].task \in Tasks
    BY <1>12, LookUpType
  <2> QED BY <1>12, <2>1 DEF FixLooksUp, WellFormed, TypeOK, Equipped
<1>13. ASSUME NEW f \in Fixers, FixReturns(f) \/ FixTimesOut(f)
       PROVE  WellFormed'
  <2>1. PICK what \in Reply : Answer(f, what)
    <3>1. fixer[f].task \in Tasks
      BY <1>13 DEF FixReturns, FixTimesOut, WellFormed, Equipped
    <3>2. chan[fixer[f].task] \in Reply /\ Say("computing") \in Reply
      BY <3>1 DEF WellFormed, TypeOK, Channel, Reply, Say
    <3> QED BY <1>13, <3>2 DEF FixReturns, FixTimesOut
  <2>2. fixer' \in [Fixers -> FixRequest]
        /\ (\A g \in Fixers \ {f} : fixer'[g] = fixer[g])
        /\ fixer'[f].pc = "answered"
    BY <2>1, AnswerType
  <2> QED BY <1>13, <2>2 DEF FixReturns, FixTimesOut, WellFormed, TypeOK, Equipped
<1>14. ASSUME NEW f \in Fixers, FixIsRead(f)
       PROVE  WellFormed'
  <2>1. IdleFixer \in FixRequest /\ IdleFixer.pc = "idle"
    BY DEF IdleFixer, FixRequest, Reply, Empty
  <2> QED BY <1>14, <2>1 DEF FixIsRead, WellFormed, TypeOK, Equipped
<1>15. ASSUME Tick PROVE WellFormed'
  BY <1>15 DEF Tick, IsOpen, WellFormed, TypeOK, Equipped
<1>16. ASSUME Restart PROVE WellFormed'
  <2>3. IdleFixer \in FixRequest /\ Idle \in ModelCall /\ Empty \in Channel
    BY DEF IdleFixer, FixRequest, Reply, Idle, ModelCall, Stage, Empty, Channel
  <2>4. << >> \in Seq(Results) /\ Len(<< >>) = 0
    OBVIOUS
  <2>5. outcomes' \in Seq(Results) /\ Len(outcomes') <= Threshold
    BY <1>16, <2>4 DEF Restart
  <2>6. failures' \in 0..Threshold /\ openFor' \in 0..Cooldown
    BY <1>16 DEF Restart
  <2>7. TypeOK'
    BY <1>16, <2>3, <2>5, <2>6 DEF Restart, TypeOK
  <2>8. Equipped'
    BY <1>16 DEF Restart, Equipped, IdleFixer, Idle
  <2> QED BY <2>7, <2>8 DEF WellFormed
<1>17. CASE UNCHANGED vars
  BY <1>17 DEF vars, WellFormed, TypeOK, Equipped
<1> QED
  BY <1>1, <1>2, <1>5, <1>6, <1>7, <1>8, <1>9, <1>10, <1>11, <1>12, <1>13, <1>14, <1>15,
     <1>16, <1>17 DEF Next, Command, Model, Request, Results

\* Every reachable state is well typed: the counter saturates, a pause is never
\* longer than the cooldown, and the window of outcomes keeps its length.
THEOREM TypeCorrect == Spec => []TypeOK
<1>1. WellFormed => TypeOK
  BY DEF WellFormed
<1> QED BY <1>1, WellFormedInit, WellFormedStep, PTL DEF Spec

-----------------------------------------------------------------------------
(***************************************************************************)
(* No lost wake-up.                                                        *)
(***************************************************************************)

\* A step that keeps what sessions remember and what requests wait on, and
\* takes no worker from an empty channel.
LEMMA AnswerFrame ==
  ASSUME WellFormed, SomebodyWillAnswer, lastFailure' = lastFailure, fixer' = fixer,
         \A t \in Tasks : Working(t) \/ Filled(t) => Working(t)' \/ Filled(t)'
  PROVE  SomebodyWillAnswer'
<1>1. ASSUME NEW s \in Sessions, lastFailure'[s] # None
      PROVE  Working(lastFailure[s])' \/ Filled(lastFailure[s])'
  BY <1>1 DEF WellFormed, TypeOK, SomebodyWillAnswer, Working, Filled
<1>2. ASSUME NEW f \in Fixers, fixer'[f].pc = "waiting"
      PROVE  Working(fixer[f].task)' \/ Filled(fixer[f].task)'
  BY <1>2 DEF WellFormed, Equipped, SomebodyWillAnswer, Working, Filled
<1> QED BY <1>1, <1>2 DEF SomebodyWillAnswer, Working, Filled

\* No action leaves a session or a request with a channel nobody will fill.
LEMMA SomebodyStep ==
  ASSUME WellFormed, SomebodyWillAnswer, [Next]_vars
  PROVE  SomebodyWillAnswer'
<1>1. ASSUME NEW s \in Sessions, Exec(s) \/ DoneQuietly(s) \/ DoneWithoutFix(s)
      PROVE  SomebodyWillAnswer'
  BY <1>1 DEF SomebodyWillAnswer, Working, Filled, Exec, DoneQuietly, DoneWithoutFix
<1>2. ASSUME NEW s \in Sessions, NEW t \in Tasks, DoneWithFix(s, t)
      PROVE  SomebodyWillAnswer'
  <2>1. /\ lastFailure' = [lastFailure EXCEPT ![s] = t]
        /\ chan' = [chan EXCEPT ![t] = Empty]
        /\ call' = [call EXCEPT ![t].pc = "calling"]
        /\ fixer' = fixer
    BY <1>2 DEF DoneWithFix
  <2>2. /\ call \in [Callers -> ModelCall] /\ t \in Callers /\ Tasks \subseteq Callers
        /\ chan \in [Tasks -> Channel] /\ lastFailure \in [Sessions -> Tasks \cup {None}]
    BY DEF WellFormed, TypeOK, Callers
  <2>3. call'[t].pc = "calling" /\ \A u \in Tasks \ {t} : call'[u] = call[u]
    BY <2>1, <2>2 DEF ModelCall
  <2>4. ASSUME NEW u \in Tasks, Working(u) \/ Filled(u)
        PROVE  call'[u].pc # "idle" \/ chan'[u].result # "none"
    BY <2>1, <2>2, <2>3, <2>4 DEF Working, Filled
  <2>5. ASSUME NEW r \in Sessions, lastFailure'[r] # None
        PROVE  call'[lastFailure'[r]].pc # "idle" \/ chan'[lastFailure'[r]].result # "none"
    <3>1. CASE r = s
      BY <2>1, <2>2, <2>3, <3>1
    <3>2. CASE r # s
      <4>1. lastFailure'[r] = lastFailure[r] /\ lastFailure[r] \in Tasks
        BY <2>1, <2>2, <2>5, <3>2
      <4>2. Working(lastFailure[r]) \/ Filled(lastFailure[r])
        BY <2>5, <4>1 DEF SomebodyWillAnswer
      <4> QED BY <2>4, <4>1, <4>2
    <3> QED BY <3>1, <3>2
  <2>6. ASSUME NEW f \in Fixers, fixer'[f].pc = "waiting"
        PROVE  call'[fixer'[f].task].pc # "idle" \/ chan'[fixer'[f].task].result # "none"
    BY <2>1, <2>4, <2>6 DEF WellFormed, Equipped, SomebodyWillAnswer
  <2> QED BY <2>5, <2>6 DEF SomebodyWillAnswer, Working, Filled
<1>3. ASSUME NEW c \in Callers, NEW pc \in Stage \ {"idle"},
             call' = [call EXCEPT ![c].pc = pc], chan' = chan, lastFailure' = lastFailure,
             fixer' = fixer
      PROVE  SomebodyWillAnswer'
  <2>1. call \in [Callers -> ModelCall] /\ Tasks \subseteq Callers
    BY DEF WellFormed, TypeOK, Callers
  <2>2. call'[c].pc = pc /\ \A d \in Callers \ {c} : call'[d] = call[d]
    BY <1>3, <2>1 DEF ModelCall
  <2>3. \A t \in Tasks : Working(t) \/ Filled(t) => Working(t)' \/ Filled(t)'
    BY <1>3, <2>1, <2>2 DEF Working, Filled
  <2> QED BY <1>3, <2>3, AnswerFrame
<1>4. ASSUME NEW a \in Askers, Ask(a) \/ AskCalls(a)
      PROVE  SomebodyWillAnswer'
  <2>1. a \in Callers
    BY DEF Callers
  <2>2. \E pc \in {"checked", "calling"} : call' = [call EXCEPT ![a].pc = pc]
    BY <1>4 DEF Ask, AskCalls
  <2>3. chan' = chan /\ lastFailure' = lastFailure /\ fixer' = fixer
    BY <1>4 DEF Ask, AskCalls
  <2> QED BY <1>3, <2>1, <2>2, <2>3 DEF Stage
<1>5. ASSUME NEW a \in Askers, AskReturns(a)
      PROVE  SomebodyWillAnswer'
  <2>1. \A t \in Tasks : t # a
    BY FixAssumption
  <2>2. \A t \in Tasks : call'[t] = call[t] /\ chan' = chan
    BY <1>5, <2>1 DEF AskReturns, WellFormed, TypeOK, Callers
  <2>3. \A t \in Tasks : Working(t) \/ Filled(t) => Working(t)' \/ Filled(t)'
    BY <2>2 DEF Working, Filled
  <2> QED BY <1>5, <2>3, AnswerFrame DEF AskReturns
<1>6. ASSUME NEW c \in Callers, NEW r \in Results, CallEnds(c, r)
      PROVE  SomebodyWillAnswer'
  <2>1. \A t \in Tasks : call'[t].pc = call[t].pc \/ call'[t].pc = "ended"
    BY <1>6 DEF CallEnds, WellFormed, TypeOK, Callers
  <2>2. \A t \in Tasks : Working(t) \/ Filled(t) => Working(t)' \/ Filled(t)'
    BY <1>6, <2>1 DEF Working, Filled, CallEnds
  <2> QED BY <1>6, <2>2, AnswerFrame DEF CallEnds
<1>7. ASSUME NEW c \in Callers, Record(c) \/ Trip(c)
      PROVE  SomebodyWillAnswer'
  <2>1. \E pc \in {"tripping", "recorded"} : call' = [call EXCEPT ![c].pc = pc]
    BY <1>7 DEF Record, Trip
  <2>2. chan' = chan /\ lastFailure' = lastFailure /\ fixer' = fixer
    BY <1>7 DEF Record, Trip
  <2> QED BY <1>3, <2>1, <2>2 DEF Stage
<1>8. ASSUME NEW t \in Tasks, Deliver(t)
      PROVE  SomebodyWillAnswer'
  <2>1. call[t].result \in Results /\ t \in Callers
    BY <1>8 DEF Deliver, WellFormed, Equipped, Callers
  <2>2. chan'[t].result = call[t].result
        /\ (\A u \in Tasks \ {t} : chan'[u] = chan[u] /\ call'[u] = call[u])
    BY <1>8, <2>1 DEF Deliver, WellFormed, TypeOK, Callers
  <2>3. \A u \in Tasks : Working(u) \/ Filled(u) => Working(u)' \/ Filled(u)'
    BY <2>1, <2>2 DEF Working, Filled, Results
  <2> QED BY <1>8, <2>3, AnswerFrame DEF Deliver
<1>9. ASSUME NEW f \in Fixers, UNCHANGED <<lastFailure, call, chan>>,
             \A g \in Fixers \ {f} : fixer'[g] = fixer[g],
             fixer'[f].pc = "waiting" =>
               \E s \in Sessions : fixer'[f].task = lastFailure[s] /\ lastFailure[s] # None
      PROVE  SomebodyWillAnswer'
  <2>1. ASSUME NEW g \in Fixers, fixer'[g].pc = "waiting"
        PROVE  Working(fixer'[g].task) \/ Filled(fixer'[g].task)
    BY <1>9, <2>1 DEF SomebodyWillAnswer
  <2> QED BY <1>9, <2>1 DEF SomebodyWillAnswer, Working, Filled
<1>10. ASSUME NEW f \in Fixers, NEW s \in Sessions, Fix(f, s)
       PROVE  SomebodyWillAnswer'
  <2>1. fixer'[f].pc # "waiting" /\ \A g \in Fixers \ {f} : fixer'[g] = fixer[g]
    BY <1>10 DEF Fix, IdleFixer, WellFormed, TypeOK
  <2> QED BY <1>9, <1>10, <2>1 DEF Fix
<1>11. ASSUME NEW f \in Fixers, FixLooksUp(f)
       PROVE  SomebodyWillAnswer'
  <2>1. /\ \A g \in Fixers \ {f} : fixer'[g] = fixer[g]
        /\ fixer'[f].pc = "waiting" =>
             \E s \in Sessions : fixer'[f].task = lastFailure[s] /\ lastFailure[s] # None
    BY <1>11, LookUpType, FixAssumption
  <2> QED BY <1>9, <1>11, <2>1 DEF FixLooksUp
<1>12. ASSUME NEW f \in Fixers, FixReturns(f) \/ FixTimesOut(f) \/ FixIsRead(f)
       PROVE  SomebodyWillAnswer'
  <2>1. fixer'[f].pc # "waiting" /\ \A g \in Fixers \ {f} : fixer'[g] = fixer[g]
    BY <1>12 DEF FixReturns, FixTimesOut, FixIsRead, Answer, IdleFixer, WellFormed, TypeOK,
                 FixRequest
  <2> QED BY <1>9, <1>12, <2>1 DEF FixReturns, FixTimesOut, FixIsRead
<1>13. CASE Tick \/ UNCHANGED vars
  BY <1>13 DEF Tick, vars, SomebodyWillAnswer, Working, Filled
<1>14. CASE Restart
  BY <1>14 DEF Restart, IdleFixer, SomebodyWillAnswer
<1> QED
  BY <1>1, <1>2, <1>4, <1>5, <1>6, <1>7, <1>8, <1>10, <1>11, <1>12, <1>13, <1>14
     DEF Next, Command, Model, Request, Results

\* A session or a request never holds an empty channel that nobody will fill.
THEOREM NoLostWakeup == Spec => []SomebodyWillAnswer
<1>1. Init => SomebodyWillAnswer
  BY DEF Init, IdleFixer, SomebodyWillAnswer
<1>2. WellFormed /\ SomebodyWillAnswer /\ [Next]_vars => SomebodyWillAnswer'
  BY SomebodyStep
<1> QED BY <1>1, <1>2, WellFormedInit, WellFormedStep, PTL DEF Spec

-----------------------------------------------------------------------------
(***************************************************************************)
(* Answers.                                                                *)
(***************************************************************************)

\* What a channel holds was sent by the task that owns it.
OwnChannel == \A t \in Tasks : Filled(t) => chan[t].by = t

LEMMA AnswerStep ==
  ASSUME WellFormed, OwnChannel, AnswerIsForAskedFailure, [Next]_vars
  PROVE  OwnChannel' /\ AnswerIsForAskedFailure'
<1>0. /\ chan \in [Tasks -> Channel] /\ fixer \in [Fixers -> FixRequest]
  BY DEF WellFormed, TypeOK
<1>1. ASSUME chan' = chan, fixer' = fixer
      PROVE  OwnChannel' /\ AnswerIsForAskedFailure'
  BY <1>1 DEF OwnChannel, AnswerIsForAskedFailure, Filled
<1>2. ASSUME NEW s \in Sessions, NEW t \in Tasks, DoneWithFix(s, t)
      PROVE  OwnChannel' /\ AnswerIsForAskedFailure'
  BY <1>0, <1>2 DEF DoneWithFix, Empty, OwnChannel, AnswerIsForAskedFailure, Filled
<1>3. ASSUME NEW t \in Tasks, Deliver(t)
      PROVE  OwnChannel' /\ AnswerIsForAskedFailure'
  BY <1>0, <1>3 DEF Deliver, OwnChannel, AnswerIsForAskedFailure, Filled
<1>4. ASSUME NEW f \in Fixers, chan' = chan,
             \A g \in Fixers \ {f} : fixer'[g] = fixer[g],
             fixer'[f].pc = "answered" /\ fixer'[f].answer.result \in Results
               => fixer'[f].answer.by = fixer'[f].task
      PROVE  OwnChannel' /\ AnswerIsForAskedFailure'
  BY <1>4 DEF OwnChannel, AnswerIsForAskedFailure, Filled
<1>5. ASSUME NEW f \in Fixers, NEW s \in Sessions, Fix(f, s)
      PROVE  OwnChannel' /\ AnswerIsForAskedFailure'
  <2>1. /\ \A g \in Fixers \ {f} : fixer'[g] = fixer[g]
        /\ fixer'[f].pc = "answered" => fixer'[f].answer = Say("paused")
    <3>1. CASE IsOpen
      BY <1>0, <1>5, <3>1 DEF Fix, IdleFixer
    <3>2. CASE ~IsOpen
      BY <1>0, <1>5, <3>2 DEF Fix, IdleFixer
    <3> QED BY <3>1, <3>2
  <2>2. Say("paused").result \notin Results
    BY DEF Say, Results
  <2> QED BY <1>4, <1>5, <2>1, <2>2 DEF Fix
<1>6. ASSUME NEW f \in Fixers, FixLooksUp(f)
      PROVE  OwnChannel' /\ AnswerIsForAskedFailure'
  <2>1. Say("nothing").result \notin Results
    BY DEF Say, Results
  <2>2. /\ \A g \in Fixers \ {f} : fixer'[g] = fixer[g]
        /\ fixer'[f].pc = "answered" => fixer'[f].answer = Say("nothing")
    BY <1>6, LookUpType
  <2> QED BY <1>4, <1>6, <2>1, <2>2 DEF FixLooksUp
<1>7. ASSUME NEW f \in Fixers, FixReturns(f)
      PROVE  OwnChannel' /\ AnswerIsForAskedFailure'
  <2>1. fixer[f].task \in Tasks /\ Filled(fixer[f].task)
    BY <1>7 DEF FixReturns, WellFormed, Equipped, Filled
  <2>2. chan[fixer[f].task] \in Reply /\ chan[fixer[f].task].by = fixer[f].task
    BY <1>0, <2>1 DEF Channel, Reply, OwnChannel
  <2>3. /\ \A g \in Fixers \ {f} : fixer'[g] = fixer[g]
        /\ fixer'[f].answer = chan[fixer[f].task] /\ fixer'[f].task = fixer[f].task
    BY <1>7, <2>2, AnswerType DEF FixReturns
  <2> QED BY <1>4, <1>7, <2>2, <2>3 DEF FixReturns
<1>8. ASSUME NEW f \in Fixers, FixTimesOut(f)
      PROVE  OwnChannel' /\ AnswerIsForAskedFailure'
  <2>1. Say("computing").result \notin Results /\ Say("computing") \in Reply
    BY DEF Say, Results, Reply
  <2>2. /\ \A g \in Fixers \ {f} : fixer'[g] = fixer[g]
        /\ fixer'[f].answer = Say("computing")
    BY <1>8, <2>1, AnswerType DEF FixTimesOut
  <2> QED BY <1>4, <1>8, <2>1, <2>2 DEF FixTimesOut
<1>9. ASSUME NEW f \in Fixers, FixIsRead(f)
      PROVE  OwnChannel' /\ AnswerIsForAskedFailure'
  <2>1. fixer'[f].pc # "answered" /\ \A g \in Fixers \ {f} : fixer'[g] = fixer[g]
    BY <1>0, <1>9 DEF FixIsRead, IdleFixer
  <2> QED BY <1>4, <1>9, <2>1 DEF FixIsRead
<1>10. CASE Restart
  BY <1>10 DEF Restart, IdleFixer, Empty, OwnChannel, AnswerIsForAskedFailure, Filled
<1> QED
  BY <1>1, <1>2, <1>3, <1>5, <1>6, <1>7, <1>8, <1>9, <1>10
     DEF Next, Command, Model, Request, Exec, DoneQuietly, DoneWithoutFix, Ask, AskCalls,
         AskReturns, CallEnds, Record, Trip, Tick, vars

\* Ctrl-/ is answered from the call for the failure that was remembered when it
\* was asked, however many failures and late calls there are.
THEOREM RightAnswer == Spec => []AnswerIsForAskedFailure
<1>1. Init => OwnChannel /\ AnswerIsForAskedFailure
  BY DEF Init, IdleFixer, Empty, OwnChannel, AnswerIsForAskedFailure, Filled
<1>2. WellFormed /\ OwnChannel /\ AnswerIsForAskedFailure /\ [Next]_vars
        => OwnChannel' /\ AnswerIsForAskedFailure'
  BY AnswerStep
<1> QED BY <1>1, <1>2, WellFormedInit, WellFormedStep, PTL DEF Spec

-----------------------------------------------------------------------------
(***************************************************************************)
(* The counter.  Inductive: it is the length of the run of failures at the *)
(* end of the window.                                                      *)
(***************************************************************************)
CounterIsRun ==
  /\ failures <= Len(outcomes)
  /\ \A i \in 1..Len(outcomes) : i > Len(outcomes) - failures => outcomes[i] = "err"
  /\ failures < Len(outcomes) => outcomes[Len(outcomes) - failures] = "ok"

LEMMA CounterStep ==
  ASSUME WellFormed, CounterIsRun, [Next]_vars
  PROVE  CounterIsRun'
<1>1. CASE UNCHANGED <<failures, outcomes>>
  BY <1>1 DEF CounterIsRun
<1>2. ASSUME NEW c \in Callers, Record(c)
      PROVE  CounterIsRun'
  <2> DEFINE r == call[c].result
             n == Len(outcomes)
             k == Len(outcomes')
  <2>1. r \in Results /\ outcomes' = Remember(r)
    BY <1>2 DEF Record, WellFormed, Equipped
  <2>2. /\ n \in Nat /\ n <= Threshold /\ Threshold \in Nat \ {0} /\ failures \in 0..Threshold
        /\ failures <= n
        /\ \A i \in 1..n : i > n - failures => outcomes[i] = "err"
        /\ failures < n => outcomes[n - failures] = "ok"
    BY FixAssumption DEF WellFormed, TypeOK, CounterIsRun
  <2>3. /\ n < Threshold => /\ k = n + 1
                            /\ \A i \in 1..n : outcomes'[i] = outcomes[i]
                            /\ outcomes'[n + 1] = r
        /\ n = Threshold => /\ k = Threshold
                            /\ \A i \in 1..(Threshold - 1) : outcomes'[i] = outcomes[i + 1]
                            /\ outcomes'[Threshold] = r
    BY <2>1, RememberIs
  <2>4. /\ r = "ok" => failures' = 0
        /\ r # "ok" => failures' = IF failures + 1 < Threshold THEN failures + 1 ELSE Threshold
    BY <1>2 DEF Record
  <2> HIDE DEF r, n, k
  <2>5. CASE r = "ok"
    <3>1. failures' = 0 /\ k \in Nat /\ k >= 1 /\ outcomes'[k] = "ok"
      BY <2>2, <2>3, <2>4, <2>5
    <3> QED BY <3>1 DEF CounterIsRun, k
  <2>6. CASE r = "err" /\ n < Threshold
    <3>1. failures' = failures + 1 /\ k = n + 1
      BY <2>2, <2>3, <2>4, <2>6
    <3>2. \A i \in 1..k : i > k - failures' => outcomes'[i] = "err"
      BY <2>2, <2>3, <2>6, <3>1
    <3>3. failures' < k => outcomes'[k - failures'] = "ok"
      BY <2>2, <2>3, <2>6, <3>1
    <3> QED BY <2>2, <3>1, <3>2, <3>3 DEF CounterIsRun, k
  <2>7. CASE r = "err" /\ n = Threshold
    <3>1. k = Threshold
          /\ failures' = IF failures + 1 < Threshold THEN failures + 1 ELSE Threshold
      BY <2>3, <2>4, <2>7
    <3>2. \A i \in 1..k : i > k - failures' => outcomes'[i] = "err"
      <4> SUFFICES ASSUME NEW i \in 1..k, i > k - failures' PROVE outcomes'[i] = "err"
        OBVIOUS
      <4>1. CASE i = Threshold
        BY <2>3, <2>7, <4>1
      <4>2. CASE i # Threshold
        <5>1. i \in 1..(Threshold - 1) /\ i + 1 \in 1..n /\ i + 1 > n - failures
          BY <2>2, <2>7, <3>1, <4>2
        <5>2. outcomes[i + 1] = "err"
          BY <2>2, <5>1
        <5> QED BY <2>3, <2>7, <5>1, <5>2
      <4> QED BY <4>1, <4>2
    <3>3. failures' < k => outcomes'[k - failures'] = "ok"
      <4> SUFFICES ASSUME failures' < k PROVE outcomes'[k - failures'] = "ok"
        OBVIOUS
      <4>1. failures' = failures + 1 /\ failures < n /\ k - failures' \in 1..(Threshold - 1)
            /\ (k - failures') + 1 = n - failures
        BY <2>2, <2>7, <3>1
      <4> QED BY <2>2, <2>3, <2>7, <4>1
    <3>4. failures' <= k
      BY <2>2, <3>1
    <3> QED BY <3>2, <3>3, <3>4 DEF CounterIsRun, k
  <2> QED BY <2>1, <2>2, <2>5, <2>6, <2>7 DEF Results
<1>3. CASE Restart
  <2>1. failures' = 0 /\ outcomes' = << >>
    BY <1>3 DEF Restart
  <2>2. Len(<< >>) = 0
    OBVIOUS
  <2> QED BY <2>1, <2>2 DEF CounterIsRun
<1> QED
  BY <1>1, <1>2, <1>3
     DEF Next, Command, Model, Request, Exec, DoneQuietly, DoneWithFix, DoneWithoutFix, Ask,
         AskCalls, AskReturns, CallEnds, Trip, Deliver, Fix, FixLooksUp, FixReturns,
         FixTimesOut, FixIsRead, Tick, vars

\* The breaker counts exactly the consecutive failures, whoever reports them
\* and in whatever order (daemon.rs, Circuit::record).
THEOREM CounterCorrect == Spec => []CountsConsecutiveFailures
<1>1. Init => CounterIsRun
  <2>1. Len(<< >>) = 0
    OBVIOUS
  <2> QED BY <2>1 DEF Init, CounterIsRun
<1>2. WellFormed /\ CounterIsRun /\ [Next]_vars => CounterIsRun'
  BY CounterStep
<1>3. WellFormed /\ CounterIsRun => CountsConsecutiveFailures
  <2> SUFFICES ASSUME WellFormed, CounterIsRun PROVE CountsConsecutiveFailures
    OBVIOUS
  <2>1. /\ Len(outcomes) \in Nat /\ Len(outcomes) <= Threshold
        /\ failures \in 0..Threshold /\ Threshold \in Nat \ {0}
        /\ DOMAIN outcomes = 1..Len(outcomes)
    BY FixAssumption DEF WellFormed, TypeOK
  <2>2. ASSUME failures = Threshold
        PROVE  Len(outcomes) = Threshold /\ \A i \in DOMAIN outcomes : outcomes[i] = "err"
    <3>1. Len(outcomes) = Threshold
      <4>1. Threshold <= Len(outcomes)
        BY <2>2 DEF CounterIsRun
      <4>2. \A n \in Nat : Threshold <= n /\ n <= Threshold => n = Threshold
        BY FixAssumption
      <4> QED BY <2>1, <4>1, <4>2
    <3>2. ASSUME NEW i \in DOMAIN outcomes PROVE outcomes[i] = "err"
      <4>1. i \in 1..Len(outcomes) /\ i > Len(outcomes) - failures
        BY <2>1, <2>2, <3>1
      <4> QED BY <4>1 DEF CounterIsRun
    <3> QED BY <3>1, <3>2
  <2>3. ASSUME failures # Threshold, Len(outcomes) = Threshold
        PROVE  \E i \in DOMAIN outcomes : outcomes[i] # "err"
    <3>1. failures < Threshold /\ Threshold - failures \in DOMAIN outcomes
      BY <2>1, <2>3
    <3>2. outcomes[Threshold - failures] = "ok"
      BY <2>3, <3>1 DEF CounterIsRun
    <3> QED BY <3>1, <3>2
  <2> QED BY <2>2, <2>3 DEF CountsConsecutiveFailures
<1> QED BY <1>1, <1>2, <1>3, WellFormedInit, WellFormedStep, PTL DEF Spec
=============================================================================
