--------------------------- MODULE EnterKeyProofs ---------------------------
(***************************************************************************)
(* Proofs about EnterKey, for any lines, shells, directories and options:  *)
(* that it implements Gate, and the safety of the key itself.              *)
(***************************************************************************)
EXTENDS EnterKey, TLAPS

(***************************************************************************)
(* What is asked comes from a shell, about a line that is to be checked.   *)
(***************************************************************************)
Asked ==
  /\ asked \subseteq Shells
  /\ asked # {} => enabled

Inv == TypeOK /\ Asked /\ opts \in OptionSets

LEMMA EmptyIsNoLine == Empty \notin [line : Lines, comment : BOOLEAN]
  BY EnterKeyAssumption DEF Empty, Plainly

LEMMA MineAreBuffers == lines \in Sessions => Mine \subseteq Buffers
  BY DEF Mine, Buffers, Lines

LEMMA ContentType == ASSUME NEW b \in Buffers PROVE Content(b) \in Lines \cup {<<>>}
  BY DEF Content, Buffers, Empty, Plainly

LEMMA InWhen == ASSUME NEW c, NEW f, NEW g \in When(c, f) PROVE g = f
  BY DEF When

\* Nothing destructive is in an empty line, and nothing blocks it.
LEMMA NothingToAssess == Assess(<<>>) # Destructive
<1>1. ~FetchesCode(<<>>)
  BY DEF FetchesCode
<1>2. DOMAIN <<>> = {}
  OBVIOUS
<1>3. {RiskOf[<<>>[i].words] : i \in DOMAIN <<>>} = {}
  BY <1>2
<1>4. ~ \E i \in DOMAIN <<>> : <<>>[i].over # ""
  BY <1>2
<1>5. Assess(<<>>) = Worst({} \cup {} \cup {})
  BY <1>1, <1>3, <1>4, Zenon DEF Assess
<1>6. Assess(<<>>) = 0
  BY <1>5 DEF Worst, Max
<1> QED BY <1>6 DEF Destructive

LEMMA Severity == ASSUME NEW s, NEW c PROVE F(s, c).sev = s /\ F(s, c).note = ""
  BY DEF F

LEMMA InsightsDoNotBlock == ASSUME NEW w, NEW f \in Insights(w) PROVE f.sev # Block
<1>1. f = F(Warn, "streak") \/ f = F(Info, "duration")
  BY InWhen, Zenon DEF Insights
<1>2. f.sev = Warn \/ f.sev = Info
  BY <1>1, Severity, Zenon
<1> QED BY <1>2 DEF Info, Warn, Block

LEMMA NothingBlocks == ASSUME NEW w, NEW o PROVE ~Blocks(Findings(<<>>, w, o))
<1>1. Commands(<<>>) = {}
  BY DEF Commands
<1>2. Specific(<<>>, w, o) = Insights(w)
  BY <1>1 DEF Specific
<1>3. \A f \in Run(<<>>, w, o) : f \in Insights(w)
  BY <1>2, NothingToAssess DEF Run, When
<1>4. ~Truncates(<<>>, w)
  BY DEF Truncates
<1>5. \A f \in Findings(<<>>, w, o) : f \in Insights(w)
  BY <1>3, <1>4 DEF Findings, When
<1> QED BY <1>5, InsightsDoNotBlock DEF Blocks

-----------------------------------------------------------------------------
LEMMA InitInv == Init => Inv
<1> SUFFICES ASSUME Init PROVE Inv
  OBVIOUS
<1>1. Nothing.line = Empty /\ Nothing.how = "nothing"
  BY DEF Nothing
<1>2. TypeOK
  BY <1>1 DEF Init, TypeOK, Mine
<1> QED BY <1>2 DEF Inv, Init, Asked

\* An answer is about some world.
LEMMA AnswersInWorld ==
  ASSUME Inv, Answers
  PROVE  \E w \in Worlds :
           /\ Blocks(Findings(Content(buffer), w, opts))
                => /\ confirmed' = buffer
                   /\ UNCHANGED <<given, world, buffer, ran, author>>
           /\ ~Blocks(Findings(Content(buffer), w, opts))
                => /\ Accepts("passed", Findings(Content(buffer), w, opts))
                   /\ UNCHANGED confirmed
<1>1. PICK e \in asked :
        LET found == Findings(Content(buffer), World(e, dir), opts) IN
        IF Blocks(found)
        THEN /\ confirmed' = buffer
             /\ UNCHANGED <<given, world, buffer, ran, author>>
        ELSE Accepts("passed", found) /\ UNCHANGED confirmed
  BY DEF Answers
<1>2. e \in Shells /\ dir \in DOMAIN Places
  BY DEF Inv, TypeOK, Asked
<1>3. World(e, dir) \in Worlds
  BY <1>2 DEF Worlds
<1> QED BY <1>1, <1>3, Zenon

\* Lines are run as they stand in the editor.
LEMMA AcceptsInv ==
  ASSUME Inv, NEW how \in {"unchecked", "confirmed", "passed"}, NEW told,
         Accepts(how, told), asked' = {}, confirmed' \in {confirmed, Empty}
  PROVE  Inv'
  BY DEF Inv, TypeOK, Asked, Accepts, given, world, Mine

LEMMA RewritesInv ==
  ASSUME Inv, NEW b \in Mine, Rewrites(b), confirmed' \in {confirmed, Empty}
  PROVE  Inv'
  BY DEF Inv, TypeOK, Asked, Rewrites, Editing, given, world, Mine, Nothing

LEMMA StepInv == Inv /\ [Next]_vars => Inv'
<1> SUFFICES ASSUME Inv, [Next]_vars PROVE Inv'
  OBVIOUS
<1>1. ASSUME NEW b \in Mine, Types(b) PROVE Inv'
  BY <1>1, RewritesInv DEF Types
<1>2. ASSUME NEW b \in Mine, Recalls(b) PROVE Inv'
  BY <1>2, RewritesInv DEF Recalls
<1>3. ASSUME NEW l \in lines, Proposes(l) PROVE Inv'
  BY <1>3 DEF Proposes, Editing, Inv, TypeOK, Asked, given, world, Mine, Nothing
<1>4. CASE EnterRuns
  BY <1>4, AcceptsInv DEF EnterRuns, Editing
<1>5. CASE EnterConfirms
  BY <1>5, AcceptsInv DEF EnterConfirms, Editing
<1>6. CASE EnterAsks
  <2>1. buffer \in Buffers
    BY MineAreBuffers DEF Inv, TypeOK
  <2>2. Looks(Content(buffer), env) \in Shells
    BY <2>1, ContentType, EnterKeyAssumption DEF Inv, TypeOK
  <2> QED BY <1>6, <2>2 DEF EnterAsks, Editing, Inv, TypeOK, Asked, given, world, Mine, Nothing
<1>7. CASE Answers
  <2>1. PICK w \in Worlds :
          /\ Blocks(Findings(Content(buffer), w, opts))
               => /\ confirmed' = buffer
                  /\ UNCHANGED <<given, world, buffer, ran, author>>
          /\ ~Blocks(Findings(Content(buffer), w, opts))
               => /\ Accepts("passed", Findings(Content(buffer), w, opts))
                  /\ UNCHANGED confirmed
    BY <1>7, AnswersInWorld
  <2>2. CASE Blocks(Findings(Content(buffer), w, opts))
    <3>1. ~buffer.comment
      BY <2>2, NothingBlocks DEF Content
    <3>2. opts.enabled
      BY <2>2 DEF Findings, Blocks
    <3>3. asked # {} /\ asked' = {}
      BY <1>7 DEF Answers, Editing
    <3>4. /\ confirmed' = buffer
          /\ UNCHANGED <<given, world, buffer, ran, author>>
      BY <2>1, <2>2
    <3>5. TypeOK'
      BY <3>1, <3>2, <3>3, <3>4 DEF Inv, TypeOK, Asked, given, world, Mine
    <3> QED BY <3>3, <3>4, <3>5 DEF Inv, Asked, given
  <2>3. CASE ~Blocks(Findings(Content(buffer), w, opts))
    BY <1>7, <2>1, <2>3, AcceptsInv DEF Answers
  <2> QED BY <2>2, <2>3
<1>8. CASE NoAnswer
  BY <1>8, AcceptsInv DEF NoAnswer
<1>9. CASE WorldChanges
  BY <1>9 DEF WorldChanges, Inv, TypeOK, Asked, given, Mine, Nothing, Empty
<1>10. CASE UNCHANGED vars
  BY <1>10 DEF vars, given, world, Inv, TypeOK, Asked, Mine
<1> QED BY <1>1, <1>2, <1>3, <1>4, <1>5, <1>6, <1>7, <1>8, <1>9, <1>10 DEF Next

LEMMA AlwaysInv == Spec => []Inv
  BY InitInv, StepInv, PTL DEF Spec

\* Every reachable state of EnterKey has the right types, and a line waits for
\* the second Enter only if the checks are on and it is no comment.
THEOREM TypeCorrect == Spec => []TypeOK
  BY AlwaysInv, PTL DEF Inv

-----------------------------------------------------------------------------
(***************************************************************************)
(* EnterKey implements Gate.                                               *)
(***************************************************************************)
AlwaysBlocked(o) ==
  {Plainly(l) : l \in {k \in Lines : \A w \in Worlds : Blocks(Findings(k, w, o))}}

\* The lines of Gate are those for the options of this session.
LEMMA AsksOfOptions ==
  ASSUME NEW o \in OptionSets
  PROVE  (CHOOSE d \in Dangerous : d[1] = o)[2] = AlwaysBlocked(o)
<1>1. Dangerous = {<<p, AlwaysBlocked(p)>> : p \in OptionSets}
  BY DEF Dangerous, AlwaysBlocked
<1>2. <<o, AlwaysBlocked(o)>> \in Dangerous /\ <<o, AlwaysBlocked(o)>>[1] = o
  BY <1>1
<1>3. PICK d \in Dangerous : d[1] = o /\ d = (CHOOSE c \in Dangerous : c[1] = o)
  BY <1>2, Zenon
<1>4. PICK p \in OptionSets : d = <<p, AlwaysBlocked(p)>>
  BY <1>1, Zenon
<1>5. d[1] = p /\ d[2] = AlwaysBlocked(p)
  BY <1>4
<1>6. d[2] = AlwaysBlocked(o)
  BY <1>3, <1>5, Zenon
<1> QED BY <1>3, <1>6, Zenon

\* What is dangerous in every world blocks in this one.
LEMMA PassesAreSafe ==
  ASSUME NEW w \in Worlds, NEW o \in OptionSets, NEW b \in Buffers,
         ~Blocks(Findings(Content(b), w, o))
  PROVE  b \notin AlwaysBlocked(o)
<1> SUFFICES ASSUME b \in AlwaysBlocked(o) PROVE FALSE
  OBVIOUS
<1>1. PICK l \in Lines : b = Plainly(l) /\ \A v \in Worlds : Blocks(Findings(l, v, o))
  BY DEF AlwaysBlocked
<1>2. Content(b) = l
  BY <1>1 DEF Content, Plainly
<1> QED BY <1>1, <1>2

LEMMA InitGate == Init => Promise!Init
<1> SUFFICES ASSUME Init PROVE Promise!Init
  OBVIOUS
<1>1. (CHOOSE d \in Dangerous : d[1] = opts)[2] = AlwaysBlocked(opts)
  BY AsksOfOptions DEF Init
<1>2. ASSUME NEW b \in AlwaysBlocked(opts) PROVE b \in Buffers
  <2>1. PICK l \in Lines : b = Plainly(l)
    BY DEF AlwaysBlocked
  <2> QED BY <2>1 DEF Plainly, Buffers
<1> QED BY <1>1, <1>2 DEF Init, Nothing, Promise!Init, Promise!Nothing

LEMMA StepGate ==
  Inv /\ [Next]_vars => [Promise!Next]_<<(CHOOSE d \in Dangerous : d[1] = opts)[2], confirmed,
      IF ran.how \in {"confirmed", "passed"} THEN [line |-> ran.line, how |-> ran.how]
      ELSE [line |-> Empty, how |-> "nothing"]>>
<1> SUFFICES ASSUME Inv, Next PROVE Promise!Next
  BY DEF vars, given
<1>1. opts' = opts
  BY DEF Next, given, Types, Recalls, Rewrites, Proposes, EnterRuns, EnterConfirms, EnterAsks,
         Answers, NoAnswer, Accepts, WorldChanges
<1>2. (CHOOSE d \in Dangerous : d[1] = opts)[2]' = (CHOOSE d \in Dangerous : d[1] = opts)[2]
  BY <1>1
<1>3. Nothing.how = "nothing"
  BY DEF Nothing
<1>4. ASSUME NEW b \in Mine, Types(b) \/ Recalls(b) PROVE Promise!Other
  BY <1>3, <1>4 DEF Types, Recalls, Rewrites, Promise!Other, Promise!Nothing
<1>5. ASSUME NEW l \in lines, Proposes(l) PROVE Promise!Other
  BY <1>3, <1>5 DEF Proposes, Promise!Other, Promise!Nothing
<1>6. CASE EnterRuns
  BY <1>6, <1>2 DEF EnterRuns, Accepts, Promise!Next, Promise!Other, Promise!Nothing
<1>7. CASE EnterConfirms
  BY <1>7, <1>2 DEF EnterConfirms, Accepts, Promise!Next, Promise!Confirm
<1>8. CASE EnterAsks
  BY <1>8, <1>2, <1>3 DEF EnterAsks, Promise!Next, Promise!Other, Promise!Nothing
<1>9. CASE Answers
  <2>1. /\ buffer \in Buffers \ {Empty} /\ confirmed = Empty /\ ran = Nothing
    BY <1>9, MineAreBuffers DEF Answers, Editing, Inv, TypeOK
  <2>2. PICK w \in Worlds :
          /\ Blocks(Findings(Content(buffer), w, opts))
               => /\ confirmed' = buffer
                  /\ UNCHANGED <<given, world, buffer, ran, author>>
          /\ ~Blocks(Findings(Content(buffer), w, opts))
               => /\ Accepts("passed", Findings(Content(buffer), w, opts))
                  /\ UNCHANGED confirmed
    BY <1>9, AnswersInWorld
  <2>3. CASE Blocks(Findings(Content(buffer), w, opts))
    BY <1>2, <1>3, <2>1, <2>2, <2>3 DEF Promise!Next, Promise!Offer, Promise!Nothing
  <2>4. CASE ~Blocks(Findings(Content(buffer), w, opts))
    <3>1. ran' = [line |-> buffer, how |-> "passed", told |-> Findings(Content(buffer), w, opts)]
      BY <2>2, <2>4 DEF Accepts
    <3>2. buffer \notin (CHOOSE d \in Dangerous : d[1] = opts)[2]
      BY <2>1, <2>4, AsksOfOptions, PassesAreSafe DEF Inv
    <3>3. confirmed' = Empty
      BY <2>1, <2>2, <2>4
    <3> QED BY <1>2, <2>1, <3>1, <3>2, <3>3 DEF Promise!Next, Promise!Pass
  <2> QED BY <2>3, <2>4
<1>10. CASE NoAnswer
  BY <1>10, <1>2 DEF NoAnswer, Accepts, Promise!Next, Promise!Other, Promise!Nothing
<1>11. CASE WorldChanges
  BY <1>11, <1>2, <1>3 DEF WorldChanges, Promise!Next, Promise!Other, Promise!Nothing
<1> QED BY <1>2, <1>4, <1>5, <1>6, <1>7, <1>8, <1>9, <1>10, <1>11 DEF Next, Promise!Next

\* The Enter key implements Gate: whatever the lines, checks and worlds are, a
\* line that is dangerous in all of them passes no look at it, and a second
\* Enter uses up the block that was shown (fore.zsh:317).
THEOREM GateCorrect == Spec => GateSpec
  BY InitGate, StepGate, AlwaysInv, PTL DEF Spec, GateSpec, Promise!Spec

-----------------------------------------------------------------------------
(***************************************************************************)
(* What the model proposes.                                                *)
(***************************************************************************)

\* What the model wrote and is still in the line is commented out if it is
\* destructive.
Muted == author = "model" => buffer.comment \/ Assess(buffer.line) # Destructive

LEMMA EmptyIsMuted == Assess(Empty.line) # Destructive
  BY NothingToAssess DEF Empty, Plainly

LEMMA LinesAreSequences == ASSUME NEW l \in Lines PROVE Len(l) \in Nat /\ DOMAIN l = 1..Len(l)
<1> DEFINE S == [words : Seq(Words), join : {"", "&&", ";", "|", "$("}, over : Words]
<1>1. l \in Seq(S)
  BY EnterKeyAssumption
<1> HIDE DEF S
<1> QED BY <1>1

\* Behind a command that is not found nothing runs that waits for it.
LEMMA OnlyConditional ==
  ASSUME NEW l \in Lines, \A i \in 2..Len(l) : l[i].join = "&&"
  PROVE  Live(l) = {}
<1> SUFFICES ASSUME NEW i \in DOMAIN l, NEW k \in 2..i, l[k].join # "&&" PROVE FALSE
  BY DEF Live
<1>1. Len(l) \in Nat /\ i \in 1..Len(l)
  BY LinesAreSequences
<1>2. k \in 2..Len(l)
  BY <1>1
<1> QED BY <1>2

\* What runs of a proposal that the shell does not take for a comment.
LEMMA WhatRuns ==
  ASSUME NEW b \in Buffers, Assess(Runs(b)) = Destructive, b.comment \/ Assess(b.line) # Destructive
  PROVE  ~comments /\ \E i \in 2..Len(b.line) : b.line[i].join # "&&"
<1>1. CASE ~b.comment
  BY <1>1 DEF Runs
<1>2. CASE b.comment
  <2>1. ~comments /\ Live(b.line) # {}
    BY <1>2, NothingToAssess DEF Runs
  <2>2. b.line \in Lines
    BY <1>2 DEF Buffers, Empty, Plainly
  <2> QED BY <2>1, <2>2, OnlyConditional
<1> QED BY <1>1, <1>2

LEMMA InitProposals == Init => Muted /\ CommentHolds
  BY DEF Init, Muted, CommentHolds, Nothing

LEMMA AcceptsMuted ==
  ASSUME Inv, Muted, NEW how, NEW told, Accepts(how, told)
  PROVE  (Muted /\ CommentHolds)'
<1>1. /\ ran'.line = buffer /\ author' = author /\ comments' = comments /\ buffer' = Empty
  BY DEF Accepts, given
<1>2. Runs(ran.line)' = Runs(buffer)
  BY <1>1 DEF Runs
<1>3. buffer \in Buffers
  BY MineAreBuffers DEF Inv, TypeOK
<1>4. Muted'
  BY <1>1, EmptyIsMuted DEF Muted
<1>5. CommentHolds'
  BY <1>1, <1>2, <1>3, WhatRuns DEF Muted, CommentHolds
<1> QED BY <1>4, <1>5

LEMMA StepProposals == Inv /\ Muted /\ CommentHolds /\ [Next]_vars => (Muted /\ CommentHolds)'
<1> SUFFICES ASSUME Inv, Muted, CommentHolds, [Next]_vars
             PROVE  (Muted /\ CommentHolds)'
  OBVIOUS
<1>0. Nothing.how = "nothing"
  BY DEF Nothing
<1>1. ASSUME NEW b \in Mine, Rewrites(b) PROVE (Muted /\ CommentHolds)'
  BY <1>0, <1>1 DEF Rewrites, Muted, CommentHolds
<1>2. ASSUME NEW l \in lines, Proposes(l) PROVE (Muted /\ CommentHolds)'
  <2>1. buffer'.line = l /\ buffer'.comment = (Assess(l) = Destructive)
    BY <1>2 DEF Proposes
  <2>2. ran'.how = "nothing"
    BY <1>0, <1>2 DEF Proposes
  <2> QED BY <2>1, <2>2 DEF Muted, CommentHolds
<1>3. CASE EnterRuns
  BY <1>3, AcceptsMuted DEF EnterRuns
<1>4. CASE EnterConfirms
  BY <1>4, AcceptsMuted DEF EnterConfirms
<1>5. CASE EnterAsks
  BY <1>0, <1>5 DEF EnterAsks, Muted, CommentHolds
<1>6. CASE Answers
  <2>1. ran.how = "nothing"
    BY <1>6, <1>0 DEF Answers, Editing, Inv, TypeOK
  <2>2. ASSUME UNCHANGED <<given, world, buffer, ran, author>> PROVE (Muted /\ CommentHolds)'
    BY <2>1, <2>2 DEF Muted, CommentHolds
  <2>3. ASSUME NEW told, Accepts("passed", told) PROVE (Muted /\ CommentHolds)'
    BY <2>3, AcceptsMuted
  <2> QED BY <1>6, <2>2, <2>3, AnswersInWorld
<1>7. CASE NoAnswer
  BY <1>7, AcceptsMuted DEF NoAnswer
<1>8. CASE WorldChanges
  BY <1>0, <1>8 DEF WorldChanges, Muted, CommentHolds
<1>9. CASE UNCHANGED vars
  BY <1>9 DEF vars, given, Muted, CommentHolds, Runs
<1> QED BY <1>1, <1>2, <1>3, <1>4, <1>5, <1>6, <1>7, <1>8, <1>9 DEF Next, Types, Recalls

\* In any shell, with comments or without, whatever the classifier takes for
\* destructive and whether or not anybody looks at the line: a destructive
\* line that the model proposes runs something destructive by Enter only in a
\* shell without comments, and only behind a `;`, a `|` or inside `$(` - one
\* command, or a chain of `&&`, does nothing (fore.zsh:242, 274).
THEOREM ProposalsInert == Spec => []CommentHolds
  BY InitProposals, StepProposals, AlwaysInv, PTL DEF Spec

-----------------------------------------------------------------------------
(***************************************************************************)
(* A destructive line is asked about.                                      *)
(***************************************************************************)

\* The checks that can block a command.
Deciding == {"sudo-pip", "prod", "terraform", "force-push", "secret-file", "preview"}

LEMMA Noting == ASSUME NEW s, NEW n PROVE Noted(s, n).check = "preview"
  BY DEF Noted

LEMMA Undecided == ASSUME NEW s, NEW c, s # Block PROVE F(s, c).sev # Block
  BY DEF F

LEMMA Checked == ASSUME NEW s, NEW c PROVE F(s, c).check = c
  BY DEF F

LEMMA LightOnes == Info # Block /\ Warn # Block
  BY DEF Info, Warn, Block

LEMMA GuardsThatDecide ==
  ASSUME NEW c, NEW w, NEW f \in Guards(c, w), f.sev = Block
  PROVE  f.check \in Deciding
<1>1. CASE f \in PythonGuards(c, w)
  <2>1. f = F(Warn, "venv") \/ f = F(Block, "sudo-pip")
    BY <1>1, InWhen, Zenon DEF PythonGuards
  <2>2. f = F(Block, "sudo-pip")
    BY <2>1, Undecided, LightOnes, Zenon
  <2> QED BY <2>2, Checked DEF Deciding
<1>2. CASE f \in NodeGuards(c, w)
  <2>1. f = F(Warn, "pkg-manager") \/ f = F(Warn, "sudo-npm")
    BY <1>2, InWhen, Zenon DEF NodeGuards
  <2> QED BY <2>1, Undecided, LightOnes, Zenon
<1>3. CASE f \in CloudGuards(c, w)
  <2>1. f = F(Info, "kube-ctx") \/ f.check \in {"prod", "terraform"}
    BY <1>3, InWhen, Checked, Zenon DEF CloudGuards
  <2>2. f.check \in {"prod", "terraform"}
    BY <2>1, Undecided, LightOnes, Zenon
  <2> QED BY <2>2 DEF Deciding
<1>4. CASE f \in GitGuards(c, w)
  <2>1. f = F(Warn, "main-commit") \/ f = F(Info, "dirty") \/ f.check \in {"force-push", "secret-file"}
    BY <1>4, InWhen, Checked, Zenon DEF GitGuards
  <2>2. f.check \in {"force-push", "secret-file"}
    BY <2>1, Undecided, LightOnes, Zenon
  <2> QED BY <2>2 DEF Deciding
<1>5. CASE f \in SystemGuards(c)
  <2>1. f = F(Warn, "docker-prune") \/ f = F(Warn, "chmod777") \/ f = F(Info, "http")
    BY <1>5, InWhen, Zenon DEF SystemGuards
  <2> QED BY <2>1, Undecided, LightOnes, Zenon
<1> QED BY <1>1, <1>2, <1>3, <1>4, <1>5, Zenon DEF Guards

LEMMA PreviewsThatDecide ==
  ASSUME NEW c, NEW w, NEW o, NEW f \in Previews(c, w, o)
  PROVE  f.check = "preview"
<1>1. ASSUME NEW g \in RmPreview(c, w, o) PROVE g.check = "preview"
  BY Noting, Zenon DEF RmPreview
<1>2. ASSUME NEW g \in FilePreview(c, w, o) PROVE g.check = "preview"
  BY <1>1, InWhen, Noting, Zenon DEF FilePreview
<1>3. ASSUME NEW g \in GitPreview(c, w) PROVE g.check = "preview"
  BY InWhen, Noting, Zenon DEF GitPreview
<1> QED BY <1>2, <1>3, Zenon DEF Previews

LEMMA WhatDecides ==
  ASSUME NEW l, NEW w, NEW o, NEW f \in Specific(l, w, o), f.sev = Block
  PROVE  f.check \in Deciding
<1>1. CASE f \in Insights(w)
  <2>1. f = F(Warn, "streak") \/ f = F(Info, "duration")
    BY <1>1, InWhen, Zenon DEF Insights
  <2> QED BY <2>1, Undecided, LightOnes, Zenon
<1>2. CASE \E c \in Commands(l) : f \in Guards(c, w) \cup Previews(c, w, o)
  BY <1>2, GuardsThatDecide, PreviewsThatDecide DEF Deciding
<1> QED BY <1>1, <1>2, Zenon DEF Specific

\* The notes that stop the fallback come from the previews of rm, and from
\* nothing else.
Excuses == {"nothing matches", "to trash"}

LEMMA ExcusesAreNoted == ASSUME NEW s, NEW c PROVE F(s, c).note \notin Excuses
  BY Severity DEF Excuses

LEMMA NotedNote == ASSUME NEW s, NEW n PROVE Noted(s, n).note = n
  BY DEF Noted

LEMMA GuardsDoNotExcuse ==
  ASSUME NEW c, NEW w, NEW f \in Guards(c, w)
  PROVE  f.note \notin Excuses
<1>1. ASSUME NEW g \in PythonGuards(c, w) PROVE g.note \notin Excuses
  BY InWhen, ExcusesAreNoted, Zenon DEF PythonGuards
<1>2. ASSUME NEW g \in NodeGuards(c, w) PROVE g.note \notin Excuses
  BY InWhen, ExcusesAreNoted, Zenon DEF NodeGuards
<1>3. ASSUME NEW g \in CloudGuards(c, w) PROVE g.note \notin Excuses
  BY InWhen, ExcusesAreNoted, Zenon DEF CloudGuards
<1>4. ASSUME NEW g \in GitGuards(c, w) PROVE g.note \notin Excuses
  BY InWhen, ExcusesAreNoted, Zenon DEF GitGuards
<1>5. ASSUME NEW g \in SystemGuards(c) PROVE g.note \notin Excuses
  BY InWhen, ExcusesAreNoted, Zenon DEF SystemGuards
<1> QED BY <1>1, <1>2, <1>3, <1>4, <1>5, Zenon DEF Guards

\* What the preview of rm means by its notes.
LEMMA RmExcuses ==
  ASSUME NEW c, NEW w, NEW o, NEW f \in RmPreview(c, w, o), f.note \in Excuses
  PROVE  /\ Plain(c.args) # {}
         /\ \/ f.note = "nothing matches" /\ \A i \in Plain(c.args) : w.files[c.args[i]].kind = "missing"
            \/ f.note = "to trash" /\ o.safe_rm
<1> DEFINE targets == Plain(c.args)
           gone == /\ SumFunction(Lost(c, w)) = 0
                   /\ \A i \in targets : w.files[c.args[i]].kind = "missing"
<1>1. targets # {}
  BY DEF RmPreview
<1>2. CASE gone
  <2>1. f = Noted(Info, "nothing matches")
    BY <1>1, <1>2, Zenon DEF RmPreview
  <2> QED BY <1>1, <1>2, <2>1, NotedNote
<1>3. CASE ~gone /\ o.safe_rm
  <2>1. \E s \in {Warn, Info} : f = Noted(s, "to trash")
    BY <1>1, <1>3, Zenon DEF RmPreview
  <2> QED BY <1>1, <1>3, <2>1, NotedNote
<1>4. CASE ~gone /\ ~o.safe_rm
  <2>1. \E s \in {Block, Warn} : f = Noted(s, "")
    BY <1>1, <1>4, Zenon DEF RmPreview
  <2> QED BY <2>1, NotedNote DEF Excuses
<1> QED BY <1>2, <1>3, <1>4

LEMMA PreviewExcuses ==
  ASSUME NEW c, NEW w, NEW o, NEW f \in Previews(c, w, o), f.note \in Excuses
  PROVE  c.name = "rm" /\ f \in RmPreview(c, w, o)
<1>1. ASSUME NEW s PROVE Noted(s, "").note \notin Excuses
  BY DEF Noted, Excuses
<1>2. f \notin GitPreview(c, w)
  BY <1>1, InWhen, Zenon DEF GitPreview
<1>3. f \in FilePreview(c, w, o)
  BY <1>2 DEF Previews
<1>4. ASSUME c.name # "rm" PROVE FALSE
  BY <1>1, <1>3, <1>4, InWhen, Zenon DEF FilePreview
<1>5. c.name = "rm"
  BY <1>4
<1> QED BY <1>3, <1>5, Zenon DEF FilePreview

\* The world at hand holds the files of the directory.
LEMMA FilesOfPlace ==
  ASSUME NEW e \in Shells, NEW d \in DOMAIN Places
  PROVE  World(e, d).files = Places[d].files
  BY EnterKeyAssumption DEF World

\* An rm, or what the checks take for one, that w shows to remove nothing, or
\* that moves to the trash.
Exempt(c, w, o) ==
  /\ c.name = "rm" /\ Plain(c.args) # {}
  /\ o.safe_rm \/ \A i \in Plain(c.args) : w.files[c.args[i]].kind = "missing"

LEMMA ExcuseOfCommand ==
  ASSUME NEW l, NEW w, NEW o, NEW f \in Specific(l, w, o), f.note \in Excuses
  PROVE  \E c \in Commands(l) : Exempt(c, w, o)
<1>1. f \notin Insights(w)
  BY InWhen, ExcusesAreNoted, Zenon DEF Insights
<1>2. PICK c \in Commands(l) : f \in Guards(c, w) \cup Previews(c, w, o)
  BY <1>1 DEF Specific
<1>3. f \in Previews(c, w, o)
  BY <1>2, GuardsDoNotExcuse
<1>4. c.name = "rm" /\ f \in RmPreview(c, w, o)
  BY <1>3, PreviewExcuses
<1>5. Exempt(c, w, o)
  BY <1>4, RmExcuses DEF Exempt
<1> QED BY <1>5

\* What the daemon says of a destructive line: it blocks, unless the line has an
\* rm that comes to nothing in this world, or moves to the trash.
LEMMA DestructiveIsBlocked ==
  ASSUME NEW l, NEW w, NEW o,
         o.enabled, o.ignore \cap (Deciding \cup {"destructive"}) = {},
         Assess(l) = Destructive, ~Blocks(Findings(l, w, o))
  PROVE  \E c \in Commands(l) : Exempt(c, w, o)
<1> DEFINE found == Specific(l, w, o)
<1>1. ASSUME NEW f \in found, f.sev = Block PROVE f \in Findings(l, w, o)
  <2>1. f.check \notin o.ignore
    BY <1>1, WhatDecides
  <2> QED BY <2>1, Zenon DEF Findings, Run
<1>2. ~Blocks(found)
  BY <1>1 DEF Blocks
<1>3. CASE \E f \in found : f.note \in Excuses
  BY <1>3, ExcuseOfCommand
<1>4. CASE ~ \E f \in found : f.note \in Excuses
  <2>1. F(Block, "destructive").check = "destructive" /\ F(Block, "destructive").sev = Block
    BY Checked, Severity
  <2>2. F(Block, "destructive") \in Run(l, w, o)
    BY <1>2, <1>4, <2>1 DEF Run, When, Excuses
  <2>3. F(Block, "destructive") \in Findings(l, w, o)
    BY <2>2 DEF Findings
  <2> QED BY <2>1, <2>3 DEF Blocks
<1> QED BY <1>3, <1>4

LEMMA InitAsked == Init => DestructiveIsAsked
  BY DEF Init, Nothing, Passed, DestructiveIsAsked

\* An answer that lets a destructive line run: the directory is still the one
\* that was looked at.
LEMMA AnswersAsk ==
  ASSUME \A o \in OptionSets : o.ignore \cap Deciding = {}, Inv, Answers, ran'.how = "passed",
         DestructiveIsAsked
  PROVE  DestructiveIsAsked'
<1>1. PICK e \in asked :
        LET found == Findings(Content(buffer), World(e, dir), opts) IN
        IF Blocks(found)
        THEN /\ confirmed' = buffer
             /\ UNCHANGED <<given, world, buffer, ran, author>>
        ELSE Accepts("passed", found) /\ UNCHANGED confirmed
  BY DEF Answers
<1> DEFINE w == World(e, dir)
           found == Findings(Content(buffer), w, opts)
<1>2. ran.how = "nothing" /\ e \in Shells /\ dir \in DOMAIN Places /\ opts \in OptionSets
  BY DEF Answers, Editing, Inv, TypeOK, Asked, Nothing
<1>3. ~Blocks(found)
  BY <1>1, <1>2
<1>4. Accepts("passed", found)
  BY <1>1, <1>3
<1>5. ran'.line = buffer /\ opts' = opts /\ dir' = dir
  BY <1>4 DEF Accepts, given, world
<1>6. ASSUME Assess(Content(buffer)) = Destructive, opts.enabled, "destructive" \notin opts.ignore
      PROVE  \E c \in Commands(buffer.line) : Harmless(c)
  <2>1. Content(buffer) = buffer.line
    BY <1>6, NothingToAssess DEF Content
  <2>2. PICK c \in Commands(buffer.line) : Exempt(c, w, opts)
    BY <1>2, <1>3, <1>6, <2>1, DestructiveIsBlocked
  <2>3. w.files = Places[dir].files
    BY <1>2, FilesOfPlace
  <2>4. Harmless(c)
    BY <2>2, <2>3 DEF Exempt, Harmless, NothingThere
  <2> QED BY <2>4
<1> QED BY <1>5, <1>6 DEF DestructiveIsAsked, Passed, Content, Harmless, NothingThere

LEMMA StepAsked ==
  ASSUME \A o \in OptionSets : o.ignore \cap Deciding = {}
  PROVE  Inv /\ DestructiveIsAsked /\ [Next]_vars => DestructiveIsAsked'
<1> SUFFICES ASSUME Inv, DestructiveIsAsked, [Next]_vars PROVE DestructiveIsAsked'
  OBVIOUS
<1>1. ASSUME ran'.how # "passed" PROVE DestructiveIsAsked'
  BY <1>1 DEF DestructiveIsAsked, Passed
<1>2. ASSUME NEW b \in Mine, Rewrites(b) PROVE DestructiveIsAsked'
  BY <1>1, <1>2 DEF Rewrites, Nothing
<1>3. ASSUME NEW l \in lines, Proposes(l) PROVE DestructiveIsAsked'
  BY <1>1, <1>3 DEF Proposes, Nothing
<1>4. CASE EnterRuns \/ EnterConfirms \/ EnterAsks \/ NoAnswer \/ WorldChanges
  BY <1>1, <1>4 DEF EnterRuns, EnterConfirms, EnterAsks, NoAnswer, WorldChanges, Accepts, Nothing
<1>5. CASE Answers
  BY <1>1, <1>5, AnswersAsk
<1>6. CASE UNCHANGED vars
  BY <1>6 DEF vars, given, world, DestructiveIsAsked, Passed, Content, Harmless, NothingThere
<1> QED BY <1>2, <1>3, <1>4, <1>5, <1>6 DEF Next, Types, Recalls

\* Unless the user has silenced a check that can block, a line which the
\* classifier calls destructive, and of which the daemon has been asked, runs at
\* the first Enter only if one of its commands is an rm whose targets are not
\* there in the directory where it runs, or one under safe rm: whatever the
\* other findings are, together they leave no gap (preflight.rs:107).
THEOREM DestructiveAsked ==
  ASSUME \A o \in OptionSets : o.ignore \cap Deciding = {}
  PROVE  Spec => []DestructiveIsAsked
  BY InitAsked, StepAsked, AlwaysInv, PTL DEF Spec
=============================================================================
