------------------------------ MODULE EnterKey ------------------------------
(***************************************************************************)
(* The Enter key (shell/fore.zsh, _fore_accept_line): the line goes to the *)
(* daemon before it runs, a block is shown, and a second Enter on the same *)
(* line runs it.  Composed with the pre-flight checks, with what edits the *)
(* line, with the model's proposals, and with a world that changes at any  *)
(* time.  The editor waits for the daemon, at most 400 ms.                 *)
(***************************************************************************)
EXTENDS Preflight

CONSTANTS
  Sessions,   \* sets of lines that a session types, recalls or is proposed
  Shells,     \* what a shell can say of its environment
  Places,     \* Places[d]: directory d with its files, and what git says there
  OptionSets, \* options
  WrappedBy,  \* what can be put before a command
  Comments    \* whether the shell has the option INTERACTIVE_COMMENTS

\* fore.zsh: `git status` is asked only for lines with git, first or behind &&.
Looks(l, e) ==
  [e EXCEPT !.dirty = @ /\ \E i \in DOMAIN l :
                             (i = 1 \/ l[i].join = "&&") /\ Nth(l[i].words, 1) = "git"]

Lines == UNION Sessions

ASSUME EnterKeyAssumption ==
  /\ Comments \subseteq BOOLEAN
  /\ Lines \subseteq Seq([words : Seq(Words), join : {"", "&&", ";", "|", "$("}, over : Words])
  /\ <<>> \notin Lines
  /\ \A e \in Shells : "files" \notin DOMAIN e
  /\ \A d \in DOMAIN Places : "files" \in DOMAIN Places[d]
  /\ \A e \in Shells, l \in Lines \cup {<<>>} : Looks(l, e) \in Shells

VARIABLES
  lines,     \* the lines of this session
  comments,  \* the shell knows comments in lines typed
  opts,      \* configuration and FORE_IGNORE
  enabled,   \* FORE_PREFLIGHT
  wrapped,   \* the editing widgets are wrapped: zsh-autosuggestions was not
             \* there when the plugin was loaded
  env,       \* the shell's environment
  dir,       \* the directory as it is now
  buffer,    \* BUFFER: a line, and whether it is commented out
  confirmed, \* _fore_confirmed
  asked,     \* the environment sent to the daemon, or {}
  ran,       \* what has just run, how, and what was printed with it
  author     \* history variable: who wrote it

given == <<lines, comments, opts, enabled, wrapped>>
world == <<env, dir>>
vars == <<given, world, buffer, confirmed, asked, ran, author>>

Plainly(l) == [line |-> l, comment |-> FALSE]
Empty      == Plainly(<<>>)
Buffers    == [line : Lines, comment : BOOLEAN] \cup {Empty}
Mine       == [line : lines, comment : BOOLEAN] \cup {Empty}
Nothing    == [line |-> Empty, how |-> "nothing", told |-> {}]

\* What the daemon reads in it.
Content(b) == IF b.comment THEN <<>> ELSE b.line

\* What runs behind a `#` that is no comment but a command not found: what comes
\* after `;` (or `||`), the other end of a pipe, and the substitutions among its
\* arguments; nothing that waits for it to succeed.
Live(l) ==
  {i \in DOMAIN l :
     \E k \in 2..i :
       \/ l[k].join = ";"
       \/ /\ l[k].join = "|" \/ (k = i /\ l[k].join = "$(")
          /\ \A j \in 2..k : l[j].join # "&&"}

GoesOn(l) ==
  LET at == SetToSortSeq(Live(l), <) IN [i \in DOMAIN at |-> l[at[i]]]

\* What the shell runs of it.
Runs(b) ==
  IF ~b.comment THEN b.line
  ELSE IF comments \/ Live(b.line) = {} THEN <<>> ELSE GoesOn(b.line)

Init ==
  /\ lines \in Sessions
  /\ comments \in Comments /\ opts \in OptionSets
  /\ enabled \in BOOLEAN /\ wrapped \in BOOLEAN
  /\ env \in Shells /\ dir \in DOMAIN Places
  /\ buffer = Empty /\ confirmed = Empty
  /\ asked = {}
  /\ ran = Nothing
  /\ author = "user"

Editing == asked = {}

\* The user empties the line, or writes another one from nothing.
Rewrites(b) ==
  /\ Editing /\ b # buffer /\ Empty \in {b, buffer}
  /\ buffer' = b
  /\ ran' = Nothing
  /\ author' = "user"
  /\ UNCHANGED <<given, world, asked>>

\* Widgets the plugin wraps: self-insert, backward-delete-char, delete-char,
\* backward-kill-word.
Types(b) ==
  /\ Rewrites(b)
  /\ confirmed' = IF wrapped THEN Empty ELSE confirmed

\* Widgets it does not wrap: history, paste, kill-line, the acceptance of a
\* suggestion; and Ctrl-C.
Recalls(b) ==
  /\ Rewrites(b)
  /\ UNCHANGED confirmed

\* Mutant: the comment is for what runs as root.
ProposesPlainly(l) ==
  /\ Editing
  /\ buffer' = [line |-> l, comment |-> Assess(l) = Privileged]
  /\ ran' = Nothing
  /\ author' = "model"
  /\ UNCHANGED <<given, world, confirmed, asked>>

\* _fore_show_proposal: what the model proposes is put in the line, as a
\* comment if it is destructive.
Proposes(l) ==
  /\ Editing
  /\ buffer' = [line |-> l, comment |-> Assess(l) = Destructive]
  /\ ran' = Nothing
  /\ author' = "model"
  /\ UNCHANGED <<given, world, confirmed, asked>>

\* accept-line: the shell runs the line and starts an empty one.
Accepts(how, told) ==
  /\ ran' = [line |-> buffer, how |-> how, told |-> told]
  /\ buffer' = Empty
  /\ UNCHANGED <<given, world, author>>

\* _fore_accept_line: the checks are off, or the line is blank.
EnterRuns ==
  /\ Editing /\ (~enabled \/ buffer = Empty)
  /\ Accepts("unchecked", {})
  /\ UNCHANGED <<confirmed, asked>>

\* Mutant: a confirmation is good for ever.
ConfirmsForGood ==
  /\ Editing /\ enabled /\ buffer # Empty /\ confirmed = buffer
  /\ Accepts("confirmed", {})
  /\ UNCHANGED <<confirmed, asked>>

\* _fore_accept_line: the line equals the one that was blocked.
EnterConfirms ==
  /\ Editing /\ enabled /\ buffer # Empty /\ confirmed = buffer
  /\ confirmed' = Empty
  /\ Accepts("confirmed", {})
  /\ UNCHANGED asked

\* Mutant: the line that was blocked stays confirmed when another is asked about.
AsksAlso ==
  /\ Editing /\ enabled /\ buffer # Empty /\ confirmed # buffer
  /\ asked' = {Looks(Content(buffer), env)}
  /\ ran' = Nothing
  /\ UNCHANGED <<given, world, buffer, confirmed, author>>

\* _fore_accept_line: the daemon is asked.
EnterAsks ==
  /\ Editing /\ enabled /\ buffer # Empty /\ confirmed # buffer
  /\ confirmed' = Empty
  /\ asked' = {Looks(Content(buffer), env)}
  /\ ran' = Nothing
  /\ UNCHANGED <<given, world, buffer, author>>

\* What the checks can look at.
World(e, d) ==
  [k \in DOMAIN e \cup DOMAIN Places[d] |-> IF k \in DOMAIN e THEN e[k] ELSE Places[d][k]]

\* The daemon answers in time: a block is shown, or the line runs.
Answers ==
  /\ ~Editing
  /\ asked' = {}
  /\ \E e \in asked :
       LET found == Findings(Content(buffer), World(e, dir), opts) IN
       IF Blocks(found)
       THEN /\ confirmed' = buffer
            /\ UNCHANGED <<given, world, buffer, ran, author>>
       ELSE Accepts("passed", found) /\ UNCHANGED confirmed

\* call: no daemon, or no answer within 400 ms; Enter behaves as ever.
NoAnswer ==
  /\ ~Editing
  /\ asked' = {}
  /\ Accepts("unchecked", {})
  /\ UNCHANGED confirmed

\* Other shells, editors and programs.
WorldChanges ==
  /\ \/ env' \in Shells \ {env} /\ UNCHANGED dir
     \/ dir' \in DOMAIN Places \ {dir} /\ UNCHANGED env
  /\ ran' = Nothing
  /\ UNCHANGED <<given, buffer, confirmed, asked, author>>

Next ==
  \/ \E b \in Mine : Types(b) \/ Recalls(b)
  \/ \E l \in lines : Proposes(l)
  \/ EnterRuns \/ EnterConfirms \/ EnterAsks
  \/ Answers \/ NoAnswer
  \/ WorldChanges

Spec == Init /\ [][Next]_vars

-----------------------------------------------------------------------------
(***************************************************************************)
(* Properties.                                                             *)
(***************************************************************************)

\* Every variable holds values of its kind; a line waits for the second Enter
\* only if the checks found something to block in it.
TypeOK ==
  /\ lines \in Sessions /\ comments \in Comments /\ opts \in OptionSets
  /\ {enabled, wrapped} \subseteq BOOLEAN
  /\ env \in Shells /\ dir \in DOMAIN Places
  /\ {buffer, confirmed, ran.line} \subseteq Mine
  /\ confirmed # Empty => ~confirmed.comment /\ enabled /\ opts.enabled
  /\ asked # {} => buffer # Empty /\ confirmed = Empty /\ ran = Nothing
  /\ ran.how \in {"nothing", "unchecked", "confirmed", "passed"}
  /\ author \in {"user", "model"}

\* The lines whose findings block in every world.
Worlds == {World(e, d) : e \in Shells, d \in DOMAIN Places}
Dangerous ==
  {<<o, {Plainly(l) : l \in {k \in Lines : \A w \in Worlds : Blocks(Findings(k, w, o))}}>> :
     o \in OptionSets}

\* The Enter key keeps the promise of Gate: a dangerous line that was looked at
\* runs only by the second Enter, and every second Enter follows a showing of
\* its own (fore.zsh:317, README.md:169).
Promise == INSTANCE Gate WITH
  Lines   <- Buffers,
  None    <- Empty,
  asks    <- (CHOOSE d \in Dangerous : d[1] = opts)[2],
  offered <- confirmed,
  ran     <- IF ran.how \in {"confirmed", "passed"} THEN [line |-> ran.line, how |-> ran.how]
             ELSE [line |-> Empty, how |-> "nothing"]
GateSpec == Promise!Spec

Gravity(l, w, o) == Worst({f.sev : f \in Findings(l, w, o)})

\* v has less to lose than w.
Safer(v, w) ==
  /\ v.venv = w.venv /\ v.lock = w.lock /\ v.past = w.past
  /\ Prodish(v.kube) => Prodish(w.kube)
  /\ Prodish(v.aws) => Prodish(w.aws)
  /\ v.branch \in Protected => w.branch \in Protected
  /\ v.secret => w.secret
  /\ v.repo => w.repo
  /\ w.merged => v.merged
  /\ v.changed =< w.changed /\ v.untracked =< w.untracked
  /\ v.dirty => w.dirty
  /\ \A t \in DOMAIN w.files :
       /\ v.files[t].kind \in {w.files[t].kind, "missing"}
       /\ v.files[t].n =< w.files[t].n /\ (v.files[t].git => w.files[t].git)

\* Lines of which less is said where there is more to lose.
Inverted ==
  UNION {{<<o, l>> : l \in {k \in Lines : \E v, w \in Worlds :
                              Safer(v, w) /\ Gravity(k, v, o) > Gravity(k, w, o)}} :
           o \in OptionSets}

\* Where there is more to lose, no less is said: the fallback of the classifier
\* and the previews that stand in for it leave no gap (preflight.rs:107).
MoreToLose == <<opts, buffer.line>> \notin Inverted

\* Lines with a command that is not seen, by the classifier or by the checks,
\* once it is wrapped.
Unseen ==
  {l \in Lines : \E i \in {j \in DOMAIN l : l[j].words[1] \notin Wrappers}, p \in WrappedBy :
     LET s == l[i].words IN
     \/ RiskOf[p \o s] < RiskOf[s]
     \/ CommandName(p \o s) # CommandName(s)
     \/ Simple(p \o s).name # Simple(s).name
     \/ Simple(p \o s).args # Simple(s).args}

\* What is behind sudo and the like is seen (safety.rs:154), by the two parsers
\* alike.
SeesThroughWrappers == buffer.line \notin Unseen

\* A destructive command that the model proposes does nothing by Enter alone,
\* however often (fore.zsh:242).
ProposalsAreInert ==
  ran.how # "nothing" /\ author = "model" => Assess(Runs(ran.line)) # Destructive

\* Where that fails, the shell knows no comments and the command stands behind
\* more than `&&`: any other proposal does nothing in any shell (fore.zsh:274).
CommentHolds ==
  ran.how # "nothing" /\ author = "model" /\ Assess(Runs(ran.line)) = Destructive
  => ~comments /\ \E i \in 2..Len(ran.line.line) : ran.line.line[i].join # "&&"

\* An rm of which no target exists.
NothingThere(c) ==
  /\ c.name = "rm" /\ Plain(c.args) # {}
  /\ \A i \in Plain(c.args) : Places[dir].files[c.args[i]].kind = "missing"

\* An rm that removes nothing, or that the checks take for the one that only
\* moves things to the trash.
Harmless(c) == NothingThere(c) \/ (opts.safe_rm /\ c.name = "rm" /\ Plain(c.args) # {})

\* The line has just run at the first Enter although the checks were asked.
Passed == ran.how = "passed" /\ opts.enabled /\ "destructive" \notin opts.ignore

\* A line the classifier calls destructive, of which the daemon has been asked,
\* is not run at the first Enter unless it has an rm and what that names is not
\* there, or goes to the trash: no other finding takes the place of the block
\* (preflight.rs:107).
DestructiveIsAsked ==
  Passed /\ Assess(Content(ran.line)) = Destructive
  => \E c \in Commands(ran.line.line) : Harmless(c)

Loses(i) == RiskOf[ran.line.line[i].words] = Destructive

\* The preview that lets a destructive command run is its own: "Destructive per
\* the classifier but no specific preview fired -> still say so once. (Unless a
\* preview already established it's a no-op)" (preflight.rs:107).
EachDestructiveIsAsked ==
  Passed => \A i \in DOMAIN Content(ran.line) :
              Loses(i) => Harmless(Simple(ran.line.line[i].words))
=============================================================================
