----------------------------- MODULE Preflight -----------------------------
(***************************************************************************)
(* The pre-flight checks (src/preflight.rs, and the Preflight request of   *)
(* src/daemon.rs): what is to be said of a line before it runs.            *)
(*                                                                         *)
(* A world w is what a check can look at: the shell's environment (venv,   *)
(* kube, aws, branch, dirty), the directory (lock, secret, repo, merged),  *)
(* its files, git's counts of changed and untracked files, and past, what  *)
(* became of this line here, newest first.  w.files[t] says what a word t  *)
(* names: a kind, how many files, and whether it is a repository.          *)
(*                                                                         *)
(* Options o are those of the configuration and of FORE_IGNORE.  The       *)
(* numbers 50 (find) and 100 (rm) are FindBlocks and o.block_files; bytes  *)
(* count like files.                                                       *)
(***************************************************************************)
EXTENDS Safety, FiniteSetsExt

CONSTANTS
  FindBlocks, \* entries from which `find -delete` asks
  Protected   \* protected branches

\* Severity.
Info  == 1
Warn  == 2
Block == 3

F(severity, check) == [sev |-> severity, check |-> check, note |-> ""]
Noted(severity, note) == [sev |-> severity, check |-> "preview", note |-> note]
When(condition, finding) == IF condition THEN {finding} ELSE {}

Blocks(findings) == \E f \in findings : f.sev = Block

\* guards, prodish: the word holds one of the prod markers.
Prodish(w) == "prod" \in Marks[w]

-----------------------------------------------------------------------------
\* collect: behind a wrapper flags and assignments may be mixed.
PastBoth(s, from) ==
  LET past[i \in Nat] ==
        IF Dashed(Nth(s, i)) THEN past[i + (IF s[i] \in Valued THEN 2 ELSE 1)]
        ELSE IF "=" \in Marks[Nth(s, i)] THEN past[i + 1] ELSE i
  IN past[from]

\* collect: the commands of the line, except those in a substitution; not one
\* that is all wrappers.
Place(s) ==
  LET place[i \in Nat] ==
        IF Nth(s, i) \notin Wrappers THEN i ELSE place[PastBoth(s, PastDuration(s, i))]
  IN place[1]

Simple(s) == [name |-> Nth(s, Place(s)), args |-> After(s, Place(s)),
              root |-> \E i \in 1..(Place(s) - 1) : s[i] = "sudo"]

Commands(line) ==
  {Simple(line[i].words) : i \in {j \in DOMAIN line :
                                    line[j].join # "$(" /\ Place(line[j].words) =< Len(line[j].words)}}

-----------------------------------------------------------------------------
(***************************************************************************)
(* Guards: the command does not fit its surroundings.                      *)
(***************************************************************************)
PythonGuards(c, w) ==
  LET a == c.args
      installs == \/ c.name = "pip" /\ Nth(a, 1) \in {"install", "uninstall"}
                  \/ c.name = "python" /\ \E i \in 0..Len(a) : IsPrefix(<<"-m", "pip", "install">>, After(a, i))
  IN When(installs /\ ~w.venv /\ ~Has(a, "--user"), F(Warn, "venv"))
       \cup When(installs /\ c.root, F(Block, "sudo-pip"))

NodeGuards(c, w) ==
  LET installs == c.name \in {"npm", "yarn"} /\ Nth(c.args, 1) \in {"install", "add", "ci"}
  IN When(installs /\ w.lock \notin {"", c.name}, F(Warn, "pkg-manager"))
       \cup When(installs /\ c.root, F(Warn, "sudo-npm"))

CloudGuards(c, w) ==
  LET sub    == Nth(c.args, 1)
      writes == c.name = "kubectl" /\ sub \in {"apply", "delete", "create", "scale", "exec"}
      prod   == Prodish(w.kube) \/ \E a \in ToSet(c.args) : Prodish(a)
      plans  == c.name = "terraform" /\ sub \in {"apply", "destroy"}
  IN When(writes /\ prod, F(Block, "prod"))
       \cup When(writes /\ ~prod, F(Info, "kube-ctx"))
       \cup When(plans, F(IF Prodish(w.aws) \/ sub = "destroy" THEN Block ELSE Warn, "terraform"))
       \cup When(c.name = "aws" /\ Prodish(w.aws) /\ Some(c.args, {"rm", "rb", "delete"}),
                 F(Block, "prod"))

GitGuards(c, w) ==
  LET a       == c.args
      sub     == IF c.name = "git" THEN Nth(a, 1) ELSE ""
      guarded == w.branch \in Protected
      force   == \/ Has(a, "--force") \/ "-f" \in ToSet(a)
                 \/ (~Has(a, "--force-with-lease") /\ Has(a, "+"))
  IN When(sub = "commit" /\ guarded, F(Warn, "main-commit"))
       \cup When(sub = "push" /\ force, F(IF guarded THEN Block ELSE Warn, "force-push"))
       \cup When(sub \in {"checkout", "pull", "rebase", "merge"} /\ w.dirty, F(Info, "dirty"))
       \cup When(sub = "add" /\ (".env" \in ToSet(a) \/ (w.secret /\ Some(a, {"-A", "."}))),
                 F(Block, "secret-file"))

SystemGuards(c) ==
  LET a == c.args IN
  When(c.name = "docker" /\ Nth(a, 1) = "system" /\ Nth(a, 2) = "prune"
         /\ (Has(a, "--volumes") \/ Has(a, "-a")), F(Warn, "docker-prune"))
    \cup When(c.name = "chmod" /\ "777" \in ToSet(a), F(Warn, "chmod777"))
    \cup When(c.name = "curl" /\ Has(a, "http://") /\ ~Has(a, "https://"), F(Info, "http"))

Guards(c, w) ==
  PythonGuards(c, w) \cup NodeGuards(c, w) \cup CloudGuards(c, w) \cup GitGuards(c, w)
    \cup SystemGuards(c)

-----------------------------------------------------------------------------
(***************************************************************************)
(* Previews: what the command would touch.                                 *)
(***************************************************************************)
BuildOutputs == {"build"}

\* A directory that goes with all that is in it.
Whole(c, file) ==
  /\ file.kind = "dir"
  /\ HasFlag(c.args, "r", "--recursive") \/ HasFlag(c.args, "R", "--recursive")

\* How much goes with each target of rm.
Lost(c, w) ==
  [i \in Plain(c.args) |->
     LET file == w.files[c.args[i]]
     IN IF file.kind \in {"file", "glob"} \/ Whole(c, file) THEN file.n ELSE 0]

RmPreview(c, w, o) ==
  LET file(i) == w.files[c.args[i]]
      targets == Plain(c.args)
      total   == SumFunction(Lost(c, w))
      gone    == total = 0 /\ \A i \in targets : file(i).kind = "missing"
      big     == total >= o.block_files
      tracked == \/ \E i \in targets : Whole(c, file(i)) /\ file(i).git
                 \/ w.repo /\ \E i \in targets : c.args[i] \notin BuildOutputs
  IN IF targets = {} THEN {}
     ELSE IF gone THEN {Noted(Info, "nothing matches")}
     ELSE IF o.safe_rm THEN {Noted(IF big THEN Warn ELSE Info, "to trash")}
     ELSE {Noted(IF big \/ tracked THEN Block ELSE Warn, "")}

\* previews: rm, find -delete, rsync --delete, shred and truncate.
FilePreview(c, w, o) ==
  LET a     == c.args
      start == IF a = <<>> \/ Dashed(Nth(a, 1)) THEN "." ELSE a[1]
  IN CASE c.name = "rm" -> RmPreview(c, w, o)
       [] c.name = "find" /\ "-delete" \in ToSet(a) ->
            {Noted(IF w.files[start].n >= FindBlocks THEN Block ELSE Warn, "")}
       [] c.name = "rsync" /\ "--delete" \in ToSet(a) ->
            When(Plain(a) # {} /\ w.files[a[Max(Plain(a))]].n > 0, Noted(Warn, ""))
       [] c.name = "shred" ->
            When(\E i \in Plain(a) : w.files[a[i]].kind # "missing", Noted(Block, ""))
       [] OTHER -> {}

GitPreview(c, w) ==
  LET a    == c.args
      sub  == IF c.name = "git" THEN Nth(a, 1) ELSE ""
      hard == sub = "reset" /\ Has(a, "--hard")
  IN When(hard, Noted(IF w.changed > 0 THEN Block ELSE Info, ""))
       \cup When(sub = "clean" /\ Has(a, "f"), Noted(IF w.untracked > 0 THEN Block ELSE Info, ""))
       \cup When(/\ sub \in {"checkout", "restore"} /\ Some(a, {"--", "."}) /\ ~Has(a, "--staged")
                 /\ w.changed > 0, Noted(Block, ""))
       \cup When(sub = "stash" /\ Nth(a, 2) \in {"drop", "clear"}, Noted(Warn, ""))
       \cup When(sub = "branch" /\ "-D" \in ToSet(a) /\ ~w.merged, Noted(Block, ""))

Previews(c, w, o) == FilePreview(c, w, o) \cup GitPreview(c, w)

\* insights: two failures since the last success; a median of long durations.
Insights(w) ==
  LET ends(S) == {i \in DOMAIN w.past : w.past[i] \in S}
      fresh   == {i \in ends({"failed"}) : \A j \in ends({"quick", "slow"}) : i < j}
  IN When(Cardinality(fresh) >= 2, F(Warn, "streak"))
       \cup When(/\ Cardinality(ends({"quick", "slow"})) >= 2
                 /\ Cardinality(ends({"quick"})) =< Cardinality(ends({"quick", "slow"})) \div 2,
                 F(Info, "duration"))

-----------------------------------------------------------------------------
\* run: what each command is told, and what the line is told.
Specific(line, w, o) ==
  Insights(w) \cup UNION {Guards(c, w) \cup Previews(c, w, o) : c \in Commands(line)}

\* Mutant: the fallback looks for any finding, not for one that blocks.
RunIfSilent(line, w, o) ==
  LET found == Specific(line, w, o)
  IN {f \in found \cup When(Assess(line) = Destructive /\ found = {}, F(Block, "destructive")) :
        f.check \notin o.ignore}

\* run: the fallback, unless a command was found to have nothing to do or to
\* move to the trash; then the findings the user has silenced go.
Run(line, w, o) ==
  LET found   == Specific(line, w, o)
      noop    == \E f \in found : f.note = "nothing matches"
      trashed == o.safe_rm /\ \E f \in found : f.note = "to trash"
      unsaid  == Assess(line) = Destructive /\ ~noop /\ ~trashed /\ ~Blocks(found)
  IN {f \in found \cup When(unsaid, F(Block, "destructive")) : f.check \notin o.ignore}

\* truncating_redirect_targets.
Truncates(line, w) ==
  \E i \in DOMAIN line :
    line[i].over # "" /\ w.files[line[i].over].kind = "file"

\* daemon.rs, Request::Preflight.
Findings(line, w, o) ==
  IF o.enabled THEN Run(line, w, o) \cup When(Truncates(line, w), F(Warn, "truncate")) ELSE {}
=============================================================================
