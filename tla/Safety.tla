------------------------------- MODULE Safety -------------------------------
(***************************************************************************)
(* The safety classifier (src/safety.rs): how much can a command line      *)
(* hurt?                                                                   *)
(*                                                                         *)
(* A command is the sequence of its words, a line a sequence of commands;  *)
(* the grammar that takes a line apart is outside.  A word is a value, and *)
(* Marks tells of it what the code asks with starts_with and contains: a   *)
(* mark is the text or letter looked for; "-", "--", ":", "_f" and "-X"    *)
(* are marks of words that start with -, --, :, -f and -X.                 *)
(*                                                                         *)
(* One name stands for each list of names the code treats alike: dd for    *)
(* what writes devices, mv for what changes files, ls for READ_ONLY, frob  *)
(* for a program no list has, and so on.  Names are without directories.   *)
(***************************************************************************)
EXTENDS Naturals, Sequences, SequencesExt

CONSTANT Marks  \* Marks[w]: what the code looks for in a word, and finds in w

ASSUME SafetyAssumption ==
  /\ \A w \in DOMAIN Marks : Marks[w] \subseteq STRING
  /\ "" \in DOMAIN Marks /\ Marks[""] = {}

Words == DOMAIN Marks

\* Risk, from the least to the greatest.
ReadOnly == 0
Mutating == 1
Remote == 2
Privileged == 3
Destructive == 4
Risks == 0..4

Worst(S) == Max(S \cup {0})

-----------------------------------------------------------------------------
\* Words of a command or among its arguments.
Some(a, S)  == ToSet(a) \cap S # {}
Has(a, m)   == \E w \in ToSet(a) : m \in Marks[w]
Dashed(w)   == "-" \in Marks[w]
Nth(a, n)   == IF n =< Len(a) THEN a[n] ELSE ""
Plain(a)    == {i \in DOMAIN a : ~Dashed(a[i])}
After(a, i) == SubSeq(a, i + 1, Len(a))

\* classify_command, has_flag.
HasFlag(a, short, long) ==
  \/ long \in ToSet(a)
  \/ \E w \in ToSet(a) : {"-", short} \subseteq Marks[w] /\ "--" \notin Marks[w]

Wrappers == {"sudo", "env", "command", "timeout", "nohup"}
Valued   == {"-u", "-n", "-i", "-s", "-k"}

\* Behind a wrapper at i: the duration of timeout, flags, of which some have a
\* value, assignments.
PastDuration(s, i) ==
  IF s[i] = "timeout" /\ i < Len(s) /\ ~Dashed(s[i + 1]) THEN i + 2 ELSE i + 1

\* Mutant: the value of a flag is taken for the command.
NoValues(s, from) ==
  LET past[i \in Nat] == IF i > Len(s) \/ ~Dashed(Nth(s, i)) THEN i ELSE past[i + 1]
  IN past[from]

PastFlags(s, from) ==
  LET past[i \in Nat] == IF i > Len(s) \/ ~Dashed(Nth(s, i)) THEN i
                         ELSE past[i + (IF s[i] \in Valued THEN 2 ELSE 1)]
  IN past[from]

PastAssignments(s, from) ==
  LET past[i \in Nat] == IF i > Len(s) \/ "=" \notin Marks[Nth(s, i)] \/ Dashed(s[i])
                         THEN i ELSE past[i + 1]
  IN past[from]

\* command_name: where the name is once the wrappers are peeled off.
NamePlace(s) ==
  LET place[i \in Nat] ==
        IF Nth(s, i) \notin Wrappers THEN i
        ELSE place[PastAssignments(s, PastFlags(s, PastDuration(s, i)))]
  IN place[1]

CommandName(s) == Nth(s, NamePlace(s))

\* classify_command: the arguments are what follows the first word that equals
\* the name.
Arguments(s) ==
  LET at == {i \in DOMAIN s : s[i] = CommandName(s)}
  IN After(s, IF at = {} THEN 1 ELSE Min(at))

-----------------------------------------------------------------------------
(***************************************************************************)
(* The rules, tool by tool.                                                *)
(***************************************************************************)
Scary == {"/", "*", "~", ".", ".."}

FileRisk(name, a) ==
  CASE name = "rm"    -> IF \/ \E i \in Plain(a) : a[i] \in Scary
                            \/ HasFlag(a, "r", "--recursive") \/ HasFlag(a, "R", "--recursive")
                         THEN Destructive ELSE Mutating
    [] name \in {"dd", "shred"} -> Destructive
    [] name = "chmod" -> IF HasFlag(a, "R", "--recursive") /\ Some(a, {"/", "777", "-R"})
                         THEN Destructive ELSE Mutating
    [] name = "sed"   -> IF HasFlag(a, "i", "--in-place") THEN Mutating ELSE ReadOnly
    [] name = "mv"    -> Mutating

SystemRisk(name, a) ==
  CASE name = "kill"      -> IF Some(a, {"-9", "1"}) THEN Privileged ELSE Mutating
    [] name = "shutdown"  -> Privileged
    [] name = "mount"     -> Privileged
    [] name = "systemctl" -> IF Some(a, {"stop", "restart", "disable"}) \/ ~Some(a, {"status", "show"})
                             THEN Privileged ELSE ReadOnly
    [] name = "apt"       -> IF Some(a, {"install", "remove", "upgrade"})
                             THEN Privileged ELSE ReadOnly

GitLoses(a) ==
  LET sub == Nth(a, 1) IN
  \/ sub = "push" /\ \E m \in {"--force", "_f", "+", "--delete", ":"} : Has(a, m)
  \/ sub = "reset" /\ Has(a, "--hard")
  \/ sub = "clean" /\ HasFlag(a, "f", "--force")
  \/ sub = "checkout" /\ Some(a, {"--", "."})
  \/ sub = "restore" /\ ~Has(a, "--staged")
  \/ sub = "branch" /\ HasFlag(a, "D", "--delete")
  \/ sub = "stash" /\ Nth(a, 2) \in {"drop", "clear"}

GitRisk(a) ==
  CASE GitLoses(a) -> Destructive
    [] ~GitLoses(a) /\ Nth(a, 1) \in {"push", "pull", "clone", "fetch"} -> Remote
    [] ~GitLoses(a) /\ Nth(a, 1) \in {"rebase", "add", "commit", "stash", "merge", "checkout"} -> Mutating
    [] OTHER -> ReadOnly

DockerRisk(a) ==
  LET sub == Nth(a, 1) IN
  CASE \/ sub = "system" /\ Nth(a, 2) = "prune"
       \/ sub \in {"rm", "volume", "network"} /\ (Has(a, "rm") \/ Has(a, "prune")) -> Destructive
    [] sub \in {"push", "pull"} -> Remote
    [] sub \in {"run", "exec", "build", "stop"} -> Mutating
    [] OTHER -> ReadOnly

KubeReads == {"get", "describe", "logs", "config"}

KubeRisk(a) ==
  LET sub == Nth(a, 1) IN
  Worst({IF sub \in {"delete", "uninstall"} THEN Destructive ELSE ReadOnly,
         IF sub \in {"apply", "create", "scale", "exec"} THEN Remote ELSE ReadOnly,
         IF Has(a, "prod") /\ sub \notin KubeReads THEN Privileged ELSE ReadOnly})

CloudRisk(name, a) ==
  CASE name = "terraform" ->
         IF Nth(a, 1) = "destroy" THEN Destructive
         ELSE IF Nth(a, 1) # "apply" THEN ReadOnly
         ELSE IF Has(a, "-auto-approve") \/ Has(a, "--yes") THEN Destructive ELSE Remote
    [] name = "aws" ->
         IF Some(a, {"rm", "rb", "delete"}) THEN Destructive
         ELSE IF Some(a, {"cp", "sync", "mv"}) THEN Remote ELSE ReadOnly

DataRisk(name, a) ==
  CASE name \in {"npm", "pip", "yarn"} ->
         IF "publish" \in ToSet(a) THEN Remote
         ELSE IF Some(a, {"install", "add", "uninstall", "ci"}) THEN Mutating ELSE ReadOnly
    [] name = "psql" ->
         IF Has(a, "DROP ") THEN Destructive ELSE IF Has(a, "INSERT ") THEN Mutating ELSE ReadOnly

NetworkRisk(name, a) ==
  CASE name = "curl"  ->
         IF Some(a, {"-X", "-d", "--data"}) \/ Has(a, "-X") \/ Has(a, "POST") THEN Remote
         ELSE IF Some(a, {"-o", "-O"}) THEN Mutating ELSE ReadOnly
    [] name = "rsync" -> IF Has(a, "--delete") THEN Destructive ELSE Remote
    [] name = "ssh"   -> Remote
    [] name = "gh"    -> IF Some(a, {"delete", "merge", "create"}) THEN Remote ELSE ReadOnly

Interpreters == {"sh", "python"}

OtherRisk(name, a) ==
  CASE name \in Interpreters   -> IF Some(a, {"-c", "-e"}) THEN Mutating ELSE ReadOnly
    [] name = "eval"           -> Mutating
    [] name = "make"           -> Mutating
    [] name = "passwd"         -> Privileged
    [] name \in {"cd", "ls", ""} -> ReadOnly
    [] OTHER -> IF Some(a, {"--delete", "--purge", "--hard"}) THEN Destructive
                ELSE IF name = "nc" THEN Remote ELSE Mutating

ToolRisk(name, a) ==
  CASE name \in {"rm", "dd", "shred", "chmod", "sed", "mv"}           -> FileRisk(name, a)
    [] name \in {"kill", "shutdown", "mount", "systemctl", "apt"}     -> SystemRisk(name, a)
    [] name = "git"                                                   -> GitRisk(a)
    [] name = "docker"                                                -> DockerRisk(a)
    [] name = "kubectl"                                               -> KubeRisk(a)
    [] name \in {"terraform", "aws"}                                  -> CloudRisk(name, a)
    [] name \in {"npm", "pip", "yarn", "psql"}                        -> DataRisk(name, a)
    [] name \in {"curl", "rsync", "ssh", "gh"}                        -> NetworkRisk(name, a)
    [] OTHER                                                          -> OtherRisk(name, a)

\* classify_command: what `find -exec` and `xargs` run, a command of its own.
Payload(name, a) ==
  IF name = "xargs"
  THEN LET starts == {i \in DOMAIN a : ~Dashed(a[i]) /\ "9" \notin Marks[a[i]]}
       IN After(a, IF starts = {} THEN Len(a) ELSE Min(starts) - 1)
  ELSE LET execs == {i \in DOMAIN a : a[i] = "-exec"}
           from  == After(a, IF execs = {} THEN Len(a) ELSE Min(execs))
           ends  == {i \in DOMAIN from : from[i] \in {";", "+"}}
       IN SubSeq(from, 1, IF ends = {} THEN Len(from) ELSE Min(ends) - 1)

\* classify_command, as a function of the command's words.
RiskOf[s \in Seq(Words)] ==
  LET name == CommandName(s)
      a    == Arguments(s)
      root == IF Nth(s, 1) = "sudo" THEN Privileged ELSE ReadOnly
  IN IF s = <<>> THEN ReadOnly
     ELSE IF name \in {"find", "xargs"}
     THEN Worst({root, RiskOf[Payload(name, a)],
                 IF name = "find" /\ "-delete" \in ToSet(a) THEN Destructive ELSE ReadOnly})
     ELSE Worst({root, ToolRisk(name, a)})

-----------------------------------------------------------------------------
(***************************************************************************)
(* A line: its commands in order, each with its words; join, what connects *)
(* it to the one before: "&&", ";", "|", or "$(" for a command inside the  *)
(* substitution of another; and over, the file a `>` truncates, or "".     *)
(***************************************************************************)

\* walk, "pipeline": code from the network goes into an interpreter.
FetchesCode(line) ==
  \E i \in 2..Len(line) :
    /\ line[i].join = "|"
    /\ CommandName(line[i - 1].words) = "curl"
    /\ CommandName(line[i].words) \in Interpreters

\* assess: the worst of it all.
Assess(line) ==
  Worst({RiskOf[line[i].words] : i \in DOMAIN line}
          \cup (IF FetchesCode(line) THEN {Destructive} ELSE {})
          \cup (IF \E i \in DOMAIN line : line[i].over # "" THEN {Mutating} ELSE {}))
=============================================================================
