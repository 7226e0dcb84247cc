----------------------------- MODULE MCEnterKey -----------------------------
(***************************************************************************)
(* EnterKey with a catalogue of lines: every rule of the classifier, every *)
(* guard and every preview has lines on both sides of its condition.       *)
(***************************************************************************)
EXTENDS EnterKey, TLC

\* Words with marks.
MCMarks ==
        "-rf" :> {"-", "r", "f"} @@ "-r" :> {"-", "r"} @@ "-f" :> {"-", "f", "_f"}
        @@ "-R" :> {"-", "R"} @@ "-i" :> {"-", "i"} @@ "5" :> {"9"} @@ "777" :> {"9"} @@ "755" :> {"9"} @@ "-9" :> {"-"} @@ "-D" :> {"-", "D"}
        @@ "-c" :> {"-"} @@ "-a" :> {"-", "-a"} @@ "-A" :> {"-"} @@ "-X" :> {"-"}
        @@ "-o" :> {"-"} @@ "-u" :> {"-"} @@ "-n" :> {"-"} @@ "-m" :> {"-"} @@ "-E" :> {"-"}
        @@ "--" :> {"-", "--"} @@ "--purge" :> {"-", "--"}
        @@ "--force" :> {"-", "--", "--force", "f"}
        @@ "--force-with-lease" :> {"-", "--", "--force", "--force-with-lease", "f"}
        @@ "--hard" :> {"-", "--", "--hard"} @@ "--staged" :> {"-", "--", "--staged"}
        @@ "--delete" :> {"-", "--", "--delete"} @@ "-delete" :> {"-"} @@ "-exec" :> {"-"}
        @@ "-auto-approve" :> {"-", "-auto-approve", "-a"}
        @@ "+main" :> {"+"} @@ ":old" :> {":"} @@ "prod" :> {"prod"} @@ "prod-eu" :> {"prod"}
        @@ "rm" :> {"rm"} @@ "prune" :> {"prune"} @@ "DROP TABLE" :> {"DROP "}
        @@ "INSERT INTO" :> {"INSERT "} @@ "A=1" :> {"="} @@ "http://a" :> {"http://"}
        @@ "https://a" :> {"https://"}
        @@ [w \in {"", "sudo", "env", "timeout", "nohup", "deploy", "build", "notes", "*.log", "/", ".",
                "dd", "shred", "chmod", "sed", "mv", "kill", "shutdown", "mount", "systemctl",
                "restart", "status", "apt", "install", "list", "git", "push", "reset", "clean",
                "checkout", "restore", "branch", "stash", "drop", "commit", "add", ".env", "pull",
                "main", "docker", "system", "run", "kubectl", "delete", "apply", "get", "terraform",
                "destroy", "plan", "aws", "cp", "npm", "publish", "pip", "python", "psql", "curl",
                "rsync", "ssh", "gh", "merge", "sh", "eval", "make", "passwd", "cd", "ls", "frob",
                "nc", "find", "xargs", "command", "topic", "dev"} |-> {}]

Joined(join, words) == [words |-> words, join |-> join, over |-> ""]
Cmd(words) == Joined("", words)

\* Lines of one command.
Single == {
  <<"rm", "-rf", "build">>, <<"rm", "notes">>, <<"rm", "-rf", "/">>, <<"rm", "*.log">>, <<"rm", "build">>,
  <<"sudo", "rm", "-r", "notes", "build">>, <<"rm", "-f">>,
  <<"dd", "notes">>, <<"shred", "notes">>, <<"chmod", "777", "notes">>, <<"chmod", "-R", "/">>,
  <<"sed", "-i", "notes">>, <<"sed", "notes">>, <<"mv", "notes", "build">>,
  <<"kill", "-9", "5">>, <<"kill", "5">>, <<"shutdown">>, <<"mount">>,
  <<"systemctl", "restart">>, <<"systemctl", "status">>, <<"apt", "install">>, <<"apt", "list">>,
  <<"git", "push">>, <<"git", "push", "-f">>, <<"git", "push", "--force-with-lease">>,
  <<"git", "push", "+main">>, <<"git", "push", ":old">>, <<"git", "push", "--delete", "topic">>,
  <<"git", "reset", "--hard">>, <<"git", "reset">>, <<"git", "clean", "-f">>, <<"git", "clean">>,
  <<"git", "checkout", ".">>, <<"git", "checkout", "main">>, <<"git", "restore", "notes">>,
  <<"git", "restore", "--staged", ".">>, <<"git", "branch", "-D", "topic">>, <<"git", "stash", "drop">>,
  <<"git", "stash">>, <<"git", "commit">>, <<"git", "add", ".env">>, <<"git", "add", "-A">>, <<"git", "pull">>,
  <<"docker", "system", "prune", "-a">>, <<"docker", "rm">>, <<"docker", "run">>, <<"docker", "pull">>,
  <<"kubectl", "delete">>, <<"kubectl", "apply">>, <<"kubectl", "get", "prod">>, <<"kubectl", "apply", "prod">>,
  <<"terraform", "destroy">>, <<"terraform", "apply">>, <<"terraform", "apply", "-auto-approve">>,
  <<"terraform", "plan">>, <<"aws", "rm">>, <<"aws", "cp">>,
  <<"npm", "install">>, <<"npm", "publish">>, <<"sudo", "npm", "install">>, <<"pip", "install">>,
  <<"sudo", "pip", "install">>, <<"python", "-m", "pip", "install">>, <<"python", "-c">>,
  <<"psql", "DROP TABLE">>, <<"psql", "INSERT INTO">>, <<"curl", "-X", "https://a">>,
  <<"curl", "-o", "http://a">>, <<"rsync", "--delete", "build">>, <<"rsync", "build">>, <<"ssh">>,
  <<"gh", "merge">>, <<"gh", "list">>, <<"eval">>, <<"make", "build">>, <<"passwd">>, <<"cd", "build">>,
  <<"ls">>, <<"frob", "--purge">>, <<"frob">>, <<"nc">>, <<"find", "build", "-delete">>,
  <<"find", ".", "-exec", "rm", "-rf", "notes">>, <<"xargs", "-n", "5", "rm", "-rf">>, <<"xargs", "ls">>,
  <<"command", "rm", "-rf", "build">>, <<"sudo">>}

Several == {
  <<Cmd(<<"curl", "https://a">>), Joined("|", <<"sh">>)>>,
  <<Cmd(<<"ls">>), Joined("|", <<"xargs", "rm", "-rf">>)>>,
  <<Cmd(<<"cd", "build">>), Joined("&&", <<"git", "checkout", "main">>)>>,
  <<Cmd(<<"rm", "notes">>), Joined(";", <<"git", "push", "-f">>)>>,
  <<Cmd(<<"rm", "-rf", "build">>), Joined("&&", <<"git", "reset", "--hard">>)>>,
  <<Cmd(<<"ls", "notes">>), Joined("$(", <<"rm", "-rf", "build">>)>>,
  <<[Cmd(<<"ls">>) EXCEPT !.over = "notes"]>>}

MCLines == {<<Cmd(s)>> : s \in Single} \cup Several

\* A session deals with one line of the catalogue or with two.
MCSessions == {{l} : l \in MCLines}
  \cup {{l, <<Cmd(<<"git", "push", ":old">>)>>} :
          l \in {<<Cmd(<<"kubectl", "delete">>)>>, <<Cmd(<<"rm", "notes">>)>>, <<Cmd(<<"ls">>)>>}}

\* A session of one line: two commands of which one is an rm.
Borrowing == {{<<Cmd(<<"rm", "notes">>), Joined(";", <<"git", "push", "-f">>)>>}}

\* Directories: nothing in it; a few files; many, in a repository with work
\* to lose.
Directory(n, work) == [
  lock |-> "npm", secret |-> work, repo |-> work, merged |-> ~work, past |-> <<>>,
  changed |-> IF work THEN 1 ELSE 0, untracked |-> IF work THEN 1 ELSE 0,
  files |-> [t \in DOMAIN MCMarks |->
    [kind |-> CASE t = "*.log" -> "glob" [] t # "*.log" /\ n = 0 -> "missing"
                [] n > 0 /\ t \in {"build", ".", "/"} -> "dir" [] OTHER -> "file",
     n |-> n, git |-> work]]]

\* ... and one where the line has often failed, after it had taken long.
MCPlaces == <<Directory(0, FALSE), Directory(1, FALSE), Directory(2, TRUE),
              [Directory(1, TRUE) EXCEPT !.past = <<"failed", "failed", "slow", "quick", "slow">>]>>

Shell(kind, branch, dirty) == [venv |-> TRUE, kube |-> kind, aws |-> kind, branch |-> branch, dirty |-> dirty]
MCShells == {Shell("dev", "topic", FALSE), Shell("prod-eu", "main", FALSE), Shell("prod-eu", "main", TRUE)}

Options(ignore, safe) == [enabled |-> TRUE, ignore |-> ignore, safe_rm |-> safe, block_files |-> 2]
MCOptions == {Options({}, FALSE), Options({}, TRUE)}

MCWrappedBy == {<<"sudo">>, <<"sudo", "-u", "deploy">>, <<"env", "A=1">>, <<"timeout", "5">>, <<"nohup">>}
=============================================================================
