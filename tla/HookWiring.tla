----------------------------- MODULE HookWiring -----------------------------
(***************************************************************************)
(* What `leonard doctor` says of the hooks in .claude/settings.local.json. *)
(* A command is its words, quotes being words of their own.  A matcher is  *)
(* "" or "*", a list of tool names, or a regex, of which it only matters   *)
(* which tools it matches and whether Go can compile it.                   *)
(***************************************************************************)
EXTENDS Naturals, Sequences, SequencesExt

RequiredPreEditTools == {"Edit", "Write", "MultiEdit", "NotebookEdit", "Bash"}
RequiredPostEditTools == {"Edit", "Write", "MultiEdit"}

ShellQuotes == {"'", "dq"}
Spaces == {" "}

\* commandInvokes: the binary at the start of a path, at most one quote, at
\* least one space, and the subcommand as a whole word.
CommandInvokes(cmd, sub) ==
  \E k \in DOMAIN cmd : \E n \in k + 1 .. Len(cmd) :
    /\ cmd[k] = "leonard-hook"
    /\ k > 1 => cmd[k - 1] \in Spaces \cup ShellQuotes \cup {"/"}
    /\ \A j \in k + 1 .. n - 1 : cmd[j] \in Spaces \/ (j = k + 1 /\ cmd[j] \in ShellQuotes)
    /\ cmd[n - 1] \in Spaces
    /\ cmd[n] = sub
    /\ n < Len(cmd) => cmd[n + 1] \in Spaces \cup ShellQuotes

\* matchersFor: a group counts once, whatever else it runs.
MatchersFor(groups, sub) ==
  FlattenSeq([k \in DOMAIN groups |->
    IF \E c \in groups[k].commands : CommandInvokes(c, sub) THEN << groups[k].matcher >> ELSE <<>>])

\* Mutant: a name in a list covers every tool that contains it.
MissingToolsByPart(matcher, want) ==
  CASE matcher.mode = "all" -> {}
    [] matcher.mode = "list" ->
         {t \in want : ~ (t \in matcher.tools \/ (t = "MultiEdit" /\ "Edit" \in matcher.tools))}
    [] OTHER -> {t \in want : t \notin matcher.tools}

\* missingTools, for a matcher that can be evaluated.
MissingTools(matcher, want) ==
  IF matcher.mode = "all" THEN {} ELSE {t \in want : t \notin matcher.tools}

Understood(matcher) == matcher.mode = "regex" => matcher.compiles

Finding(severity, about) == [severity |-> severity, about |-> about]

\* The findings on one matcher; only the pre-edit hook's omission of Bash is
\* a matter of security.
AboutMatcher(matcher, want, hook) ==
  LET missing == MissingTools(matcher, want)
  IN IF ~ Understood(matcher) THEN << Finding("warn", "matcher") >>
     ELSE (IF hook = "pre-edit" /\ "Bash" \in missing
           THEN << Finding("SECURITY", "Bash") >> ELSE <<>>)
            \o (IF missing \ {"Bash"} # {} THEN << Finding("warn", hook) >> ELSE <<>>)

AboutHook(groups, hook, want) ==
  LET matchers == MatchersFor(groups, hook)
  IN IF matchers = <<>> THEN << Finding("warn", hook) >>
     ELSE FlattenSeq([k \in DOMAIN matchers |-> AboutMatcher(matchers[k], want, hook)])

\* What was found in a settings file, in the order in which it is looked for.
Found(file) ==
  (IF file.mcpServers THEN << Finding("warn", "mcpServers") >> ELSE <<>>)
    \o AboutHook(file.pre, "pre-edit", RequiredPreEditTools)
    \o AboutHook(file.post, "post-edit", RequiredPostEditTools)

OfSeverity(found, severity) ==
  FlattenSeq([k \in DOMAIN found |->
    IF found[k].severity = severity THEN << found[k] >> ELSE <<>>])

\* checkHookWiring: what can be read is examined, the severest findings first,
\* those of a severity in the order they were made.
CheckHookWiring(file) ==
  CASE file.state = "missing" -> << Finding("info", "file") >>
    [] file.state \in {"unreadable", "invalid"} -> << Finding("warn", "file") >>
    [] OTHER -> OfSeverity(Found(file), "SECURITY") \o OfSeverity(Found(file), "warn")
=============================================================================
