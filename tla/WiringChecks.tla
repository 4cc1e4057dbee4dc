---------------------------- MODULE WiringChecks ----------------------------
(***************************************************************************)
(* The doctor's check of the hooks' settings, one settings file at a time: *)
(* they decide for which tools Claude Code calls the hooks at all, and     *)
(* where they are wrong nothing fails.                                     *)
(***************************************************************************)
EXTENDS HookWiring, Examination

CONSTANTS
  Groups,        \* hook groups: a matcher, and commands with what each runs
  WiringFiles    \* what settings.local.json may hold

\* The commands are of those the doctor tells apart: it is handed their words,
\* and takes a hook to be run exactly where it is.
ASSUME WiringAssumption ==
  /\ WiringFiles \subseteq [state : {"ok", "missing", "unreadable", "invalid"},
                            mcpServers : BOOLEAN, pre : Seq(Groups), post : Seq(Groups)]
  /\ \A g \in Groups : \A c \in g.commands : \A hook \in {"pre-edit", "post-edit"} :
       CommandInvokes(c.words, hook) <=> hook \in c.runs

\* A group as the file has it, without what its commands are known to run.
Written(groups) ==
  [k \in DOMAIN groups |-> [matcher |-> groups[k].matcher,
                            commands |-> {c.words : c \in groups[k].commands}]]

WiringInput == \E file \in WiringFiles : input = [form |-> "wiring", file |-> file]

CheckWiring ==
  /\ input.form = "wiring"
  /\ Answer(CheckHookWiring([input.file EXCEPT !.pre = Written(@), !.post = Written(@)]))

WiringInit == WiringInput /\ done = FALSE /\ answer = <<>>

WiringSpec == WiringInit /\ [][CheckWiring]_examVars

-----------------------------------------------------------------------------
\* Claude Code runs the group's commands when the tool is called.
Fires(group, tool) == group.matcher.mode = "all" \/ tool \in group.matcher.tools
Ours(groups, hook) ==
  {groups[k] : k \in {j \in DOMAIN groups : \E c \in groups[j].commands : hook \in c.runs}}

Covered(groups, hook, tools) == \A t \in tools : \E g \in Ours(groups, hook) : Fires(g, t)
Security == {k \in DOMAIN answer : answer[k].severity = "SECURITY"}

\* `leonard doctor` has nothing to say only if the hooks run for every tool
\* they are meant for.  Its security findings stand first, and one is made
\* exactly when a group that runs the pre-edit hook leaves out Bash, however
\* the hook is spelled in the command and the tools in the matcher.
WiringIsReported ==
  Done({"wiring"}) =>
    LET file == input.file
    IN /\ answer = <<>> => /\ file.state = "ok" /\ ~ file.mcpServers
                           /\ Covered(file.pre, "pre-edit", RequiredPreEditTools)
                           /\ Covered(file.post, "post-edit", RequiredPostEditTools)
       /\ \A k \in Security : \A j \in 1 .. k : j \in Security
       /\ file.state = "ok" =>
            (Security # {} <=> \E g \in Ours(file.pre, "pre-edit") :
                                 Understood(g.matcher) /\ ~ Fires(g, "Bash"))
=============================================================================
