--------------------------- MODULE MCWiringChecks ---------------------------
\* Instances of WiringChecks for TLC: settings with up to two groups for the
\* pre-edit hook and one for the post-edit hook, of every kind.
EXTENDS WiringChecks

HookCommand(words, runs) == [words |-> words, runs |-> runs]
PreEdit == HookCommand(<<"leonard-hook", " ", "pre-edit">>, {"pre-edit"})
Quoted == HookCommand(<<"sh", " ", "-c", " ", "dq", "/", "bin", "/", "leonard-hook", " ", "pre-edit",
                    "dq">>, {"pre-edit"})
PostEdit == HookCommand(<<"dq", "/", "my", " ", "apps", "/", "leonard-hook", "dq", " ", " ",
                      "post-edit", " ", "-v">>, {"post-edit"})
InPath == HookCommand(<<"/", "pre-edit", "/", "leonard-hook", " ", "session-start">>, {})
Wrapper == HookCommand(<<"leonard-hook-wrapper", " ", "pre-edit">>, {})
Longer == HookCommand(<<"leonard-hook", " ", "pre-edit", "-", "all">>, {})

All == [mode |-> "all"]
ListOf(tools) == [mode |-> "list", tools |-> tools]
Regex(tools, compiles) == [mode |-> "regex", tools |-> tools, compiles |-> compiles]
Group(matcher, commands) == [matcher |-> matcher, commands |-> commands]

PreGroups ==
  {Group(All, c) : c \in {{PreEdit}, {Wrapper}, {Longer, InPath}}}
    \cup {Group(m, c) : c \in {{PreEdit}, {InPath, Quoted}},
                        m \in {ListOf({}), ListOf({"Edit", "Write", "Bash", "NotebookEdit"}),
                               ListOf(RequiredPreEditTools \ {"Bash"}),
                               Regex({"Edit", "MultiEdit", "NotebookEdit"}, TRUE),
                               Regex(RequiredPreEditTools, TRUE), Regex({"Bash"}, FALSE)}}
PostGroups ==
  {Group(m, {PostEdit, PreEdit}) : m \in {All, ListOf(RequiredPostEditTools), ListOf({"Edit"}),
                                          Regex({"Edit", "Write"}, FALSE)}}
    \cup {Group(All, {InPath})}

MCGroups == PreGroups \cup PostGroups

MCWiringFiles ==
  [state : {"ok"}, mcpServers : BOOLEAN, pre : BoundedSeq(PreGroups, 2),
   post : BoundedSeq(PostGroups, 1)]
  \cup [state : {"missing", "unreadable", "invalid"}, mcpServers : {FALSE}, pre : {<<>>},
        post : {<<>>}]
=============================================================================
