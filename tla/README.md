# Leonard in TLA+

Leonard watches an AI coding session. It keeps, next to a project, an index of
the project's symbols, a log of decisions and a ledger of claims ("this edit
compiles"), and it answers the hooks of Claude Code with what it knows. This
directory holds TLA+ models of the parts of it that several processes share and
of its pure functions on text, the TLC runs that check them, and proofs of the
main invariants.

Everything below `src/` is the reference; line numbers are of that tree.

## 1. The system

Three binaries share one SQLite file, `.leonard/leonard.db` (WAL mode,
`busy_timeout` 5 s, `internal/store/store.go:249`), and one set of text files
under `.leonard/ground-truth/`:

* `leonard-hook` runs once per hook event (`pre-edit`, `post-edit`,
  `session-start`, `stop`) and exits; several sessions, or several tool calls of
  one session, have several of these processes alive at once;
* `leonard-mcp` serves one session over stdio for its whole life and writes
  decisions and claims;
* `leonard` is the operator's command line: `index`, `claims`, `override`, `truth-edit`, ...

There is no daemon and no lock above SQLite's own: what one process reads in one
statement may be history when its next statement runs. That, and processes that
die between two statements, is what the state machines are about. What the
processes decide with, they compute from text: symbols from sources, claims and
rules from prose, verdicts from patterns. Those computations are pure and are
checked input by input.

| component | state | operations | hard because | correct when |
|---|---|---|---|---|
| claims ledger (`internal/store`, `internal/hooks/post_edit.go`, `internal/mcp/claims.go`, `cmd/leonard/claims.go`) | rows of `claims` with a supersession link; local state of each post-edit process | insert by hook and by tool, two supersession UPDATEs, resolve, purge | four statements per hook, no transaction around them, rowids are reused, the verifier takes minutes | open claims are never lost, links lead to a clean standing claim, a hidden failure really is stale |
| symbol index (`internal/index`, `internal/store`) | `files` and `symbols`, one record per running `IndexAll` | walk, worker pool, single-file re-index, sweep of vanished files | reads of the tree and writes to the store are minutes apart, hooks index meanwhile, any step may fail | hash and symbols of a row are of one parse; success means fresh; the sweep deletes nothing alive; staleness heals |
| decision log (`internal/store`, `internal/mcp/decisions.go`) | rows of `decisions` linked by `superseded_by` | record, supersede (four statements in one deferred transaction) | the read snapshot is older than the write lock | a decision is replaced once, chains run forward, answers stay true |
| schema (`internal/store`) | `schema_version`, tables | `Open`, `migrate`, `Close` | version read outside the migrating transaction; binaries of several versions | each step is committed once, a newer file is refused, no file goes back |
| pre-edit gate (`internal/dispatcher`, `internal/adapters/*`, `internal/hooks/pre_edit.go`) | verdicts of up to three adapters, single-use bypass tokens on disk | aggregate, deny, consume token, look references up | tokens are read, then removed; an adapter's error counts as no opinion; a reference is resolved through four layers of imports | a deny of one adapter is the verdict; an objection is only got past by a token or missing trust; real references pass, fabricated ones do not |
| ground-truth tree (`internal/adapters/groundtruth`, `cmd/leonard/sync.go`) | files under `ground-truth/`; the adapter's parsed copy and mtimes | load, poll, reload, close; sync, scaffold, save | files change while they are parsed; a sync takes seconds between read and rename | what is served is what is on disk; a save is not undone |
| ground-truth matching (`detector.go`, `fuzzy.go`, `filters.go`, `donotclaim.go`, `stories.go`) | none | find claims, read rules, judge edits | windows, boundaries, overlaps, precedence | every forbidden claim and only those; the files mean what they say |
| post-edit hook (`internal/hooks/post_edit.go`, adapters, `cmd/leonard-hook`) | the process; `pending-audit.log`, `audit-log.md`, `pending-decisions.log` | check trust, index, verify, claim, append, draft, reply; watchdog | partial failure at each step; several processes append to one file; the verifier may never come back | a failure is told, only approved commands run, entries stay, the process ends |
| self-logging adapter (`internal/adapters/selflog`) | `pending-decisions.log`, trivial tokens | classify, draft, bypass | as the gate | a bypass leaves a line; a require-tier edit passes only with a reason |
| config and trust (`internal/config`, `cmd/leonard/config.go`) | `config.toml`, fingerprint and markers | load, show, approve | approved text vs. text executed | an unapproved command never runs |
| symbol extractors (`internal/parse`) | none | strip literals, tokenize, parse, find scripts | regex or division, unfinished code, tags in strings | every declaration of a file, at its lines, and nothing else |
| session-start and stop (`internal/hooks`) | none | read-only queries | capped results, lines cut off | Stop lists the open claims and the flagged ones |
| MCP server (`internal/mcp`, `cmd/leonard-mcp`) | open handle, stdin filter | tools | noise and oversize lines on a shared stream | each line is judged alone |
| hook wiring and doctor (`cmd/leonard`) | none | check `settings.local.json` | matchers are lists or regexes by their spelling | a hook that does not fire is reported |
| telemetry, CLI front end | none | print | nothing | see section 7 |

How they interact: a `post-edit` process calls the indexer (SymbolIndex's
`HookStart .. Commit`), then the verifier, then the ledger (ClaimLedger's
`RecordClaim ..`). The MCP server and the CLI write the same tables. The index
feeds the pre-edit gate (`HasSymbol`), the truth tree the guards and the detector. `PostEditHook` is the process around
SymbolIndex's and ClaimLedger's steps: it keeps of them whether the index is
fresh and the claim recorded, and adds what the other adapters write. Commits to any table invalidate the
snapshot of a running `SupersedeDecision` (DecisionLog's `OtherCommit`).

## 2. Modules

| module | models |
|---|---|
| `ClaimLedger` | the claims table and all its writers |
| `ClaimLedgerProofs` | its proofs |
| `SymbolIndex` | `files`/`symbols`, `IndexAll`, hooks' `IndexFile`, the project tree |
| `SymbolIndexProofs` | its proofs |
| `DecisionChain` | what the decision log promises, as a specification of two actions |
| `DecisionLog` | the decisions table over SQLite's snapshots and write lock; implements `DecisionChain` |
| `DecisionLogProofs` | its proofs, the refinement among them |
| `PreEditGate` | pre-edit hooks on one file, bypass tokens, trust markers, the operator's commands |
| `PreEditGateProofs` | its proofs |
| `SchemaMigration` | `store.Open` on one file by processes of several program versions |
| `SchemaMigrationProofs` | its proofs |
| `TruthTree` | the truth files, the watching server, syncs, scaffold, operator |
| `TruthTreeProofs` | its proofs, those about `ContentChecks` (what is read in the truth files) and those about `EditChecks`, which use the same lemmas on sequences |
| `PostEditHook` | post-edit processes from `config.toml` to the reply, `config trust`, the log files, the watchdog |
| `PostEditHookProofs` | its proofs |
| `ScriptSource`, `TypeScriptSymbols`, `ComponentSymbols` | literals and scripts; the recursive descent; extraction from source to symbols |
| `FuzzyMatch`, `ClaimDetector` | where a forbidden claim occurs; the claims of a text |
| `TruthRules`, `FilterRules` | readers of `do-not-claim.md`, `stories.md`, exempt globs; `filters.yaml` and its verdicts |
| `FabricationGuard` | the code adapter's verdict on one edit |
| `StdinFilter` | leonard-mcp's standard input, read in pieces, filtered line by line, and taken by the SDK |
| `HookWiring` | the doctor's check of the hooks' settings |
| `Examination` | the frame for pure functions: a state is an input, the one step from it the answer |
| `WiringChecks` | settings files for `HookWiring`, and what the doctor's answer ought to be |
| `EditChecks` | edits and projects for `FabricationGuard`, and what the verdict ought to be |
| `ClaimChecks` | texts, facts and rules for `ClaimDetector`, and what the claims ought to be |
| `TextProofs` | proofs about `StdinFilter`, `WiringChecks`, `ClaimChecks` and `Extraction` |
| `Extraction`, `ContentChecks` | inputs for the other functions, and what the answers ought to be |
| `TextChecks` | these, `WiringChecks`, `EditChecks`, `ClaimChecks` and `StdinFilter` side by side, the specification of run `text` |
| `MC...` | instances for TLC; each `.cfg` is one run |

### ClaimLedger

State: `claims` is the table (id to row, `by` is `superseded_by_claim_id` with 0
for NULL, `vet` is `vet_ok` with its three values), `hook` the local variables of
each running post-edit process, `tree`/`clean` the version of the project tree
and whether the verifier passes on it. One action per statement another process
can observe: `StartHook` (decode, resolve the path, re-index), `RunVet`,
`RecordClaim` (the INSERT, `post_edit.go:231-256`), `SupersedeClaimsForFile`,
`SupersedeOutstandingFailures`, and `StoreError`/`Crash` for the ways out.
`McpRecordClaim`, `ResolveClaim`, `PurgeSupersededClaims` are the tool's and the
CLI's. `seen` and `turns` are history: the tree version the verifier looked at, and
whether every session so far found the hooks of the others idle.
Abstracted: summaries, evidence, timestamps (the position of the INSERT),
which of the many failures made the verifier fail. Not reached by production
code, hence left out: `TouchClaim`, claim expiry.

### SymbolIndex

State: `disk` (what each path holds), `index` (hash and symbols per path),
`task` (one `indexAbs` call per worker or hook: `lookup` after stat and read,
`commit` after the hash test), `run` (the `IndexAll` call: `walk`, `drain` after
a walk error, `stat` during the sweep), `touched` (history: files somebody edited
or a hook re-indexed since `IndexAll` began). Symbols parsed from contents `c`
are written `c`. The channel of paths and the walk ahead of it are one set,
`todo`. Contents above the size cap, contents that cannot be parsed, files that
can be listed but not read, vanished files and files below a path that turned
into a regular file (`Blocked`, stat says ENOTDIR) are told apart because the
code treats each differently. Left out: ignore rules, skip list, symlinks.

### DecisionLog and DecisionChain

State: `decisions`, `version` (commits so far), `writer` (who holds SQLite's
write lock), `tx` (the `SupersedeDecision` call of each connection), `answer`.
`BeginTx` with nil options is `BEGIN DEFERRED`: the read snapshot is taken by the
lookup, the write lock by the INSERT, and SQLite refuses the upgrade
(SQLITE_BUSY_SNAPSHOT) when the snapshot is not the latest commit. `Insert` has
exactly that guard; `Rollback` is every error exit. `DecisionChain` knows only
`Record` and `Replace`; the refinement maps `decisions` to its topic function
and its heir function.

### PreEditGate

State: `hook` is one pre-edit process each (`pc`, the edit, the adapters that
have a say, the objections still to be dealt with, who denied first), `token` the
override and the trivial token of the one file all edits are about (no file, an
empty file, or the n-th grant), `marker` the trust markers, `operator` the command
at the operator's prompt, `log` the bypasses with a line in
`pending-decisions.log`. An edit is the set of guards that object to it: which
references are fabricated, which pattern matches and which tier a path has are
inputs. What is modelled is everything between objection and verdict: adapters in
turn, within one adapter the first denial ends it, the aggregate takes the first
denial (`Deny`); the filters and the rationale guard look for a token before the
marker, the forbidden-claim guard after it (`Entry`, `Trusted`, `Miss`); Bash
calls name no file and have no token. A token is read (`ReadToken`) and unlinked by path
(`RemoveToken`), whatever file is there by then and whether or not the unlink
succeeds; `os.WriteFile` truncates (`OpenToken`, `OpenMarker`) before it writes
(`WriteToken`, `WriteMarker`), possibly to a file a hook has unlinked meanwhile.
An adapter that fails to load or errs has no say (`LoadEnabled`); a hook may die
anywhere (`Die`: killed, over budget; exit 1, the edit proceeds). `gone`,
`since` and `asked` are history. Adapters are asked in the order of the documented
configuration. Left out: envelopes that cannot be decoded (exit 2) and two
operator commands at the same time. The marker of self-logging may be there from the
beginning, although no command writes it: somebody may have made it by hand.

### SchemaMigration

State: `version` is the row `schema_version` (0: none), `meta` whether its table
exists, `ran` how often each of `migrations` was committed, `writer` the holder
of SQLite's write lock, `open` the `Open` call or open store of each process with
the version it read. `Target` is `schemaVersion` of a process's program: old and
new binaries do share a file, since hooks, server and command line are installed
at different times. The version is read by a statement of its own
(`ReadVersion`, `store.go:285`); `db.Begin` is deferred, so the transaction takes
its snapshot and the write lock together with the first step (`Migrate`), on
whatever is committed by then. A step is known by whether it fails when its
result is there: `CREATE TABLE`, `CREATE INDEX` and `ADD COLUMN` do, the DELETE of
`migrateV7` does not (`Repeatable`). `MigrateFails` is that error with its
Rollback, `Busy` the end of `busy_timeout`, `Close` a closed store, any other
failed statement or a process that died. A program whose last step is repeatable
is excluded (`SchemaMigrationAssumption`): version 9 ends with `ADD COLUMN`; a
program of version 7 could take a newer file's version back, see `NeverDowngraded`.
A racing `Open` may fail spuriously, because the other one has just migrated the
file; the code promises nothing else. Left out: the WAL checkpoint of `Close`.

### TruthTree

State: `disk` (each watched file: missing, empty, good or bad, the generation of
its last write, which is its mtime, and the set of edits it contains), `srv` (the
adapter inside leonard-mcp: `load`, `publish`, `seed`, then the watch with
`wait`, `stat`, `parse`, `swap`, one file per step; `view` is what is served,
`last` the times of the last good pass), `sync` (one `leonard sync` each, between
`ReadFacts` and `ReplaceFacts` a plugin runs), `scaffold` (`leonard init` between
stat and write, which truncates and writes at once here), `editor` (the operator between opening a file, which empties it,
and the end of the write). A failed parse keeps `last`, so that the next tick
tries again (`GiveUp`); Close sets `stop` and waits for `WatchEnds`. `missed`,
`kept` and `raced` are history. External: plugins and the editor. A stat that
fails otherwise than with ErrNotExist ends `leonard init`, which may stop anywhere
in the model. The clock of
the file system is taken to be finer than the writes: two writes within one tick
of the clock would be one for the watch. Whether a plugin changes facts or not
are two actions.

### PostEditHook

State: `hook` is one process each, with the command it read from `config.toml`,
the runner it settled on, the verdicts and whether the model will be told;
`config`, `trust` and `operator` are the two files and `leonard config trust`
between showing a command and writing its fingerprint; `pending` and `audit` are
the log files, `drafts` the third. One action per step another process can see:
`StartHook` (config, envelope), `CheckTrust`, `RunVet` (index and verifier; it may
hang, because the runner waits for whoever holds the output), `RecordClaim`,
`AppendPendingAudit` (one write, which may be cut off), `StatAudit`,
`TruncateAudit`, `WriteHeader`, `AppendAudit`, `DraftDecision`, `Reply`;
`Watchdog` ends the process anywhere. Each of the writes may fail, the append to
`pending-audit.log` and the header also half way. An adapter that fails is passed over
(`AfterCode`, `AfterGroundTruth`). What the store does is in ClaimLedger and
SymbolIndex; the Stop hook's reading of the log is `Reported`. `approved`,
`logged`, `torn`, `added` and `exposed` are history.

### StdinFilter

State: `stream` is what will arrive and `ending` how it ends; `read`, `buf`,
`skipping` and `eof` are the line reader's position and fields, `out` the rest of
a line the SDK has not taken yet, `sent` what it has taken, `over` the error
`Read` returned last. Each branch of `ReadLine`'s loop is an action
(`stdin_filter.go:151-198`), and what `Read` makes of the line it returned belongs
to it (`Read`, `Oversize`); `Fill` is one read of at most `MaxRead` bytes, or the
end or failure of the input; `Drain` is one call of `Read` that finds a line
waiting. A reader that returns bytes together with an error is two steps: the pipe
leonard-mcp reads from never does. `seen` is history: each verdict with the place
in the stream and in the output at which it fell. What makes a line JSON-RPC is
abstracted to a pattern of braces.

### The functions on text

A text is a sequence of what the function compares as a whole: characters for
the fuzzy matcher, the stripper and the component scanner, words for the claim
detector and the readers, tokens for the TypeScript parser. The functions are written as the code computes them, their
scans and early returns included; the expectation is written from the inputs,
which know what they are made of. A source is put together of pieces that come
with the places that are code and the symbols they declare; an item of a truth
file with the rule it means; a settings file with the tools its matchers match.
So the checked statement is never the function again: the extractor's answer is
compared with what the pieces declare, the fuzzy matcher's with edit distance,
the glob matcher's with "some number of segments for each `**`", the guard's with
Go's own resolution of names.

The extractors' loops (over characters, parameters, decorators, members,
declarators and declarations) have one form, `Items`: the loop's body says of the
place it is at what it puts out, where it goes on and whether it does; the loop
ends when it does not, or at the end of the input. So each body is an operator of
its own (`TokenAt`, `ParamAt`, `ParseClassMember`, `ParseDeclarator`,
`ParseTopLevel`, `ScriptAt`), and a body that did not advance would end the loop.

Characters the functions treat alike are one character, and their number is the
alphabet's. The opening tag of a script is `<script`, attributes and the first `>`.
Texts are ASCII: `strings.ToLower` may change the length of other letters, while
`fuzzy.go:32` uses the places of the one text in the other. Regular expressions of the
detector and of the operator's filters are taken by what they match: the object of
an action is a field, where the code ends it before a comma (`detector.go:188`), and a
word of a fact's path must be a word of the text, where the code looks for it in the
text as a substring of three letters or more (`detector.go:298`). Resolving a path
follows links in as many ancestors as it has, where the code gives up after 4096
(`pre_edit.go:781`). Whether a matcher of the settings is a list or a regex, and what
it matches, is an input; Go sources, which `go/parser` reads, by their
declarations, imports and references.

## 3. What is checked

Runs that must pass:

| run | instance | question |
|---|---|---|
| `ledger_concurrent` | 1 file, 2 hooks, 3 inserts, 1 edit | do links stay sound (`SupersederSound`), open claims get lost (`OpenClaimsAreSettled`), links get rewritten (`SupersessionIsFinal`) when everything interleaves and hooks die anywhere? And as long as sessions took turns: does a clean run hide only failures that are older than what it saw (`HiddenFailureIsStale`), does rowid reuse ever hit an id that was shown (`IdsAreNeverReused`)? |
| `symbol_index` | 2 files, 4 contents, 1 worker, 1 hook, 1 edit, 1 fault, failing helpers | do rows mix two parses (`HashMatchesSymbols`), is success fresh (`FreshAfterIndexAll`), does the sweep take what is alive (`SweepSparesTheLiving`), does the call end (`IndexAllEnds`), does repeated indexing repair everything (`Converges`)? |
| `decision_log` | 2 topics, 2 connections, 4 rows, 5 commits | `ChainsAreForward`, `AnswersStayTrue`, `CallsEnd`, and `ImplementsChain` |
| `gate` | 2 hooks, 3 kinds of edit, 2 grants, ground-truth trusted or not at the start, 1 event (I/O failure or trust command) | is an objection ever lost (`ObjectionsNeedBypass`), does a stale token bypass (`NoLateBypass`), is a trivial bypass recorded (`TrivialBypassIsLogged`)? |
| `schema_migration` | 3 processes, one of schema 8 and two of schema 9, files of version 0, 6, 7, 8 or 9 | is a step ever committed twice or skipped (`VersionTellsSchema`), does a store lack what its program needs (`ReadyIsServed`), does an `Open` hang (`OpensEnd`)? |
| `truth_tree` | 2 files, 1 sync of 2 plugins, 3 writes, 1 server | is what a content server serves what is on disk (`ContentMeansCurrent`), is a save undone (`EditsSurvive`), does the server catch up (`CatchesUp`), does Close end (`CloseEnds`)? |
| `post_edit` | 2 hooks, 2 commands, 7 kinds of edit, 3 sets of adapters, 3 events, 1 fault | does an unapproved command run (`OnlyApprovedRuns`), is a failure told (`FailureIsTold`), do log entries and flagged claims survive other hooks and full disks (`AuditEntriesStay`, `FlaggedClaimsAreReported`), do hooks end (`HooksEnd`)? |
| `text` | every input up to the bounds below | does each function on text answer what its input means? One invariant per group: `LiteralsAreBlanked`, `DeclarationsAreFound`, `ExtentsNest`, `ComponentSymbolsAreFound`, `FuzzyMatchesAreRight`, `MatchesAreAnswered`, `TrueNumbersAreVerified`, `TruthIsReadAsWritten`, `EditsAreJudged`, `WiringIsReported`. And does every line on standard input get the verdict it would get alone, whatever the pieces it arrives and leaves in (`LinesAreJudgedAlone`)? |

Runs that must find a violation, each a disagreement between the code and what
the repository says of it:

| run | what the counterexample shows |
|---|---|
| `index_prune` | after a directory was replaced by a file, the sweep fails with ENOTDIR and the vanished rows stay; `indexer.go:436` promises their removal |
| `gate_trust` | the operator asks for trust as `docs/self-logging.md:69` says, gets "unknown target", and a require-tier edit proceeds without a rationale |
| `gate_single_use` | two hooks read the same override token before either unlinks it and both edits pass; `cmd/leonard/override.go:46` calls the token single-use |
| `rules_documented` | the example file of `docs/schema/do-not-claim.md`: a rule without an annotation tolerates one edit (`donotclaim.go:49`), the document says three (lines 50-57); the example's `{fuzz: exact}` on a continuation line (lines 21-22) becomes part of the reason and the rule is fuzzy all the same (`donotclaim.go:128`) |

What the models show besides, where a property had to leave something out:

* with two hooks at once the clean verdict of one supersedes a failure the other
  observed on a newer, still broken tree; hence `HiddenFailureIsStale` is checked
  as long as sessions took turns (`turns`; `post_edit.go:264` calls every outstanding
  failure stale at that point);
* `IndexAll` succeeds while a file that can be listed but not read is in no list
  of failures (`indexer.go:350`); `FreshAfterIndexAll` leaves such files out. A
  file whose extraction failed for reasons of the environment keeps its hash with
  no symbols and is not parsed again (`indexer.go:716`);
* a save between the server's first parse and the seed of the watch
  (`reload.go:55`) stays unseen until the next one (`missed`); of a file created
  and deleted within one pass the old text may be served;
* an edit of `facts.yaml` that overlaps a plugin's run is overwritten (`raced`);
* when the INSERT of a claim fails, the failure it was to record is told to nobody
  (`lost`, `post_edit.go:248`);
* an entry appended while another hook is about to write the header of
  `audit-log.md` is truncated or overwritten (`exposed`, `audit_log_md.go:53`);
  one line of `pending-audit.log` over 1 MiB hides all (`groundtruth/stop.go:67`);
* a fence after a line comment, and an opening script tag inside a frontmatter,
  are misread (`vue_svelte.go:335`, `:63`; `Readable`); so are a script with a quote
  in a regex, which hides its end (`vue_svelte.go:188`), and an opening tag with a `>` in
  an attribute (`:136`): no component of the run has one;
* a division after `}` or `++` is taken for a regex and a regex after `)` for a
  division (`typescript.go:109`); no source of the run has one, and
  `LiteralsAreBlanked` does not hold of those;
* where a `;` is left out, an alias before another declaration is dropped
  (`typescript.go:899`), a declarator runs up to the next `;`, `,` or `export`, and a field
  takes the methods after it along (`typescript.go:1339`); `DeclarationsAreFound` is
  about files whose statements end as the parser expects, `ExtentsNest` also about
  files that lost a token;
* a window longer than the claim whose word goes on is not matched
  (`fuzzy.go:117`; `grown`);
* the edits of a MultiEdit never reach the fabrication guard
  (`internal/adapters/code/pre_edit.go:27`);
* an import whose package is not named as its path suggests (`gopkg.in/yaml.v3`) is
  not found under its name, so a reference through it falls through to a package of
  the module that has that name, and can be denied although the name exists;
  `pre_edit.go:416` says such imports cause "never a wrongful block". `EditsAreJudged`
  speaks of them too and shows that a wrong verdict needs one (`Misguided`);
* whether a Bash command touches the operator's directory is only guessed:
  the property says which commands must be denied (`PlainlyNamesDir`) and which
  must not (those that do not have the name, `NamesDir`), and leaves the rest open;
* a project path that begins with two dots is taken for one outside and never exempt
  (`exemption.go:57`; `DotDotNames`);
* a `required` that is no string forbids nothing (`filters.go:224`); filter rules
  require text here;
* a claim without quotation marks that begins and ends with one is read as a quoted
  one, and the first separator of the first kind that occurs ends the claim
  (`donotclaim.go:184`): `RuleIsWritten` asks for rules that can be read in one way;
* an edit that two filters deny loses its token to the first and is denied by the
  second (`filter_guard.go:114`); `ObjectionsNeedBypass` holds all the same, and no
  property says that the token should be kept;
* that Close waits without the adapter's mutex is how it is written
  (`adapter.go:187`); the mutex is not modelled, so `CloseEnds` would not notice.

Bounds. Two hooks and three inserts are enough for a hook to be overtaken
between any two of its statements by a whole other hook and by a purge that frees
the largest rowid; a second file adds no interaction, since the second UPDATE
ignores files. One fault and one edit let a failure meet a stale commit; a worker
and a hook are two concurrent writers of one row, and the proofs are for any
number of both. Two connections suffice for a lost race, five commits let a chain
of two and an unrelated commit happen. In `gate` two hooks can race for a token
while a second grant is being written, which is every way a read and an unlink
can be separated; one event is a failed unlink, a failed read, adapters that do
not load, or trust granted or withdrawn between two guards. In
`schema_migration` two programs of one version can race while an older one comes
late; the starting versions are a new file, files on both sides of the one
repeatable step, and files that need one step or none. In `truth_tree` two files
let one change while the other is parsed, and three writes are one before, one
during and one after a pass or a plugin; with two plugins the second must see the
first one's work. In `post_edit` three events are a change of `config.toml` before
and after an approval; the two hooks meet in both log files, in every order of
stat, truncation, header and append; where the operator acts the hooks have the
code adapter only, and where the log files are written nothing else changes
(`MCInit`), since no action reads both.
In `text`: sources and classes of 3 pieces, any one token lost from files of 2;
texts of 5 characters with 0, 1 or 2 edits allowed, as long as the longest
window, and claims of up to 3 characters, the empty one among them; texts of 4 phrases; truth files of 3 items, so that an entry has
a predecessor and a successor; 2 filter rules. Every piece was chosen for a branch
of the code. Settings have up to 2 groups before and 1 after an edit, so that a
sound one stands beside a faulty one, in either order. Streams have up to 4 bytes
of any kind, or 7 of requests and noise, the cap is 2 and a read returns up to 4: an
oversize line has a request on either side of it, and one read may carry the end of
the one and the whole of the other.
The invariants of the state machines do not depend on these bounds where section
5 proves them. Symmetry is used where no liveness is checked. The deadlock check
is off where a bound may stop the model (`decision_log`, `truth_tree`,
`post_edit`) and in `text`, whose behaviours end with the answer or the input.

Every property has a mutant: a definition of the model changed as a plausible bug
would change the code (listed in `PROJECT.json`; the mutated operators stand next
to the originals, marked "Mutant"), under which TLC finds the property violated.

## 4. Fairness

`SymbolIndex`: a process that runs goes on running, so each task's
`Lookup`/`Commit` and the steps of `IndexAll` are weakly fair; edits, faults,
crashes and the start of hooks are not. `Converges` also needs `ReindexSpec`:
somebody runs `leonard index` again and again; nothing in the code does so on its
own, which is why it is a separate specification. `IndexAllEnds` does not use it.
`DecisionLog`: a call that began ends, with an error if need be, because
`busy_timeout` bounds every wait for a lock (`FairSpec`). `SchemaMigration` assumes the same of `Open`
(`FairSpec`); that a process goes on closing its store is not assumed. `ClaimLedger` has no
liveness property: a hook may die at any step and owes nothing. `PreEditGate` has
none for the same reason. `TruthTree` (`WatchedSpec`): the watch is a goroutine with a
ticker, so its steps are weakly fair; `select` chooses at random among ready
channels, so a stop that stays ready between ticks is taken in the end: strong
fairness of `WatchEnds`. Nothing is assumed of the operator, the syncs and the
scaffold. `PostEditHook` (`Fairness`): a process that runs goes on, and the
watchdog goroutine fires when its time is over; both are needed, since a hung
verifier is only ended by the watchdog.

## 5. What is proved

For all values of the constants, with TLAPS:

* `ClaimLedger`: `TypeOK`, `PendingSound` (the lemma that carries the rest), `SupersederSound` (invariants),
  `SupersessionIsFinal`, `OpenClaimsAreSettled` (action properties).
  `SupersederSound` is not inductive: an UPDATE points rows at `hook.claim`, of
  which it says nothing. `PendingSound` fills the gap, and holds because nobody
  writes a *clean row* (verified, `vet_ok` = 1, not superseded): the UPDATEs take
  unverified rows, purge takes superseded ones, an INSERT takes a new id
  (`CleanRowStable`). The action properties follow from a case split of what a
  step may do to one row (`RowFate`). `HiddenFailureIsStale` and
  `IdsAreNeverReused` say `turns => ...`, and so does what they follow from,
  `turns => SerialInv`: while `turns` holds, every step is one of somebody who is alone
  (`TurnsAreKept`). A busy hook is
  alone with the editor (`BusyHookIsAlone`), so what it holds stays at least as
  recent as every row (`SeenInOrder`), and its claim stays the newest, which
  neither its UPDATEs nor purge touch: the next rowid is unused (`IdsInOrder`).
* `SymbolIndex`: `TypeOK`, `HashMatchesSymbols`, `FreshAfterIndexAll`,
  `SweepSparesTheLiving`. The strengthening `IndexInv` follows one untouched file
  through the call: in `todo`, then held by a worker whose copy is current
  (`WorkersAreCurrent`), then `Done` or a store error on record
  (`WalkedIsCovered`); outside the walk the pool is idle (`PoolIsWaitedFor`);
  during the sweep a row without a file is still to be checked or doomed, and
  nothing else is doomed (`SweepIsExact`).
* `DecisionLog`: `TypeOK`, `WriterSeesTheLatest`, `ChainsAreForward`,
  `AnswersStayTrue`, and `Spec => ImplementsChain`. The strengthening
  `SnapshotHolds` says what a lookup found is still there while no commit happened.
* `PreEditGate`: `TypeOK`, `ObjectionsNeedBypass`, `UntrustedNeverBlocks`,
  `NoLateBypass`, `TrivialBypassIsLogged`. None is inductive: a verdict depends on what earlier guards saw.
  `HookInv` says of one process that each objection is on its list or settled
  (`Covered`), that whoever denied or is about to was trusted at some time
  (`Trusting`), and that the token it used or holds was not gone when it began
  (`Timely`). One lemma per helper (`PassKeeps`, `DenyKeeps`, `MissKeeps`,
  `BypassKeeps`) shows that the record keeps it. `TokensAreFresh` (a grant is in
  one place at most) and `SinceIsPast` tie the record to the files. `LogInv` says
  that while nothing failed every trivial bypass has its line or is about to
  write it.
* `SchemaMigration`: `TypeOK`, `VersionTellsSchema`, `ReadyIsServed`,
  `NeverDowngraded`. A call acts on a version that may be history. `Reading` says
  when that can be: somebody has recorded a version of his own since, whose step
  is not repeatable, so the late call collides (`MigrateIsCurrent`) either with
  that step or with its own last one. `Writing` says the holder of the lock
  migrates from the recorded version.
* `TruthTree`: `TypeOK`, `ContentMeansCurrent`, `EditsSurvive`. The strengthening
  `ViewInv` says what each phase of the server knows of a file: what was loaded is
  what is on disk unless it was written since (`Loaded`, `Seeded`), the times of a
  pass are older than what was parsed under them (`Reparsed`), and all times are
  past (`TimesArePast`). `EditInv` says that whoever is about to write facts.yaml
  (a sync after its read, a scaffold after its stat, the editor) either holds all
  edits that count or overlaps those it lacks (`HoldersHaveAll`,
  `OverlapIsKnown`).
* `PostEditHook`: `TypeOK`, `OnlyApprovedRuns`, `FailureIsTold`,
  `AuditEntriesStay`, `FlaggedClaimsAreReported`. For the first, `TrustIsApproved`: while a hook runs, what
  the trust file holds was approved since before it began. For the second,
  `TellInv` follows a failure from the verifier to the end of the process. For the
  third, `HeaderOverExposed`: while somebody is between stat and header, every
  entry there is counts as exposed. For the fourth, `LogInv` relates three
  accounts of `pending-audit.log`: the entries written as a whole (`logged`), the
  lines of the file and the cuts (`torn`). Every entry is on one line, a line with
  more than one piece was begun by a cut of its own, and whoever has not appended
  yet has no entry (`LineIsAccounted`, `EntriesAreOnOneLine`, `EntriesComeLate`);
  so the entries that broken lines hide are no more than the cuts.
* `StdinFilter`: `LinesAreJudgedAlone`. It speaks of lines that got their verdict;
  `FilterInv` adds what the reader knows of the line under way. The buffer is the
  end of what was read (`BufferInv`); nothing was dropped since the last verdict,
  or else more than the cap was, without a newline in it (`LineInv`), which is
  what makes a skipped line oversize and its end the line's end; the output is
  what the verdicts account for (`OutInv`). Lines are as long as they like and
  reads of any size, so the proof is about positions in the stream, not about
  its pieces.
* `WiringChecks`: `WiringIsReported`. Not a state machine: the work is in what the
  doctor's sequences contain. `FlattenElements` says that of `FlattenSeq`, by
  induction over the length of the sequence (`NatInductive`); `MatchersElements`,
  `FoundFindings` and `WiringAnswer` follow the findings from a group to the sorted
  answer. Assumed, and checked by TLC for the commands of the run: a command runs a
  hook exactly where the doctor's pattern finds it (`WiringAssumption`).
* `EditChecks` (in `TruthTreeProofs`): `EditsAreJudged`, for any project, with packages of any name, and any
  edit that is not a MultiEdit. Paths: a path leads into the operator's directory if it
  enters it and never climbs out again, which is counted; the code cleans the path
  segment by segment (`StepsUpNext`, `CleanedLeads`), lexically and with its links
  followed (`ResolvedIsPath`), hence `OperatorsOwnLeads`. Names: the guard lays three maps
  from name to path over each other, in the order snippet, file, module; the property
  asks what Go takes a name for. Where the packages are named as their paths suggest,
  the guard's names are Go's (`AliasOfPath`, `AliasesAreNames`). Each map has a lemma
  that says what it gives a name to: an import of that name, the last of several
  (`CollectedAreNamed`, with `GreatestPlace`), the package of a directory, the first of
  several (`SiblingsAreMeant`, `LeastPlace`). Together they say that what a name is
  resolved to is tracked exactly if what it means is (`PackagesAreTracked`,
  `TrackedIsMeant`), hence what is called fabricated is what the index does not know
  (`FabricatedAreUnknown`); `EditVerdict` adds the protected paths and the caps. Assumed,
  and checked by TLC for the edits of the run (`EditAssumption`): sequences are
  sequences, a name of one file stands for one import (Go's own rule), and nothing
  refers to `_` or `.`. What Go would parse is taken as `Parses` has it, the order of
  attempts that `pre_edit.go` makes: go/parser does the work.
* `ClaimChecks`, the fuzzy search: `FuzzyMatchesAreRight`, for texts and claims of
  any length and any number of edits. The property measures a window by its
  alignments with the claim: sets of pairs of places, in order in both, at the cost
  of what they leave out or pair wrongly. The code fills a table instead, row by row,
  and gives up when a row is above the cap. `TableIsLeast` says no alignment is
  cheaper than the table's last cell, `TableIsReached` that one costs as much,
  `RowsStayAbove` that nothing below such a row gets cheaper; together they are
  `WithinIsDistance`. `DigitRunsAre` lists the numbers of a text, hence
  `NumbersCompared`; `ExactOccurrences` is the greedy search: what it leaves out
  overlaps what it took. The invariant of the window scan (`ScanSteps`, `ScanKeeps`)
  says that every window that says the claim and begins before the scan's place is
  met by a match, exact or fuzzy. The skips past exact matches keep it because the
  shortest window at a skipped place overlaps the match, and every longer one with
  it. `MergedInOrder` puts the two lists, which never overlap, in one order. Assumed:
  claims are sequences and the numbers of edits natural numbers (`ClaimAssumption`).
* `ClaimChecks`, the detector: `MatchesAreAnswered`, `TrueNumbersAreVerified`, for
  texts of any length from any phrases, any facts and any rules. `Detect` is a
  loop in a loop with a sort after it; the invariant of the loops is `Scanned`:
  the claims so far are apart unless rules forbid both, the forbidden ones are all
  there, each is made by a scan up to this one (`Within`), and every match that
  was passed is `Answered` by one that overlaps it. `ScanMatch` is one match,
  `ScanPast` one scan, `AllScanned` all of them. The insertion sort keeps what
  `Scanned` says and makes the claims `Ordered` (`InsertPlace`, `InsertKeeps`,
  `SortKeeps`). The code's loops are recursive functions on `0 .. N`: that such a
  function exists, and what holds of all its values, is `RecursionExists` and
  `UpTo`. For the numbers, `CountsBeginTogether`: a count and a number or count
  that share words share their number. Assumed, and checked by TLC for the phrases
  of the run (`ClaimAssumption`): phrases, rules and rule lists are sequences. The
  patterns are those of `LengthAt`, in which a few words stand for each regular
  expression.
* `Extraction`: `ExtentsNest`, for any list of statements and members, also when a
  token of it is lost, and hence for tokens that declare nothing properly. Three
  layers. Every skipper of the parser ends where it looked for something or at the
  end (`Sought`, `SkippedBalanced`, `SkippedInitializer`, `SkippedTypeAnnotation`,
  and so on), never before the place it began at; that is what keeps a lost bracket
  from moving the cursor back. Every parser of a declaration then advances, and
  what it records starts no earlier than the declaration and ends before the place
  it goes on at: one extent for a function, a class around those of its members,
  one start for all names of a `var` (`Nested`, `Siblings`). `ItemsHold` is the
  rule for loops: what holds of each body, and of a body put before a loop of which
  it holds, holds of the loop (by induction on the places left, over `LaterExists`,
  which says that the loop's function exists). `NestedItems` applies it to members
  and declarations, `DeclaratorsAreRead` to the names of one `var`, and
  `NestedJoin` puts apart what a place separates. Assumed: a statement and a member
  are lists of tokens (`ExtractionAssumption`).
* `ContentChecks` (in `TruthTreeProofs`): `TruthIsReadAsWritten`, for any rules,
  stories, globs, filters and edits, and files of any number of items.
  * Lines: a file is read by a recursive function on its lines, so the second of two
    parts is read from what was made of the first (`ReadIs`, `ReadConcat`), and a
    file of items item by item (`FlattenPrefixes`).
  * Rules: what is between quotation marks is the claim (`QuotedText`); the separator
    is found where the operator put it, or nowhere (`SeparatorFound`, `NoSeparator`,
    `RuleBody`); a heading, prose or a rule changes what was read by its own entry
    (`RuleItemRead`); the category is that of the last heading so far (`NextCategory`);
    `RulesAreRead` is the induction on the items.
  * Stories: a story's sections leave exactly its record in hand, whatever was read
    before it (`StoryIsRead`). It is committed at the next heading or at the end, and
    replaces one of the same name (`CommitKeeps`): the last of each name stays
    (`KeptNext`, `StoriesAreRead`).
  * Globs: the matcher's recursion and what a glob means are both the existence of
    places in the path at which its segments end, each after the one before
    (`SegsAreMatched`, `CoversByEnds`), hence the same (`EndsOneByOne`).
  * Filters: what a rule means is said of the edit's path and content (`Forbids`): its
    directory with a listed value behind it, its word without the required text. The
    YAML of a rule has these parts (`EntryOfRule`, `ValuesListed`) and shows every
    mistake (`MistakesShow`); a pattern captures what is behind the first place of its
    word (`CapturesIs`), so the rule forbids what it means (`FilterJudged`); the
    entries of a list are those of its rules (`EntriesListed`), and one mistake makes
    the file malformed (`FiltersAreRead`).

  Assumed, and checked by TLC for the instance (`ContentAssumption`): what the operator
  wrote is a heading, prose, a rule or a story; a rule can be read in one way only (its
  separator is the first of the earliest kind, what looks like an annotation is one and
  ends the bullet, an unquoted claim does not look quoted); a filter rule has a word,
  values and a required text, or one mistake. A rule without annotation tolerates
  `DefaultFuzzThreshold` edits: that it is not what the document says is run
  `rules_documented`.

Assumptions are the `ASSUME`s of the modules: distinct special values, bounds
that are natural numbers, programs whose last migration collides with itself, the
commands, the edits, the phrases and the operator's texts above, each about what
these may be and none about what the code makes of them, but for the doctor's commands. Only model-checked:
everything about liveness and fairness (outside the prover's reach, like ENABLED), and
of run `text` `LiteralsAreBlanked`, `DeclarationsAreFound` and
`ComponentSymbolsAreFound`. These compare the answer with what the pieces of an input
declare, so they hold because of the pieces of the instance, each of which was
chosen for what its text contains: a proof would have to run the parser on those
texts, one by one. Proved but in no run, since
they are steps towards the properties that are: the types, `PendingSound`,
`WriterSeesTheLatest`, `UntrustedNeverBlocks`, `NeverDowngraded`.

## 6. What is left

Done: the eight steps of the first plan. What further work could take up:

1. `SymbolIndex` with two workers and two edits in one run (today's instance has
   one of each; the proofs cover any number).
2. Ignore rules, the skip list and path normalisation of the indexer.
3. The read tools of the MCP server with their caps, and claim expiry.
4. The drift check of stories, which compares an edit with a story's bullets.

## 7. Not modelled, and why

* The Go and tree-sitter extractors: go/parser and a C library do the work.
* Regular expressions: what a pattern matches is an input.
* Telemetry, formatting, evidence and summary text, CLI flags: output only.
* The doctor's other checks: they print what they read.
* Session-start: read-only; the set Stop shows is ClaimLedger's `Unverified`.
* The expiry of claims and `TouchClaim`: no production caller.
* The name of a trust file, which hashes the project root as it was given: from a
  symlinked directory trust is looked up under another name
  (`internal/config/trust.go:210`).
* Clocks are taken not to run backwards and SQLite's own guarantees (atomic
  statements, snapshot isolation, durable commits) are assumed.
