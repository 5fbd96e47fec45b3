# CoreShell in TLA+

CoreShell is an interactive shell in C (`main.c`, one `cmd_*` directory per builtin) with a package
manager (`pkg/pkg.c`), a Node package registry and MCP bridge (`server.js`), and a native MCP server
(`mcp_server.c`). This directory models them in TLA+, checks the models with TLC and proves what matters
most with TLAPS.

    tlc -config JobControlSafe.cfg MCJobControl     # section 3 names the module of each configuration
    tlapm JobControlProofs.tla                      # and likewise for the other *Proofs modules

## 1. Inventory

| Component | State | Operations | What is hard | What makes it correct | Module |
|---|---|---|---|---|---|
| Job control: `main.c` 438-557, 617-711, 1298-1521; `cmd_jobs.c`, `cmd_kill.c`, `cmd_exit.c` | `s_jobs[64]`, `s_job_count`, `s_next_job_id`, `g_sigchld`, the signal mask | `job_add`, `sigchld_handler`, `notify_done_jobs`, `execute_pipeline`, `jobs`, `kill`, `exit` | a signal handler that runs on either of two threads, no lock, pids the kernel gives to other processes | every end is recorded and reported once, no child is lost or stolen, `kill %id` hits no child but its job's | `JobControl` |
| REPL and SIGINT: `main.c` 513-525, 585-770, 1699-1869 | `g_sigint`, the disposition of SIGINT, the status pipe of a builtin | `read_input`, `dispatch_builtin`, `dispatch_external`, `handle_llm_line`'s helper | a system call interrupted at any point, a pipe whose reader has left | the prompt comes back; no child and no descriptor is left behind | `Repl` |
| Pipelines and redirection: `main.c` 1072-1194, 1298-1521 | pipe descriptors | the fork loop, the redirections of a child | an end left open keeps a reader waiting, failures half way | every stage holds its own ends and no other | `Repl`, `JobControl` |
| Parsing and expansion: `main.c` 796-1294; `Lexer`, `Parser`, `Printer` | none | `expand_variables_line`, `normalize_line_with_bnfc`, `split_pipeline_stages`, `parse_stage`, `strip_trailing_ampersand` | four scanners with a quote state of their own, fixed buffers | what runs is what was written | `ShellLine` |
| `@` line: `main.c` 301-420, 1554-1676; `coresh_llm.c` | none | `handle_llm_line`, `validate_suggested_command` | a suggestion is validated as text and scanned again to be run | what was confirmed is what runs | `ShellLine`, `Repl` |
| argtable3 and the option tables: `argtable3.c`, `build_*_argtable` | a copy of argv, the place in a word | `arg_parse`, `getopt_long`, `permute_args` | operands move while they are scanned | options and operands get what the words say | `Arguments` |
| File builtins: `cmd_{cp,mv,rm,mkdir,rmdir,touch,cd,cat,head,tail,stat,ls,pwd}` | none but the file system and the working directory | one command each | other shells between two calls, a full disk | an exit status tells the truth | `FileCommands` |
| Package manager: `pkg/pkg.c` | `~/.CoreShell/{pkgs,bin,pkgdb.txt}` | `install`, `remove`, `upgrade`, `check-update`, `list`, `build`, `compile` | several processes on the same files, failure between two steps, repeated installs | database, directories and links agree | `PkgStore` |
| Native MCP server: `mcp_server.c` | one connection, its `connection_session_t`, the corpus | `handle_request`, `handle_ftp_style_command` | one client at a time, no timeout on what it reads or sends, lines cut short | answers go to their request, deletions are those asked for | `McpServer`, `ToolCalls` |
| `rpc` and the Python client: `cmd_rpc.c`, `legacy_mcp_client.py` | attempts | `rpc_exchange_once`, the retry loop | timeouts, retries of what was already done, answers longer than the buffer | an answer is the answer to this request | `McpServer` |
| MCP bridge and registry: `server.js` | `packages`, the corpus, per-socket buffer and `replied` | `createMcpServer`, `buildToolResponse` | an `await` between parsing a line and replying; an exception ends the process | one answer, to a line of the connection; deletions are logged | `McpBridge`, `ToolCalls` |
| Retrieval (RAG), command registry, help | a cached corpus, a constant table | `rag_top_hits`, lookups | two implementations | - | `ToolCalls` in part |

How they interact: the REPL calls the builtins on a thread of their own and everything else in child
processes; job control is the only state the main thread, the builtin thread and the signal handler
share. `pkg` is both a builtin and a program of its own; it asks the registry over HTTP. `rpc` and the
Python clients speak a line protocol to either MCP server, and the native one forwards
`agent.command.plan` to the bridge. The two servers offer the same tools over the same workspace.

## 2. Modules

| Module | What it is |
|---|---|
| `JobControl` | job control in full, with its properties and the inductive invariant |
| `JobLifecycle` | the abstract specification: what a background job goes through |
| `JobControlProofs` | theorems about `JobControl`, and that it goes through the steps of `JobLifecycle` |
| `Repl` | the loop of `main`, builtins on their thread, pipelines with their pipes, Ctrl-C |
| `ShellLine` | from the characters of a line to the commands that run |
| `Arguments` | from an argv to the values of a builtin's options |
| `FileCommands` | the file builtins, call by call, on a shared file system |
| `PkgStore` | the package manager's files under several `pkg` processes, crashes and failing calls |
| `PackageMap` | the abstract specification: a map from names to the versions that are installed |
| `ToolCalls` | what a request line means to each of the two tool services, as operators |
| `McpServer` | the native server with `rpc` clients and sessions; EXTENDS `ToolCalls` |
| `McpBridge` | the bridge's event loop; EXTENDS `ToolCalls` |
| `PkgStoreProofs` | theorems about `PkgStore`, and that one command at a time it goes through the steps of `PackageMap` |
| `ReplProofs`, `ShellLineProofs`, `ArgumentsProofs`, `FileCommandsProofs`, `McpBridgeProofs`, `McpServerProofs` | theorems about `Repl`, `ShellLine`, `Arguments`, `FileCommands`, `McpBridge` and `McpServer` |
| `MC*` | TLC instances; `MCToolCalls` is shared by `MCMcpServer` and `MCMcpBridge` |

`JobControl`, `Repl`, `ShellLine` and `Arguments` cut the shell along its own interfaces: `ShellLine` ends
where a command or a pipeline is started, `Repl` takes any line from there to the next prompt,
`JobControl` takes what happens to background children, `Arguments` and `FileCommands` take the inside of
a builtin.

### JobControl

*State.* `jobs`, `jobCount`, `nextId`, `gSigchld` are `s_jobs`, `s_job_count`, `s_next_job_id` and
`g_sigchld`. A slot is free when its `pid` is 0 (`NoPid`), as in the code. `pc`, `idx`, `pipeline`,
`blocked` are the main thread; `worker` is the thread of `dispatch_builtin`; `handler[t]` is the
activation of `sigchld_handler` that interrupts thread `t`. `proc`, `pending` and `strangers` are the kernel:
which pids are children, running or zombies, whether a SIGCHLD is pending, and which pids processes that are
not the shell's have. A pid is free (`FreePids`) once its child has been reaped; from then on anybody may get
it. `shown` is a history variable: what the user was last told of the job in a slot.

*Steps.* One action per access to shared state, because the other thread, or a handler on it, may come
between any two: `HandlerTest` (main.c 540), `HandlerWait` (543) and `HandlerRecord` (544-557) are one
turn of the handler's loop; `NotifySlot` is one turn of `notify_done_jobs`; `JobsPrint` and
`JobsConsume` are the two halves of a turn of `jobs_run`; `KillLookup` and `KillSend` the two halves of
a target of `kill_run`; `ForkStage`, `RegisterStage`, `WaitStage` one turn of the loops of
`execute_pipeline`. While a handler runs on a thread, that thread's own code does not. `StrangerTakes` and
`StrangerEnds` are processes that come and go; with `ForkMayFail = FALSE` they leave the pids that the pipeline
under way still needs.

*Abstracted.* Command text, exit codes, the printed lines other than which status they show, pipe
descriptors, and what children do. Lines that leave the table alone are `OtherLine`. A numeric `kill`
target is not an action: what it does to a child is `ChildEnds(p, "killed")`, which is enabled at any
time. A foreground child (`dispatch_external`, the helper of an `@` line) is a one-stage foreground
pipeline. SIGINT is `Repl`'s; stopped children are left out: `SA_NOCLDSTOP` is set, so a stopped child raises no
SIGCHLD and is a running one here.

*Four parameters choose the build or the platform.*

- `PidReload`. The handler tests `j->pid`, calls `waitpid(j->pid, ...)` and compares with `j->pid`.
  Nothing makes the three one load. With `PidReload = TRUE` the call loads the field again, which is what
  `gcc` does without optimisation, as the Makefile builds; with `FALSE` it uses the pid it tested. The
  difference is real: a slot that `jobs` frees in between turns the call into `waitpid(0, ...)`, which
  reaps any child (`JobControlReload.cfg`). `SafeBuild` names the condition the remaining safety
  properties need: no reload, or no `jobs` builtin.
- `PromptSignals`. POSIX lets a pending signal be late; Linux delivers it before the interrupted thread
  returns to user code. `TRUE` gives a deliverable SIGCHLD priority over the thread that takes it; the
  safety and liveness runs use `FALSE`, which allows more.
- `ForkMayFail`, `Builtins`: whether `fork` and `pipe` may return -1, and which builtins are typed.

The read of `status` when `waitpid` returned 0 for a slot freed meanwhile (`rc == j->pid == 0`) is a
read of an uninitialised variable: `HandlerRecord` lets every branch be taken.

### JobLifecycle

One variable, the phase of each job: `unborn`, `running`, `exited | killed`, `done | signaled`,
`retired` (and `lost` once the shell exits). Ids start in order, a job's recorded state is how its child
ended, and `Learn` is fair: an end is always noticed. `JobControl` implements it under the mapping
`PhaseOf`, which reads a job's phase from the table, the kernel, and, between `waitpid` and the
assignment to `state`, from the handler that holds the status.

### PkgStore

*State.* `tree[t]` is `pkgs/<name>-<version>` (absent, partial or complete), `link[b]` where `bin/<b>`
points. The database is two directory entries, `db` (`pkgdb.txt`) and `tmp` (`pkgdb.txt.tmp`), that denote
files (`Inodes`) with `content`: a process that has a file open writes to that file, whatever `rename`
has done to its name since, and this is what two processes get wrong. `proc[p]` is a running command: its
place, its package, the entries of `files[]` it has still to do, its open files and the lines it has
copied. `torn` and `cut` are history variables: trees whose last extraction did not end, and removals that
were killed.

*Steps.* One action per call that the file system carries out at once. `Install`, `Upgrade` and `Remove`
start a command; `MakeTree`, `Extract`, `Cleanup`, `Unlink`, `Symlink`, `AddOpen`, `AddWrite` are
`cmd_install` with `pkgdb_add`; `ReadMeta`, `UnlinkAll`, `RemoveFiles`, `RemoveDir` are `cmd_remove` with
`rm_rf`; `DropOpen`, `DropTmp`, `DropCopy`, `DropFlush`, `DropRename` are `pkgdb_remove`. An upgrade is an
install followed by `pkgdb_remove` and `pkgdb_add` (`AfterAdd`, `AfterDrop`). The copy of the database is
one read and one write, because stdio buffers a file of this size whole. `Crash` kills a process; its
unflushed lines are lost.

*The registry* is read only: `Modules` are the directories `loadPackagesFromModules` finds, in the order it finds
them, `latestByName` its loop over them (`LoadModule` is a turn of it), `Latest(n)` the module it has kept for a name,
`Fetched(n)` the version `cmd_upgrade` is told. `Older` is `compare_versions` of `pkg.c`, and `compareVersions` of
`server.js`, which do the same on dotted numbers: they compare number by number, so that 1.10 is newer than 1.9. The
archive an upgrade downloads is taken to be of the version the registry announced; `cmd_upgrade` (pkg.c:571-583) does
not look.

*Abstracted.* The archive and the download; a command that fails before it writes is no step; `list` and
`check-update` change nothing. A tree that another process fills while `rm_rf` empties it is not
followed file by file, so what trees look like is only asked of one process at a time.

### PackageMap

Two variables: the version that is installed of each name, and the command each process runs. `Record` and
`Forget` are the points at which a command changes the map, for its own name only: an install records its
version unless one is there, a removal forgets, an upgrade to a newer version forgets and then records.
`GiveUp` is a command that fails or is killed; it changes nothing. `PkgStore` implements it (`ImplementsMap`)
when commands run one at a time: a name's version is what `pkgdb_find` finds, in the first line of that name
(`Found`), a command begins with the process and ends with it (`Tasks`), `AddWrite` is `Record` and
`DropRename` is `Forget`. The first line is why a second install does not replace a version.

### Repl

*State.* `pc`, `line`, `pids`, `next`, `inFd`, `cur` are the main thread's place in `main` and
`execute_pipeline`, with `pids[]`, `i`, `in_fd` and the pipe just made (`pipefd`, `status_pipe` or
`pipe_fd`); `worker` is the thread of `dispatch_builtin`. `ends` says which processes hold the read and
the write end of each pipe, `content` how full it is, `child` what the children are and what their
standard input and output are. `caught` is the disposition of SIGINT.

*Steps.* `StartRepl`, `StartOnce`, `Prompt`, `ReadLine`, `EndOfInput` are the modes and the loop of
`main`; `MakePipe`, `Fork`, `AfterFork`, `Register`, `WaitStage` one turn of the loops of
`execute_pipeline`, `PipeFails` and `ForkFails` their early returns; `CreateThread`, `BuiltinReturns`,
`BuiltinExits`, `WriteStatus`, `ReadStatus`, `JoinThread` are `dispatch_builtin`; `ReadSuggestion`,
`WaitHelper`, `Confirm` are `handle_llm_line`. Children set up their descriptors, read, write and end, and
may die of a broken pipe. `CtrlC` is the terminal's SIGINT: it kills any of the living children, and
interrupts the call the main thread is in, or finds it outside one.

*Abstracted.* What programs compute; redirections to files, except that `open` may fail. `OneShot` is the
disposition that `signal()` installs under the Makefile's `-std=c99 -D_XOPEN_SOURCE=700`: it goes back to
the default once the signal is delivered.

### ShellLine

*State.* `phase` is the place in the loop, `rest` what `fgets` has not yet read, `text` the line being
worked on, `ast` the BNFC parser's tree, `stages` and `cmds` what the scanners found. `meant` is a history
variable: what the author of the line meant, for lines whose meaning is known.

*Steps.* One per pass over the text: `ReadLine`, `ReadRest`, `ExpandVariables`, `Normalize`,
`RunSimple` (strtok), `SplitStages`, `ParseStage`, and for an `@` line `Suggest`, `NoQuery`, `Confirm`.
Each pass is an operator that works as its function does, buffer sizes included: `Expanded`, `Tokens` and
`ParseInput` (the longest match of `Lexer.c` and the productions of `Parser.c`), `PrintInput` (`Printer.c`),
`Pieces` (`split_pipeline_stages`), `ParseCommand`, `Word`, `Stage`. A loop over a text is a recursive function
of the number of its turns, and the turn an operator of its own (`ExpandTurn`, `LexTurn`, `WordTurn`, ...): the
loop of a text of length `n` has ended after `n` turns, because each takes a character at least.

*Abstracted.* A character stands for its class; the alphabet `Char` has what the scanners tell apart.

### Arguments

*State.* The variables of `getopt_internal` (`optind`, `place`, `nonoptStart`, `nonoptEnd`), the copy of argv it
permutes, the values stored in the table and the errors. The tables are those of the `build_*_argtable` functions.
*Steps.* One per turn of `getopt_internal`'s loop, of `arg_parse_untagged`'s and of the checks. A word is a sequence
of characters in which a long name or a number is one element. *Beside it.* `Read` is a reader who takes argv word by
word from left to right and each word letter by letter, notes down what it gives, and moves nothing; `Meant` is what
it has noted at the end. `PermuteArgs` is made of the two loops of `permute_args`: `Move` is a turn of the inner one.
*Abstracted.* `POSIXLY_CORRECT`, the wording of errors and usage.

### FileCommands

*State.* `node` is the file system, an inode's parent, name, kind and contents; `cwd` the shells' working
directories; `run[p]` the command a shell executes, as a stack of the calls still to make. *Steps.* One
per system call: `CopyAny`, `CopyDir`, `CopyKids`, `OpenSrc`, `OpenDst`, `Pump`; `RmAny`, `RmKids`,
`RmUnlink`; `MkDir`; `RmDir`, `RmDirUp`; `Rename`; `Utime`, `TouchCreate`; `ChDir`; `Show`. Another
shell's call may fall between any two. Creating fails when no inode is left (a full disk). `Pump` is the loop of
`copy_file` over `fread` and `fwrite` with its two `fclose`, when all goes well; `Failing` says which of these may
fail, and what is then in the file is nothing or its beginning (`Short`). `WriteFails` is an `fwrite` that falls
short, which `copy_file` reports; `CopyCutShort` is an `fread` that fails, which it takes for the end of the file, or
a `fclose` that cannot write what is left in the buffer, which it does not look at. `cut` is a history variable: the
paths a `cp` has cut short without noticing. `Lookup` follows a path from the root or the working directory, component by
component; `Below` says that one inode lies under another, and `IsTree` what a file system at rest is: among
others, an inode that is not in use has no entry.
*Abstracted.* Permissions, links and mount points; the printed text.

### ToolCalls, McpServer, McpBridge

`ToolCalls` reads a line twice. A line is the sequence of its tokens. The native server routes it with
`jsmn`, but its native tools search the raw text for `"key"` (`Raw`, `extract_json_string`), and its legacy
tools use the parser (`LegacyPlan`); the bridge uses `JSON.parse` (`BridgeGet`, the last of two equal keys,
where `jsmn_object_get` takes the first). `WellNested` and `Slots` are what `jsmn_parse` accepts: brackets that
match, and no more tokens than the array has slots. `NativePlan`, `LegacyPlan` and `BridgePlan` say what a delete
would do; the remaining tools answer from the workspace.

`McpServer`: `wire` is what is in both directions of a connection's socket, `queue` the kernel's backlog,
`server` the only thread, with `connection_session_t` in `server.user`. `ReadLine` is `recv_line` with its
three ways to return; `FtpUser` and `FtpLine` are `handle_ftp_style_command`; `Notify` the progress line of
the legacy tools; `Scan`, `Unlink`, `ReportDeleted` a delete, file by file; `HandleQuery` the document
tools, the corpus built by the first of them. Each of them ends in `send_json_line`, which waits (`SendLine`)
until the connection has room for the answer (`Room`), fails once the client has left (`SendFails`), or is broken off
with a part of the answer gone out (`SendBreaksOff`). What a client takes is an answer, `All` or `Part` of it.
`rpc` clients send one line per connection, time out in any wait and retry; `read_line` keeps the first 2047 bytes of
an answer that is longer (`Long`, `ReadMax`) and calls that a success, at any time while the server is still sending
(`ReceivePart`). A session (`Patient`) sends several lines, in pieces, reads an answer when it likes or never
(`Reads`), may say nothing and may leave.

`McpBridge`: `Data` is one `'data'` event with a chunk that may end anywhere, `End` the end of a socket;
`turn` is a synchronous delete that the event loop is busy with, `asked` the calls that wait for the agent,
and `up` whether the process lives: `null` as a request and a directory that vanishes during the walk are
rejections nobody handles. `log` is `artifacts/mcp_calls.log`.

`Edit`, in both, is another process that touches or removes a file while a delete is under way.

*Abstracted.* Scores of documents are an order (`CorpusOf`, `Rank`); tokens are strings; a file has an age
in days, and `STOR` replaces its data; sizes are in tokens.

## 3. Runs

| Run | Module, configuration | Asks | Result |
|---|---|---|---|
| `job_control_safe` | `MCJobControl`, `JobControlSafe` | the safety invariants (types and bounds are proved: section 5), with late signals, failing forks, others' processes and all three builtins | hold |
| `job_control_live` | `MCJobControl`, `JobControlLive` | the refinement of `JobLifecycle` and the liveness properties | hold |
| `repl` | `MCRepl`, `Repl` | descriptors, children, causes of death and the return to the user, with Ctrl-C and failing calls | hold |
| `repl_sigint` | `MCRepl`, `ReplSigint` | whether a Ctrl-C ever ends the shell | violated: see findings |
| `lines` | `MCShellLine`, `ShellLine` | whether what runs is what was written, what was parsed and what was confirmed | hold |
| `arguments` | `MCArguments`, `Arguments` | `arg_parse` against a reading of the words from left to right | hold |
| `arguments_dash` | `MCArguments`, `ArgumentsDash` | whether `arg_parse` always returns | violated: see findings |
| `files` | `MCFileCommands`, `FileCommands` | what an exit status promises, alone and with a rival, with calls that fail | hold |
| `pkg_store_one` | `MCPkgStore`, `PkgStoreOne` | database, trees and links, one command at a time, with crashes and failed extractions | hold |
| `pkg_store_two` | `MCPkgStore`, `PkgStoreTwo` | two processes on two packages | violated: a record is lost |
| `mcp_server` | `MCMcpServer`, `McpServer` | answers, deletions, logins and starvation at the native server, with clients that do not read | hold |
| `mcp_bridge` | `MCMcpBridge`, `McpBridge` | answers and deletions at the bridge, and both services' reading of a delete | hold |

Further configurations show single facts that section 4 reports; they are for `tlc` by hand:
`JobControlReload`, `JobControlStranger`, `JobControlShown`, `JobControlMask`, `JobControlFull`, `JobControlStages`
(with `MCJobControl`), `PkgStoreSame` (holds: two processes on one package and a full disk lose no other record),
`PkgStoreDisk`, `PkgStoreLinks` (`MCPkgStore`), `FileCommandsCopy`, `FileCommandsShort`, `FileCommandsMkdir`
(`MCFileCommands`), `ShellLineQuotes` (`MCShellLine`), `McpServerReply`, `McpServerMistaken`, `McpServerCut`
(`MCMcpServer`), `McpBridgeDays` (`MCMcpBridge`). All but `PkgStoreSame` end in a counterexample.

### Job control

`TableWellFormed`: scans stop at `s_job_count`, so no job may live beyond it, and ids are unique.
`NoLostNotification`: whenever a completed job is in the table, the flag is set or the scan in progress has
yet to reach it; clearing the flag before the scan, as `main` does, is what makes this true.
`RunningJobHasChild`: a job shown as Running has a child the kernel knows, or its status is in the hands of
a handler: two handlers racing for a slot never drop a status. `ForegroundNotConsumed`: the handler never
reaps a child the main thread is going to wait for. `KillHitsNamedJob`: `kill_run` copies a pid out of the table and
signals it later, and in between the job's child may be reaped and its pid given away. Whatever happens, the only
living child of the shell's that `kill %id` signals is the named job's, and if somebody else has the pid, the named
job's child has been reaped: a job that is running, or a zombie, is never missed. The shell cannot exclude more:
`KillSparesStrangers`, that nobody but a child is ever signalled, is false (`JobControlStranger`). *Liveness:*
`EndedJobIsRecorded`, `CompletedJobIsCleared` (provided the shell keeps returning to its prompt: the user
owes it no input), `EveryEndedChildIsReaped`.

*Bounds.* Two or three pids (reused, so there are more children than pids), two slots, two stages, two or three job
ids, two `kill` targets, one process of others at a time (it comes and goes as often as it likes; with pids taken and
given back, one is enough for any copied pid to be taken). Both handlers, a reused pid, a reused slot and a full table
are reached within them: a race here needs at most two slots and three children (one dead, one whose pid is reused,
one bystander). `job_control_live` has `ForkMayFail = FALSE`, because a failed fork leaves SIGCHLD blocked for good
and no end is ever recorded (`JobControlMask`), as many slots as ids, so that the table is never full
(`JobControlFull`), and no processes of others, which take no step of the shell's away.

### The loop and its pipes

`PromptHoldsNoPipe`: back at its prompt the shell holds no end of any pipe, whichever call failed and
wherever Ctrl-C struck. `StageHoldsOwnEnds`: a running stage holds the read end of its input and the write
end of its output, nothing else, although `fork` copies all the shell has. `NoForgottenChild`: without a
failure and without Ctrl-C only registered background children outlive their line. `SigintDoesNotExit`
is what the repository says of Ctrl-C, and it is violated. `DeathHasCause` says what is left of it: SIGINT
kills the shell on a second Ctrl-C at the earliest, SIGPIPE only after an interrupted read of a builtin's
status. `ListensAgain`: the user is always listened to again.

*Bounds.* Three pids, two pipes, `Capacity` 1 (a full pipe after one write), pipelines of three, two lines,
two Ctrl-C. Three stages are the least in which a middle stage inherits from both sides; a second line shows
what the first left behind; a second Ctrl-C meets the default disposition.

### Lines and arguments

`RunsWhatWasWritten`: a line composed from words, quotes, variables, redirections, a bar or an ampersand runs the
commands it was composed from. `PrintedIsUnderstood`: a line the BNFC parser accepts is printed so that the scanners
find the parser's commands again, or refuse it for a limit of their own. `NoStrayBarOrRedirection`: on a line without
quotes, backslashes and unexpanded variables no bar and no redirection character ends up in a word. An ampersand does,
unless it ends the line or belongs to `2>&1`: the shell has no `&&`, and `a & b` is one command of three words.
`ConfirmedAsTyped`: a confirmed suggestion runs what the same text would run when typed, comments apart: the lexer
takes them for blanks, and a suggestion never meets it. *Bounds.* Every string up to four characters over one alphabet
and up to three over another, every composed line of up to two stages, suggestions of up to five characters; buffers
of 32 so that long lines overflow them, four arguments, two stages.

`ParsesAsMeant`: `arg_parse` finds an error exactly if the words, read from left to right without any
permutation, have one, and otherwise gives each option and operand what it was given. `HelpIsHarmless`: asked
for help, a command does nothing else. `ParsingEnds`: parsing ends, unless a word has a dash at its end.
*Bounds.* Every argv of up to two or three words (those with values or mixed operands have three) from the
options of each of nineteen builtins and the words any of them may get, with a few longer ones that make
`permute_args` swap blocks whose sizes share a divisor.

### Files

`CopyIsWhole`: a `cp` that reports success has copied every file, and never harms its source; the exception are the
files whose reading or whose last flush failed, which `copy_file` does not notice. A write that falls short it does
notice, which is what the mutant takes away. `CopyIsTold`, without the exception, is false (`FileCommandsShort`).
`RmTellsTheTruth`: an exit status of 0 means gone, 1 means a reason. `RemovedBetweenThem`: two `rm -rf` of one tree
may both fail, but the tree is gone. It is about one operand each: of two shells that run `rm -rf a a/b`, one may trip
over the other in `a`, go on to its second operand and remove `a/b` under the other, which then fails as well, and `a`
stays. `MkdirsAgree`: while the shells only make things (`mkdir`, `mkdir -p`, `touch`), a `mkdir -p` reports success
exactly if all its paths are there, whoever made them and whatever has been put in its way; and what is there is a
directory, unless it was a file when the command began or a `touch` was asked for that very path. The exception is the
code's: `mkdir_p` takes `EEXIST` for success without a look at what exists, where the help of `mkdir`
(cmd_mkdir.c:113) speaks of a directory that already exists; `MkdirMakesDirectories`, which is that, is false
(`FileCommandsMkdir`). `EveryCommandEnds`. *Bounds.* Six inodes (so the disk fills up), two names, paths of two
components, four trees, every command on every path alone and with a `cd` around it, and pairs of rivals (`rm`, `mkdir
-p`, `rmdir`, `touch`, `cp`, `mv`, `cd`); any `fread`, `fwrite` or `fclose` of a `cp` may fail. `CHECK_DEADLOCK
FALSE`: scripts end. The same holds of `arguments`: parsing ends.

### The package manager

`OthersKept`: a record leaves the database only at the rename of a command on its own name, wherever the other command
was killed. `LinksResolve` and `RecordedHasTree`: database, trees and links agree, except for what an interrupted
extraction or removal explains. `RemoveForgets`: after a removal no line of the package is left, however often it had
been installed. `UpgradeTakesEffect`: after an upgrade the package has one line, with the new version, and its links
lead there, provided the archive is of the version the registry announced. `ImplementsMap`: what is found of a package
changes at one point of a command on it, or not at all, and never for another package. *Bounds.* Two names that share
an executable, two versions, 1.9 and 1.10 (whose order as numbers is not their order as text), of which the second has
one executable more; a registry that offers one name in both versions and does not know the other; `MaxLines` lets one
package be recorded three times, so that it can be installed twice, or upgraded, interrupted and upgraded again. Two
processes need four files at most: two names and two that are still open.

### The services

`AnswerIsOwn`: an `rpc` call that succeeds has the answer the server logged for its whole message on its
last connection, whatever earlier attempts left in the queue; the progress line of two legacy tools is the
exception (a client takes it for the answer). It has no more than the beginning of it only if the answer is longer than
`RPC_MAX_LINE`, however the connection ended; `SuccessIsWhole`, that a success is never cut, is false
(`McpServerReply`). `DeletesAsAsked`: what the native server unlinks was asked for by a line its client sent on that
connection, was old enough when scanned and was no dry run, though the members of the request are searched for
in its text. Two exceptions are part of the statement. One are lines on which `strstr` may go wrong, because a key is
spelled a second time, as a path or in another object (`Mistakable`): there `DeletesAsRead` is false
(`McpServerMistaken`). The other are parts of lines, which `recv_line` returns when a line overruns its buffer
and when a client leaves in the middle of one (`WasSent`): the part asks for the delete, but the line that was sent may
not; `WholeLinesDelete` is false (`McpServerCut`). `LoginIsPerConnection`: FTP-style lines are obeyed only after a
`USER` on the same connection. `OnlySilenceHoldsUp`: the server comes back to `accept` again and again, unless one
session stays and for ever neither completes its line nor, when there is no room left, reads an answer.

`AnswersItsLine`: a connection of the bridge gets one answer, logged, to one of its lines, in whatever chunks they
come. `DeletionsAreLogged`: a file is deleted for a line that asks for it, and that line is the one the log has for
the connection. `SameReading`: both services plan the same deletions for a line both accept, if the members are
spelled once in it and nothing else is spelled like them. `EveryLineAnswered`: a line that has arrived is answered, or
waits for the agent, or the process has died.

*Bounds.* One `rpc` client with two attempts and one session, a backlog of one, lines of up to 40 tokens (longer ones
are cut), one answer that fits in a connection beside what its client has read, answers of more than two names that
are too long for `rpc` (the lists of tools and commands are), two connections of the bridge and chunks that end at two
places inside a line or at its end; four files of different ages, one of them named like a member of the request; one
change by others during a delete. Every call of the tools is made once, every session beside one call, and a few calls
beside a session that sends one request after the other and reads at will.

### Fairness

`JobControl`: weak fairness of the main thread, of the builtin thread, of each handler, and of the delivery
of a pending SIGCHLD to some thread that takes it: the scheduler runs what can run. Nothing is assumed of
the user (`UserLine`) or of children (`ChildEnds`). `Repl`: both threads and each child's reads, writes and
set-up are scheduled, and a program ends once it has read its input to the end; an endless writer ends only
by a signal, and nothing is assumed of the user. `FileCommands`, `Arguments`: some step is taken while one
can be. `McpServer`: the server is scheduled (`Fairness` states WF of `ServerStep` with its ENABLED written
out as `ServerReady`, because TLC evaluates the ENABLED of so large an action slowly), and a call of `rpc`,
whose every wait has a timeout, goes on; nothing is assumed of a session, neither that it sends nor that it reads, and
not that a send is ever broken off. `McpBridge`: only that a delete
which has begun goes on; nothing of clients, nor of the agent, whose HTTP request has no timeout.
`PkgStore`, `ShellLine`: none, their properties are safety properties.

## 4. Findings

Three are violation runs: what the code does against what a document or a comment of the repository says.

1. **An option cluster with a dash at its end never ends** (`argtable3.c:1923`, run `arguments_dash`).
   `ls -l- x` hangs the shell: the dash is taken for a long option in the middle of the word, `getopt_long`
   returns an error without moving on, and `arg_parse` calls it again for ever.
2. **A second Ctrl-C ends the shell** (`main.c:1708`, run `repl_sigint`). README.md:914 and the comment at
   `main.c:518` say that it does not. With the Makefile's `-std=c99 -D_XOPEN_SOURCE=700`, `signal()` puts the
   default back when the signal is delivered, and nothing installs the handler again. A Ctrl-C that interrupts the read
   of a builtin's status (`main.c:694`) ends it too, by SIGPIPE.
3. **Records lost to a second process** (`pkg.c:348`, run `pkg_store_two`): `pkgdb_remove` has one
   temporary name and no lock.

The configurations for `tlc` by hand show the following.

4. **A reloaded pid** (`main.c:543`, `JobControlReload`). See `PidReload` above: a job stays Running for
   ever and `kill %id` may reach another child.
5. **Freed unseen** (`cmd_jobs.c:60`, `JobControlShown`, property `CompletionShown`). `jobs` prints
   `Running`, the child ends, `jobs` frees the slot; the completion is never reported.
6. **SIGCHLD stays blocked** (`main.c:1346`, `1361`, `JobControlMask`, property `SigchldOpenAtPrompt`)
   after a failed `pipe` or `fork` in a background line.
7. **Untracked child** (`main.c:1484`, `JobControlFull`): with 64 jobs in the table, a further background
   child becomes a zombie.
8. **One job per stage** (`main.c:1478-1485`, `JobControlStages`, property `PipelineIsOneJob`): the comment
   says only the first stage owns an entry.
9. **Records lost to a full disk** (`pkg.c:363`, `PkgStoreDisk`): a short copy is renamed over the database.
10. **Another package's link removed** (`pkg.c:904`, `PkgStoreLinks`, property `RemoveTakesOwnLinks`).
11. **A directory copied without `-r`** (`cmd_cp.c`, `FileCommandsCopy`, property `DirectoryNeedsR`): `cp`
    opens it, reads nothing and reports success, where its help calls it an error.
12. **Quotes kept on plain lines** (`ShellLineQuotes`, property `QuotesAreRemoved`): README.md:905 describes
    a quote-aware scanner, but a line without an operator is cut by `strtok`, quotes and all.
13. **A stranger is signalled** (`cmd_kill.c:147`, `JobControlStranger`, property `KillSparesStrangers`): the job has
    ended and been reaped since its pid was copied, and the kernel has given the pid to another process.
14. **Short copies reported as success** (`cmd_cp.c:57`, `68`, `FileCommandsShort`, property `CopyIsTold`): a read error
    counts as the end of the file, and nobody looks at what `fclose` returns when the disk is full.
15. **`mkdir -p` of a file** (`cmd_mkdir.c:55`, `FileCommandsMkdir`, property `MkdirMakesDirectories`) reports success;
    the help text says that errors are suppressed if a directory already exists.
16. **Answers cut, and called ok** (`cmd_rpc.c:83`, `McpServerReply`, property `SuccessIsWhole`): `read_line` stops
    after 2047 bytes, or at the end of the connection, and reports success; `tools/list` alone is longer.
17. **A dry run that deletes** (`mcp_server.c:1339`, `McpServerMistaken`, property `DeletesAsRead`): with the path
    `dryRun`, `strstr` finds the path, and takes the value of the member behind it for that of `dryRun`.
18. **Parts of lines are obeyed** (`mcp_server.c:2171`, `McpServerCut`, property `WholeLinesDelete`): the first part of a
    line whose client left, or the rest of one that overran the buffer, is a request of its own.
19. **`days: null` deletes everything** (`server.js:730`, `McpBridgeDays`, property `DeletesByDays`). `Number(null)`
    is 0; the message at `server.js:750` says that `days` must be a number, and the native server refuses the request.

Met while modelling, each part of the models above:

- *SIGINT.* After a Ctrl-C in a wait the child stays behind, and nobody ever reaps it.
- *Lines.* The set of forbidden characters at `main.c:303` ends in `\\r`, a backslash and an `r`: every
  suggestion with an `r` is refused. A suggestion is validated after it was confirmed. Words that begin
  with `//`, and `/*`, are comments to the BNFC lexer. `a && b` runs `a` with arguments. An empty quoted
  word is an error without a message; `echo $ | cat` fails without one. `a2>b` is one word or a redirection
  depending on the route. Too many arguments are dropped on a plain line and refused in a pipeline. A line
  longer than the buffer runs as two. The values of variables are scanned again for operators. A stage whose
  words do not fit its storage is refused, though the grammar accepts it. Where a value has a dollar
  sign of its own, a line with an operator expands it once more, and an operator in that value becomes part of an
  argument.
- *Files.* `cp a a` empties the file and reports success; so does `cp -r` of an empty directory onto a file.
  `cp -r a a/b` ends only when the disk is full. `rmdir -p` reports success for a first directory that is
  not empty. `pwd -L` prints a stale `$PWD`. `stat --json` of a missing file prints no valid JSON.
- *Services.* Equal keys: the native server takes the first, the bridge the last. With the tool named by
  `name`, the native tools find it again as the argument `name`. A path spelled like a member that comes
  before it misleads the native search (17). A file that is replaced between the scan and the unlink is unlinked
  with its new contents. A client that asks and never reads holds the server in `send`. `topK` above 8 is 8 in the
  bridge and 3 in the native server, and
  `topK` 0 is 1 and 3. `dry_run` is ignored by the native tools; the legacy tool refuses 0 days, which the
  native one accepts. `RETR` returns at most 32768 bytes of what `STOR` took. A line longer than the buffer
  is cut and stored. An empty line, or one of exactly the buffer's size, ends the connection. Broken JSON
  before `USER` gets the answer 530. The progress line of the legacy tools is taken for the response by `rpc`
  and by `legacy_mcp_client.py`. `rpc` has no protection against SIGPIPE.
- *The bridge.* README.md:128 says all request and response events are logged; a reply after the first is
  dropped and not logged. A later line may be answered while an earlier one waits for the agent, whose answer
  is then dropped. A client that half-closes while the agent is asked gets nothing, though the log has its
  answer. The comment at `server.js:806` says files that disappear during the scan are skipped; a directory
  that disappears ends the process, and so does the line `null`. Packages are read once at start-up while
  the command catalog is live, and the corpus is never read again.

## 5. Proofs

`JobControlProofs` proves, for every number of slots, stages, targets and pids:

| Theorem | Property | Assumes |
|---|---|---|
| `TypeCorrect` | `TypeOK`, `IndicesInBounds` | the module's `ASSUME` |
| `TableCorrect` | `TableWellFormed` | same |
| `NotificationKept` | `NoLostNotification` | same (every build, `PidReload` included) |
| `ChildNeverLost` | `RunningJobHasChild` | `SafeBuild` |
| `ForegroundLeftAlone` | `ForegroundNotConsumed` | `SafeBuild` |
| `KillHitsItsJob` | `KillHitsNamedJob` | `SafeBuild` |

*The argument.* Types and loop bounds are inductive by themselves (`NextTypes`), and so are `TableWellFormed` and,
with `ThreadsInStep`, `NoLostNotification`. The last three need `Ownership`: every child has one owner. Either a
Running slot owns it, or the main thread does, in the part of `pids[]` it has not yet registered or waited for
(`StagesHeld`), or a handler that has just reaped it and will record its status (`HandlersUpToDate`). What a handler
learnt by its test is still true when it calls `waitpid`, or the other handler has been there first and the call finds
no child (`WaiterUpToDate`); this is where `SafeBuild` enters. `CompletedPidUnused` says when a completed job's pid
may be in use again: only between a child that is forked under it and the end of the next scan, because that scan
clears the job before another line is read. `KillReachesOwnChild`, the first half of `KillHitsNamedJob`, rests on it.
The other half needs two things more (`NextStrangers`): no pid is a child's and a stranger's at once
(`StrangersApart`: a pid is given away only when it is free), and as long as the job that `kill_run` looked up is in
the table, it is the one whose pid was copied (`KillTargetNamed`: ids are not used twice). So if a stranger has the
pid, the job's child is gone. `NextOwnership` has one step per action, and under it one per conjunct the action can
disturb.

It also proves `StepsOfTheLifecycle`: in a `SafeBuild` every behaviour of `JobControl` is one of
`JobLifecycle!Steps`, its specification without fairness, under the mapping `PhaseOf`. `PhasesKnown` restates
that mapping without its `CHOOSE`; it follows from `Ownership`, which says that an occupied slot is the only one
with its id and that a status is held by one handler at most. `SameSlot` and `SameJob` say what a phase depends
on, so each action need only be followed in the slot it touches: a fork or a foreground wait touches none,
because its child belongs to no Running job; `waitpid` in the handler moves a status from the kernel to the
handler and leaves the phase alone; and each of the others is `Start`, `End`, `Learn` or `Retire` of one job.

`ReplProofs` proves, for any number of children, pipes, stages, lines and Ctrl-C and any choice of failing
calls, from the module's `ASSUME` alone:

| Theorem | Property |
|---|---|
| `NoPipeAtPrompt` | `PromptHoldsNoPipe` |
| `StagesHoldTheirOwn` | `StageHoldsOwnEnds` |
| `NobodyForgotten` | `NoForgottenChild` |
| `DeathsHaveCauses` | `DeathHasCause` |

*The argument.* None of the four is inductive. `ShellHolds` says which ends the shell holds at each place of the
main thread: in a pipeline only `in_fd` and the pipe just made, and no write end from one stage to the next.
`KidsHold` says what a child holds through its life, so that a fork, which copies the shell's ends, gives it only
its own two, `WorkerFits` says that while a
builtin's status is to come no child has an end of its pipe: the read therefore waits for the thread, and
only an interrupted read (`torn`) can leave a writer without a reader. `LineFits` keeps `next` and `pids[]` in
step with the line, and `Waits` says that every child not yet waited for is among the `pids[]` still ahead. There
is one lemma per action (`ForkKept`, `CtrlCKept` and so on), with one step per conjunct.

`PkgStoreProofs` proves, for any packages, versions, archives and length of the database:

| Theorem | Property | Assumes |
|---|---|---|
| `TypesHold` | `TypeOK` of `PkgStore` | the module's `ASSUME`; any processes, any faults |
| `LinksAlwaysResolve` | `LinksResolve` | `OneAtATime` |
| `RecordedAlwaysHasTree` | `RecordedHasTree` | same |
| `OthersAreSafe` | `OthersKept` | same |
| `RemovalForgets` | `RemoveForgets` | same |
| `UpgradesTakeEffect` | `UpgradeTakesEffect` | same |
| `VersionsAreOrdered` | - | versions are sequences of numbers |
| `NewestIsOffered` | - | the module's `ASSUME` |
| `CommandsAreAtomic` | `ImplementsMap` | `OneAtATime` |

`VersionsAreOrdered`: what `compare_versions` calls older is a strict order in which versions that differ in a number
are comparable, so "newest" has a meaning. `NewestIsOffered`: the loop of `loadPackagesFromModules` leaves an answer
for every name that has a module, and the version it answers with is that of a module of that name, of which none is
newer. `Keeps` is the invariant of the loop: the place kept for a name after `k` modules is that of one of the first
`k`, none of them is newer, and the place is 0 only if there is none. `LoopRuns` says that the recursive function
exists, `ModuleLoads` that a turn keeps the invariant (it is here that the order must be one: what is newer than the
module kept so far is newer than all those before it), and the theorem takes the least turn after which it would not
hold.

`OneAtATime` says what the run `pkg_store_one` says with its constants: one process, and a disk that is never
full. Crashes and failing extractions are allowed. Without it they do not all hold: `pkg_store_two` and
`PkgStoreDisk` are counterexamples.

*The argument.* `Typed` adds to the types what a command must have for its next step (`CommandOK`: executables
left to do while it unlinks or links, an open database while it copies), and is inductive for any processes.
With one process `Trees` says what the trees and links are at each place of a command: while it records or
drops, every link of its package's executables is its own (`Linking`), and every link leads to a whole tree or
to one an interrupted extraction explains. `Database` says which file each of its open files is: the copy is
never the database itself (`Apart`), and from the copy to the rename its lines are the lines of the other
packages (`FilesOf`). `OthersKept`, `RemoveForgets` and `UpgradeTakesEffect` are what the rename and the append
then do. `OthersAreKept` says what the copy of
`pkgdb_remove` keeps: the lines of the other names, and no others.

`CommandsAreAtomic` needs the order of the lines too, because what is found is the first line of a name. A line
at the end changes that only where there was none (`FoundAfterAppend`); without the lines of one name, all other
names are found as before (`FoundAfterDrop`). `Copied` says that from the copy to the rename the buffer, and then
the file, is the database without those lines, in their order, and that the version an upgrade is to replace is
found until the rename. `StepOfMap` then takes each action to its step of the map or to a stutter.

`ShellLineProofs` proves, for texts, suggestions and values of variables of any length, any environment, catalog
and sizes of the shell's arrays:

| Theorem | Property | Assumes |
|---|---|---|
| `BarsAndRedirectionsAreNotArguments` | `NoStrayBarOrRedirection` | the module's `ASSUME`s |
| `SuggestionsRunAsTyped` | `ConfirmedAsTyped` | same |
| `PrintedLinesAreUnderstood` | `PrintedIsUnderstood` | same |

The assumptions are that texts are sequences of characters, that the alphabet has the characters the scanners look
for, and that the arrays have room for a stage and an argument.

*The argument.* Nothing can be proved by induction over a text. A loop is a function of the number of its turns;
`LoopRuns` says that it exists, and `Counting` that what holds before the first turn and survives a turn holds at
the end (by the least turn after which it does not). For each scanner a lemma says what a turn does and that a text
of length `n` is used up after `n` turns (`ExpandedRuns`, `LexRuns`, `WordRuns`, `StageRuns`, `PiecesRuns`).

`OperatorInv`: on a plain line, one without quotes, backslashes and dollar signs, the quote-aware scanner finds every
character unquoted (`UnquotedIs`), so the pieces have no bar in them (`PiecesAre`); in a piece without a bar the scanner
of words reads up to the next blank or redirection and no further (`WordIs`), so an argument and a file name are
of characters that are no operators (`StageIs`). A line without any operator goes to `strtok` as it is.

`ConfirmInv`: what runs for a suggestion are its words, and it has none of the forbidden characters. `TypedAgain` says
what the text would have come to as a typed line. Expansion leaves it as it is (`ExpandedSame`: it has no dollar sign).
The BNFC parser either refuses it, and then `strtok` cuts the same text, or accepts it; what the lexer has made of it
so far is then a sequence of words, the first ones `strtok` finds in the same text (`Seen`: or it has met a character no
rule matches, or is about to). Those words are the only stage of the tree (`PlainTree`), the
printer puts a blank behind each (`PlainPrint`), and `strtok` finds them again in what is printed (`SplitSpaced`).

`PrintInv` follows a tree of any number of stages, words and redirections through the printer and the scanners. The
printed line is the stages' items, words and operators alike, with a blank behind each (`PrintInputIs`). The scanner
that strips the "&" takes off what the printer put behind a background job and nothing else (`AmpStripped`, `NoAmp`); the
one that cuts at bars finds the text of each stage, trimmed (`PiecesOfLines`, `ScannedLine`). In such a text parse_stage
finds the items again: a word ends at its blank and has no operator at its start (`WordRead`, `OpAtWord`), and an
operator with a blank behind it is read whole, never as a shorter one (`OpAtOp`). So `InStage` says what is left of a
stage after each turn: its words and redirections are those read and those left (`Left`), and what has been used of
the storage and what the rest will need (`Cost`) add up to what the whole stage needs. A turn therefore fails only
where the stage has too many words or redirections or does not fit the storage, which is what the property allows
(`StageReads`). `PrintInv` adds how many stages are parsed (`Parsed`); a redirection can be misplaced only in the last
stage, because the grammar has none elsewhere. A line without an operator is a single stage (`OneStage`) and goes
to `strtok`.

`ArgumentsProofs` proves, for the table of any command and any argv, words, numbers and limits:

| Theorem | Property | Assumes |
|---|---|---|
| `IndicesStayInside` | `TypeOK` of `Arguments` | the module's `ASSUME` |
| `ParsesLikeAReader` | `ParsesAsMeant` | same |
| `HelpDoesNoHarm` | `HelpIsHarmless` | same |
| `PermuteIs` | - | two blocks next to each other inside argv |

The assumptions are that an argv is a sequence of words, a word a sequence of characters, and that there is room
for an operand and for an error.

*The argument.* `PermuteIs`: a cycle of `permute_args` follows a word from place to place around the circle of
the `n + o` words, `o` further each time. It is back where it began after `(n + o) / gcd(n, o)` steps and not
before (`WayRound`), so it puts just the words whose distance from the first leaves one remainder by the gcd where
they belong (`CycleMoves`), and the `gcd` cycles together all words, each once. A recursive function of a LET is
treated as a sequence of states (`StepsExist`, `StepsStay`), with the least place where something is wrong instead
of an induction.

The invariant (`Inv`) compares the parser at every step with the reader, who moves nothing. While it scans,
the values stored are those the reader has noted of the words before `optind`, or inside a word of its letters up to
`place`, and the operands passed over, wherever they have been moved to, are the reader's (`Agrees`). They lie in
one piece in front of the options that follow (`Scanned`); a move keeps them so and leaves the words ahead as the
user wrote them (`MovedBehind`). When the scan ends, the operands are the end of argv (`Matched`), for "--" the
words after it included (`OperandsFollow`); that each table has one entry for operands at most (`TableIsTable`)
makes the matching of operands a matter of counting. An error is registered only where the reader, however argv
goes on, can no longer find it acceptable (`FaultIsLasting`). `ParsesAsMeant` alone is not inductive: it speaks
of the end.

`McpBridgeProofs` proves, for any clients, lines, workspaces and tokens:

| Theorem | Property | Assumes |
|---|---|---|
| `EachAnsweredItsLine` | `AnswersItsLine` | `ScriptsAssumption`, `NobodyAssumption` |
| `DeletedAsAsked` | `DeletionsAreLogged` | same |
| `ServicesReadAlike` | `SameReading` | same |

The assumptions are that a script is a sequence of lines and a line a sequence of tokens, and that no client is
called "none".

*The argument.* `Sockets`: until a connection is answered, its buffer is its client's text from the start of
a line to what the client has sent (`Held`); a chunk that ends anywhere keeps this so (`ChunkHeld`), and a line
taken out of the buffer is a whole line of the text (`TextHeld`). A connection that is not answered has no log
entry, and one that is has the entry's answer. `Logged` and `Asked`: a log entry or a waiting call is for a
whole line of its client, and no connection has two entries. `Turns`: the delete that holds the loop is for a
line of a connection that has not been answered. `Removed`: a file was deleted for the line at work or for one
the log has; it survives further lines of the same connection because none is looked at once `replied` is set.
`ServicesReadAlike` rests on `SamePlace`: where a member is spelled once, the native server's search in the text
and the parser find the same token.

`McpServerProofs` proves, for any clients, workspaces, tools and limits:

| Theorem | Property | Assumes |
|---|---|---|
| `LoginHolds` | `LoginIsPerConnection` | the module's `ASSUME` |
| `AnswersAreOwn` | `AnswerIsOwn` | `OneLineCalls` |
| `DeletionsAreMeant` | `DeletesAsAsked` | `Lines` |

`OneLineCalls` says that a call of `rpc` or `legacy_mcp_client.py` is one line without a newline in it, that it is
tried at least once, and that the longest line `rpc` sends (`RPC_MAX_LINE`) fits the server's buffer (`REQ_MAX`).
Sessions may send anything, in pieces of any size. `Lines` says no more than that lines are sequences without a
newline and that every client may connect: nothing is assumed of what they ask for, nor of what is cut off them.
TLC evaluates both assumptions on the instance of the run.

*The argument.* `FlagIsEarned`: while a connection is served, the flag in its session stands for a "230" in the
log on that connection; `Accept` clears it, and `PlanCodes`, `ToolCodes` and `PlainCodes` show that no handler but
`FtpLine` answers what needs a login. `WireFits`: a connection of a call carries its line, whole, or nothing, and
nothing before it is sent; what comes back on it fits the call. `ReadsWholeLine` follows `recv_line` through such a
text: it takes the line and leaves nothing. So the server works on the call's own line (`ServesLine`), also when
the attempt was given up long ago. A call gets `Part` of an answer only where the answer is `Long` (`Good`): on its
connection the first answer always finds room, so a send that is broken off for want of room is that of
a second one, which the call does not take.

For the deletions, `TextOf` says of what is on a client's wire, to the end of what it has sent, that it is made of
lines of its script (`FullLines`) and at its end the beginning of one (`OpenLine`), except that the first may
have lost the part the server has read already (`Cut`). `LineWasSent` concludes that what `recv_line` takes
out of it is a line, a part of one that is as long as the buffer, or what the client had sent of its last line when it
left (`WorksOn`); a client that has left sends no more, so that this stays true (`WasSentStays`). `GoesBy` says of a plan
that its path, days and dry run are members of one object of the line: of any line for the legacy tool, which
uses the parser (`LegacyGoesBy`), and of a line that is not `Mistakable` for the native one, whose search then ends at
a member (`RawIsMember`, `NativeGoesBy`). Each file found was asked for by such a plan (`FoundIsAsked`), and only what
was found is unlinked.

`FileCommandsProofs` proves, for any file system, inodes, names, scripts and shells:

| Theorem | Property | Assumes |
|---|---|---|
| `StaysInOrder` | `Orderly` | the module's `ASSUME` |
| `TypesHold` | `TypeOK` of `FileCommands` | same |
| `RmIsTruthful` | `RmTellsTheTruth` | same |
| `TogetherTheyRemove` | `RemovedBetweenThem` | and `OneCommandEach` |
| `TogetherTheyMake` | `MkdirsAgree` | and `OneCommandEach` |
| `CopiesAreWhole` | `CopyIsWhole` | the module's `ASSUME` |

The assumptions are that the first file systems are trees (`TreesAreTrees`), that scripts are lines of commands with
the operands their tables allow, for `cp` and `mv` one pair of them (`ScriptsAreLines`), and that root and the special
directory names are what they are (`FileAssumption`). `OneCommandEach` says that each shell runs one command. It is
needed: with an earlier command, one shell's `touch a/x` can make the `rm -rf a` of the other fail, and then do its
own `rm -rf a` from another directory, so that both have failed and `a` is left; likewise an earlier `rm` may take
what the other's `mkdir -p` has made.

*The argument.* `Orderly`: whatever shells do between two calls of a command, the inodes in use are a tree with the
working directories in it, and each command works on operands it was given. `rename` is the hard step: it moves a
subtree, and refuses to move a directory below itself, which keeps every inode below the root. A path is followed
by a recursive function, about which nothing can be proved by induction over its length; instead, `LookupKept` takes
the least component at which two lookups differ (`LookupSteps`). `RmStack` says that the calls of an `rm` are a path
of directories from its operand down, so the call that removes the operand is the last one. Of several `rm -rf` of a
tree, one always finds what its calls are about (`Unhindered`) as long as the tree is there (`Team`), and what is in a
directory still to be removed is among the calls before its `rmdir` (`Covered`): whatever a shell removes from under
another, it goes on to remove the rest. `mkdir` and `touch` only add entries; `MkStack` says which calls of a `mkdir -p`
are still to be made, and if one fails, the reason stays (`Never`): the disk is full, or a file is in the way. A
file that was not there when the command began is the work of a `touch` for that path (`Caused`).

`CopyIsWhole` compares two trees of any depth, but speaks of one path at a time, and so does its invariant: nothing at
or below the source has changed (`KeptBelow`), and each file of the source has been copied, or one of the calls still
to be made is about it or about a directory above it (`Covers`). When no call is left, every file has been copied, but
for those in `cut`; a write that falls short makes the command fail instead, whatever is left of its calls. A call for
a directory hands its paths on to one call for each entry (`NextOnTheWay`). What it writes is at or below the
destination, and disturbs neither the source nor what has been copied: two paths lead to one inode only if they are
the same path (`OnePath`, in a tree), and of two operands neither of which is a prefix of the other, no extensions are
equal (`CommonStart`).

*Only model-checked.* Liveness: the fairness of `JobLifecycle`, `ListensAgain`, `OnlySilenceHoldsUp`,
`EveryLineAnswered`, `EveryCommandEnds`, `ParsingEnds` and the liveness properties of `JobControl`, because fairness
and ENABLED are out of the prover's reach. `RunsWhatWasWritten` of `ShellLine`: what the author of a
line meant is an input there, known for the lines the run composes, so in general there is nothing to compare with.

## 6. What could come next

1. `pkg build`, `pkg compile` and the registry's HTTP routes.
2. One composition of `Repl` and `JobControl`: SIGINT and SIGCHLD at once, on the same main thread.

## 7. Not modelled, and why

- *Generated and vendored code* beyond what the shell relies on: the tables of the BNFC lexer and parser are
  modelled by what they accept, the Skeleton, Test and Buffer files not at all; argtable3's regular
  expressions (but for `kill`'s operands), dates, hash tables and formatting; jsmn beyond the lookup of
  members.
- *Text*: help, usage, what `ls`, `cat`, `stat` and `echo` print, error messages.
- *Scores* of documents are floating-point sums; an order stands for them.
- *The registry's HTTP side* and downloads only read files; `coresh_llm.c` and the agent's HTTP exchange are
  an answer from a set, or none.
- *`pkg build`, `compile`, `list`, `check-update`*: the first two write below the directory they are given,
  the others only read.
- *Stopped children, process groups, permissions, links and mount points.*
