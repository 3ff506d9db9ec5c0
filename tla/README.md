# promptpile in TLA+

promptpile keeps a conversation as a directory of small files. Several
independent programs work on that directory: `promptpile` appends messages and
model replies, `promptpile-mcp` answers tool calls, `promptpile-compress` moves
old turns into archives and back, `promptpile-fork` copies a prefix, and
`promptpile-react` drives all of them. There is no server and no common lock:
what keeps a conversation intact are rename, exclusive create, fingerprints
and the order of file operations. That is what these modules are about.

## 1. The system

| part | state | operations | who else touches that state |
|---|---|---|---|
| Conversation OCC (`packages/promptpile`: `conversation-mutation-*.ts`, `conversation-index.ts`, `file-handler.ts`, `index.ts`) | message artifacts, `.promptpile.occ.claim` | append-user, completion with `--continue`, with `--input --continue` | plain writers, `promptpile-mcp`, an operator who removes a dead claim |
| Completion artifacts (`index.ts`, `main-output.ts`, `completion-*.ts`, `after-hook.ts`, `output-*.ts`) | output pile, files, ledger, receipt, exit status | stream, write, run the hook, publish the receipt | the model service, the reader of the pile, the hook's process |
| Transcript (`ai-client.ts`, `file-handler.ts`) | none: deltas become calls, files become messages | merge, write, read | the model service, `promptpile-mcp` |
| Configuration (`resolve-config.ts`, `promptpile-react/src/resolve-react-config.ts`) | none after start-up | resolve, build the command line of a phase | the file system, the environment |
| Lifecycle lock (`promptpile-compress/src/lifecycle/lock.ts`) | one lock file per operation | acquire, clean up after the dead, release | every other lifecycle operation, on any machine |
| Archive lifecycle (`promptpile-compress/src/compress`, `src/restore`) | live messages, staging, archives, summaries | compress, restore, recover, automatic run | writers of messages |
| Automatic runs (`compress/index.ts:62-90, 757-948`) | one promise chain per directory | queue, enter, maintain, complete | runs in one process, their callbacks, the summary provider |
| Execution claim (`promptpile-mcp/src/exec-calls`) | result file, claim file | execute, skip, keep the claim | other clients, the gateway |
| Gateway (`promptpile-mcp/src/http`) | sessions, worker pool | execute with retries | tool servers |
| Fork (`promptpile-fork`) | target claim, staging, target | plan, execute | writers of the source, other forks |
| ReAct runtime (`promptpile-react`) | phase, step count, event stream, observations | think, act, observe, answer | the child processes it starts |
| Archive search (`promptpile-compress-grep-search`) | none | search | operations on the archives |
| Tools (`agent-lite-tools`) | watched settings, the record of reads, a child process | set, watch, read, write, edit, run | other programs that change the files, the command's own processes |

How they interact: through files only. `promptpile` and `promptpile-mcp` meet
on the `.calls.jsonl`/`.result.jsonl` pair of one index; `promptpile-compress`
takes whole turns away and leaves one system message, the summary, in their
place; `promptpile-react` and the automatic run before a completion start the
others as child processes.

What is hard: two writers with the same expectation; a check and a rename that
are two system calls; a model call of arbitrary length between reading a prompt
and committing the reply; crashes between any two file operations; a claim or a
lock whose owner is dead; a lost answer after a side effect; failures of the
cleanup itself. `PROJECT.json` lists each hazard at its line, with the
properties that watch over it.

What makes each part correct:

* OCC: no two turns are committed from one state, no artifact is replaced, a
  reply answers the messages before it, a conflict leaves nothing behind, nobody
  waits for ever.
* Lock: one operation at a time; a lock goes only with its operation or after
  its process has died; dead processes block nobody.
* Archives: each message exists exactly once wherever an operation stops; a
  summary is live only while it stands for an archive; every interrupted
  operation can be repaired.
* Execution claim: a tool call runs at most once unless an operator says so.
* Fork: a target is either absent or exactly the source prefix at one moment.
* ReAct: phases, events and final answer agree on every path.
* Completion: the receipt and the exit status say exactly what became durable, and
  the hook is told of it as far as its environment has variables.
* Automatic runs: one at a time per directory, in order, and nobody waits for
  himself.
* Transcript: whatever a stream and an executor leave, the next request pairs each
  call with one answer.
* Outputs and configuration: no two outputs are one file; every phase of a session
  reads, writes and authenticates as the session was configured.
* Tools: a cancelled source stays cancelled, nothing unseen is overwritten, a whole
  result is whole, a search says what it leaves out.

## 2. The modules

`ConversationLog` is what OCC promises: a list of turns, one owner per index;
a writer appends its turn, at the tail, only if the list is the one it was last
shown. `ConversationOCC` is the implementation and is shown to implement it
(`ImplementsLog`).

### ConversationOCC

One invocation `p` of promptpile runs through `pc[p]`; each action is one
system call, or one synchronous stretch of code that no other process can
observe half-done.

| action | code |
|---|---|
| `Start` | the caller has inspected the conversation and passes what it saw as `--expect-fingerprint`, `--expect-next-idx`, both, or neither (a plain writer) |
| `Preflight`, `Recheck`, `Derive` | `observeMutationState`: `Scan` lists and allocates, `Unstable`/`Verify` is the two-pass fingerprint, `Matches` is `checkPrecondition` |
| `Read`, `Answer` | `runCompletion`: messages are read, the model (or stdin) answers, with nothing held |
| `Acquire`, `AcquireFails`, `Release`, `ReleaseFails` | `conversation-mutation-claim.ts` |
| `PlainAllocate`, `CheckCollision`, `Write`, `WriteFails` | `file-handler.ts`: index, `existsSync` on all targets, one atomic rename per artifact |
| `Crash`, `OperatorRemovesClaim`, `ToolResult` | the environment |

Abstractions: the fingerprint is the directory itself (SHA-256 is taken to be
injective); the content of an artifact is the invocation that wrote it; a
reply is any of a set of shapes (body, calls, extra). `Seen` keeps the index of
the listing and the directory of the later observation apart, as the code
does. A process that dies while it holds nothing leaves no trace, so `Crash` is
only offered while it holds the claim.

### LifecycleLock

An acquisition `o` is a run of `acquireLock` followed by the operation and its
release. `Publish` is the hard link that makes the lock file visible with
complete metadata; `List` and `Read` are the `readdir` and the reading of each
file, so that a scan is not a snapshot; `Decide`, `Clean`, `GiveWay`, `Wait` are
the loop; `Abandon` is the error path; `Die(p)` kills a process with
everything it runs. `IsStale` compares the host before it asks for the pid. A lock
file that does not parse makes every acquisition fail and is left out. The order in
which `Clean` unlinks is free because the code does it with `Promise.all`.

### ArchiveLifecycle

One operation at a time (the lock), one file operation per action. A message is
its index and its part; `written[m]` counts the files of that name ever
created, so that "exactly once" can be said. `Condition` is
`inspectCompressionLifecycleState`; `Inspect`, `Reinspect` and
`DecideAutomatic` are the automatic run before a completion; `InspectStaging`,
`Rollback`, `RolledBack`, `RemoveStaging` are recovery; `InspectArchives`,
`UnlinkSummary`, `MoveOut`, `RemoveArchive` are restore; `Capture` up to
`WriteLiveSummary` are compression. `Emptied` is one step of a recursive
removal: Node removes the files of a directory in any order before the
directory. `Interrupt` ends the operation between any two steps, as a crash or
a failed file operation does. `Append` is another program adding a message at the
stages in the constant `Open`.

The selector is `Selected(k)`: all but the last `k` non-system turns, for the
`k` in `Keep`; `{0, 1}` covers a selector that archives everything.

### ConversationFork

`SnapshotCopy` is what a fork promises: an absent target appears in one step
and holds the selected prefix of one moment while the fork ran.
`ConversationFork` is shown to implement it (`ImplementsCopy`). A fork `f` goes
through `Resolve`, `Acquire` (the claim, by exclusive creation), two passes of
`List`, `Read`, `Relist` (`observeStablePrefix`), `MakeStaging`, `Copy`,
`Verify`, two more passes, `CheckTarget`, `Publish` (the rename), `Cleanup` and
`Release`. `Fail` is the one `catch` that leads to the cleanup; a process that
ends takes what it knew with it (`Forget`). A dry run is a fork that ends after
the first two passes and changes nothing; it has no action of its own. The content of
an artifact is a version number: a change writes a version never seen before, takes the artifact away, or brings back
what was taken away as it last was (`latest`), as a rollback of promptpile-compress
does. Bytes that were replaced by others do not come back while a fork runs: nothing
in the repository rolls the content of an artifact back. If they did, the passes, which
compare names, sizes and hashes, could agree on a mixture that was there at no moment
(the first refinement proof failed on that).
`moments[f]` is a history variable.

The refinement does not say that a change after the last observation makes the
fork fail: between the last read and the rename nothing looks again, and the
published target is then the prefix of an earlier moment.

### ToolExecution

A client `c` is one `executeCallsFile` on one result path. `Check`, `Acquire`,
`Recheck`, `Parse`, `Post`, `Receive` or `GiveUp`, `Publish`, and
`VerifyToken` with `Unlink` are its steps in the order of the code; `Keep` ends with the
claim left on disk, `Leave` removes it first. The request has a life of its own:
it may be refused with a status that says nothing was executed, lost, executed
after the client gave up, and its answer may be broken (5xx, malformed,
incomplete). `GiveUp` is the request timer, a signal or a connection error. A
request that reached the gateway may run at any later time. What a
calls file contains is left out. An operator removes a claim only when its
client has ended and its request is not in flight: the documents ask to confirm
the side effects first. `VerifyToken` and `Unlink` are two steps because
`releaseExecutionClaim` reads the token and unlinks the path in two system
calls; nobody but an operator who breaks that rule could make a claim change
hands in between. A client ends at `warned` when the claim file itself could
not be written, read or removed.

Two clients with one calls file but different `--output` paths have two claims
and both execute; the model has one path and says nothing about that.

### GatewayPool

The execution of one request by `executeCallsWithPolicy`. A worker is free,
running an attempt, sleeping before the next, or gone; the code between two
awaits is one action, because Node runs it without interruption. `Throws` is
every rejection: the call timer, a transient error (both retried when the tool
is listed as safe), another error, or the disconnection. `starts` counts the
executions of a call and is a history variable.

### ReactSession

One session with `--output-format stream-json`. `at` is the place in
`runOneReactSession`, `nextStep` and `finalAnswer`; `Proceed` is the loop
between phases, `StartPhase`, `RunThought`, `RunObserve`, `RunCheck`,
`CompletePhase` and `AfterCheck` are the phases in the order of the code, and
every `catch` is `RecordFailure` in an alternative of its action. `Written` and
`Unwritten` are the event writer, whose channel `ChannelBreaks` can close before
any event. The first three phases wait for a child that has no other contact with
the session, so one action runs the child and looks at what it left. The Final child
runs beside the session: `ChildWrites` puts frames into a bounded pipe (a delta,
`assistant_done`, anything the decoder rejects, the end), `Consume` is the decoder
with the delta handed on before the next frame is read, `Reject` destroys the pipe
and kills the child, `ChildExits` may come at any time, and `Settle` is reached
only when the child is gone and the stream was read. The four configurations of
Final prompt and policy, and whether failed work is kept, are chosen in `Init`.

`Register` is `registerObserveAndPrune`, with the check of `ObserveReactProcess`
that the report is the newest message, in one step: nothing else runs in between
inside the process, and a file operation that fails there ends the session
(`RegisterFails`). An observation stands for its family of files. `Straggle` is a
process that a tool of an earlier Thought left running and that adds a message; one
such disturbance per session is enough to make the registration fail.

Left out: the terminal mode (no events, no pipe), the user message that `--input`
appends first, and the identity checks on the work directory. `max_step` is at least 1,
so that the branch of `nextStep` that finds the budget used up before it starts is never
taken, and a Final without any observation cannot happen.

### CompletionRun

One root completion, from the resolution of its outputs to the exit status.
`stage` is the place in `runCompletion`; the actions follow the order of the code:

| action | code |
|---|---|
| `Resolve`, `Prepare` | the output policy before and after directories exist, the hook's resolution, the check of a precondition and the commit of `--input`, either of which may be a conflict; what is refused here has no output |
| `PileReady`, `PileNeverReady`, `PileBreaks`, `ClosePile` | `output-pile.ts` and `model-output-lifecycle.ts` |
| `Text`, `Chunk`, `StreamBreaks`, `StreamEnds` | `ai-client.ts`: what the stream delivers, and the terminal marker that makes it an answer |
| `Commit`, `CommitFails`, `MainDone`, `Conflict`, `ConversationDone` | `main-output.ts` and the turn of the conversation, one file and ledger entry at a time |
| `SkipHook`, `StartHook`, `HookEnds`, `DecideHook` | `after-hook.ts`, `after-hook-policy.ts` |
| `Publish`, `PublishFails` | `completion-receipt.ts` |
| `Leave`, `Kill` | the one `catch`, and a kill between two steps |

`disk` tells the files of this run from those of an earlier one, which is what a
stale sidecar or a stale receipt is. The commit of the conversation is
`ConversationOCC`'s part; here it is done, fails, or is a conflict. `env` is what
`buildPromptpileHookEnv` makes: the paths of `Named`, and whether there was reasoning.
It has no variable for the reasoning sidecar of `-o`, which therefore is in the
ledger and in the receipt but not in `Named`; `HookSeesWhatIsCommitted` says from what
a hook can tell that it is there.

### AutomaticRun

`PhaseQueue` is what the serialisation of automatic runs promises: a line per
directory, whose head works until it leaves. `AutomaticRun` is shown to implement
it (`PhasesTakeTurns`). `Queue` puts a run behind `tail[d]`, `Enter` is the
`await` of the predecessor, `Leave` the `finally` with `ForgetTail`, the conditional
removal of the entry. `Call(r, s)` is a call from outside, from a callback of `s`
(a mutation hook, the provider, the completion) or from work such a callback left
behind; `Refused` looks at the invocation in the asynchronous context.
`TimesOut` does not wait for the provider: the race is settled, and what the
provider answers later is ignored. `line` is a history variable.

### OutputTargets, PromptpileConfig, ReactConfig, Transcript, RangeRead, ArchiveSearch

Pure operators, without state. `OutputTargets` is the collision policy on a small
world of directories, links and names that are one on Windows; the property
compares it with the identity of the files themselves. `ReactConfig` extends
`PromptpileConfig`: it resolves a session, builds the command line of each phase,
and lets promptpile resolve that command line again in the world the session has
made by then, so that the two programs are composed. `Transcript` takes deltas to
calls, calls and results to files, and the files of all layers to messages.
`RangeRead` has both ways of reading a range, at once (`FastRead`) and in chunks
(`StreamRead`); one is the reference for the other. `ArchiveSearch` is the search
with its limits; the reference is the set of all hits. `Ordering` is the numeric sort
that both the calls of a stream and the turns of a search go through: the increasing
list of a set of numbers, by what it is and not by how it is computed.

`Algorithms` unites them: a behaviour of `AnyInput` takes one input of one algorithm,
from the constants `Ranges`, `Answers`, `Outputs`, `Sessions` and `Searches`, so that
TLC evaluates a property once per input and a theorem `AnyInput => []P` is about every
input there is. What may be an input is said by five assumptions, which TLC evaluates
on the bounded ones:

* `RangeIsSane`: chunks of a stream are not empty, offset and limits are numbers.
* `AnswerIsSane`: deltas, turns and layers are what their parsers leave, a layer has
  finitely many indices, the turn of the answer is one of the conversation, and a result
  does not say by chance what the placeholder for a missing one says.
* `OutputIsSane`: a link leads to a directory and not to a link, the names of a
  directory lead where it leads, the conversation's artifacts have one spelling, and
  the hook's path was resolved before.
* `SessionIsSane`: links as before; a list of directories that was given is not empty
  (the options collect at least one value); and the directories a session makes for
  itself are new, so that nothing it was configured with is the same as one of them or
  below it. `mkdtemp` and exclusive creation make them so; what an earlier layer
  configured cannot name them.
* `SearchIsSane`: finitely many archives and files, a limit that is a number, and the
  query beyond the part of a line that is read only where the line is longer than that.

### WatchedSettings, FileTools, ShellRun

The stateful tools. `WatchedSettings` is the skeleton that four controllers share
(access roots, ignore rules, the configuration of AI summaries and of SearXNG): a
load is started, reads, and merges, and calls and watcher events fall in between.
`FileTools` has one file, one `readFileState`, asynchronous reads, synchronous
writes and edits whose system calls a foreign writer can fall between. Every version
carries some time of modification, older or newer than those before it, as files that
are moved, copied with their times or written after the clock was set back do. The
history variable `hidden` marks a version that comparing times need not show to be
another one: its time is not after one the tools have noted, or it overtakes a streaming
read, or it comes when a call has loaded the content. `unc` says whether the path is a
UNC path, for which both tools leave out their first guard. `ShellRun` is one command
with its pipes, its timer, the abort signal, and a process that may outlive it.

## 3. The runs

| run | instance | question | result |
|---|---|---|---|
| `occ_cooperative` | append-user and reply by fingerprint, input-and-reply by next index; tool results written without the claim; faults | do cooperative writers implement the log, exclude each other, never replace a file? does a reply follow its own user message, and answer what precedes it? | holds |
| `progress` | one of four races: two cooperative writers with faults; a plain and a cooperative one with tool results; two lifecycle operations with deaths and the code's six attempts; three automatic runs on one or two directories | does every run end? does a race have a winner? what does a conflict leave? do the dead block anybody? do automatic runs implement a queue? | holds |
| `lock_exclusion` | three processes, two machines, legacy lock, faults, deaths | mutual exclusion; no lock is stolen | holds |
| `archive_integrity` | three turns and a system turn, four commands, two interruptions, one message added | nothing lost, doubled or summarised twice; turns stay whole; every interrupted state can be classified and repaired | holds |
| `fork_publication` | two forks, two artifacts below the cut and one above, two changes, squatter, faults | is the target always absent, foreign, or the prefix of one moment? | holds |
| `tool_execution` | three clients, one overwriting; faults, lost answers | is a call ever executed again, or twice at a time, that may have been executed? | holds |
| `gateway_pool` | four calls, three workers, three attempts, `fail_fast`, fairness | retries, what starts after a stop, an answer for every call | holds |
| `react_session` | three iterations, up to two observations kept, two deltas, a pipe of two frames, every failure, fairness | is the stream legal wherever it breaks off? is success witnessed twice? do the most recent observations stay? does every session end? | holds |
| `completion` | all 144 combinations of outputs and hook, fresh paths and those of a complete earlier run, up to two pieces of text, fairness | do receipt, exit status and hook environment tell the truth? does every run end? | holds |
| `lite_tools` | two settings files; one file whose versions carry one of three times, by an ordinary or a UNC path; one command with two pieces of output, one of them kept | does a cancelled source stay cancelled? is anything unseen overwritten? is a whole result whole? does an obedient command settle? | holds |
| `algorithms` | texts of up to four characters in all chunkings, five deltas in all orders, paths and directories by links and spellings, files of up to three lines | do the algorithms compute what their references say? | holds |
| `completion_provider_error` | fresh paths | is a stream with a provider error ever a success? | **violated** |

The violation is a disagreement between a text and the code.
`execution-system.md:60` counts a stream of status 200 that carries a provider error
among what is not a successful completion. The code looks at the choices of a chunk
only, so an error chunk followed by `[DONE]` or a finish reason makes a completion
with receipt and status 0.

Three other disagreements were met; no run shows them. `agent-event-protocol-v1.md:77`
gives a closed set of six error codes, and a session that uses up `max_step` under the
policy `error` fails with a seventh, `max_step_exhausted`
(`promptpile-react/src/index.ts:74`), which the JSON schema knows.
`archive-protocol-v1.md:45` says each archive directory contains
`compression.json`; a crash inside the recursive removal of an emptied archive
(`restore/index.ts:126`) leaves one without, and from then on every operation
refuses the conversation. `OnlyTornRemovalIsInvalid` says that nothing else does.
`file-write.tool.ts:6` and `file-edit.tool.ts:6` say that an existing file must have been
read in full; for a UNC path `write-file.ts:52` and `edit-text-file.ts:92` skip that
guard, and the other one lets a file through of which a part was read, as long as it is
not younger. `NoBlindOverwrite` makes the exception for UNC paths and for nothing else.

What the models allow because the code does it, and a reader may not expect:

* Settings: a load under way when the source is cancelled brings the cancelled
  layer back; an unreadable file keeps the previous layer; a change between the load
  and the start of the watcher goes unseen; overlapping calls that set a file leak a
  watcher, and each watches the file that is set when its own load is over.
* Files: a streamed read may ask for the file's time after its first chunk. A change
  within one millisecond, a file put in place with its own older time (`mv`, `cp -p`), one
  written after the clock was set back, and a foreign write between an own write and its
  `stat` cannot be seen. On a UNC path a read of a part is enough to replace the file.
* Hook: its environment has no variable for the reasoning sidecar of `-o`
  (`after-hook.ts:141-155`); there is `PROMPTPILE_HAS_REASONING` beside the body's path.
* Shell: an abort while the shell is looked up is missed; a child that ignores
  SIGTERM outlives the timeout.
* Reading: with a limit of bytes a carriage return at the end of a chunk is counted,
  so that a line may be left out, marked as truncated; only the way at once counts
  the byte order mark.
* Outputs: on Windows a name that differs from an artifact's only in case is not taken
  for one; a link as the last part of a path is not followed.
* Configuration: a key of the profile comes before the variable a table names in line.
* Transcript: results without calls go on as tool messages of their own.

### Bounds

* Three writers: a conflict needs two, and the third takes the claim that an
  operator cleaned up, or appends between another's user turn and its reply.
  `MaxIndex` leaves room for every writer's turns in the "pair" race and makes the
  allocator run out in `occ_cooperative` and in the "mixed" race, so that cooperative
  and plain writers both meet exhaustion.
* Lock: `MaxAttempts` is 2 in `lock_exclusion`, enough to give way, retry and
  exhaust; the progress run uses the code's 6.
* Races: `progress` unites four systems that share nothing in one state space, because
  they ask one question; each behaviour runs one of them. Plain writers
  appear in its "mixed" race alone: `occ_cooperative` is about cooperative writers, and
  its next-state relation ranges over no plain one. Tool results, which take no claim,
  appear in both.
* Automatic runs: three are needed for one to arrive after the head left and before the
  second did; two directories for a detour.
* Archives: two interruptions are needed to interrupt the repair of an
  interruption; one added message is enough to split a turn or to invalidate a
  plan. The turn of two files is what can be split. `Open` leaves out the stages
  section 4 names under `NobodyWritesBack` and `NobodyWritesMeanwhile`.
* Fork: two artifacts are needed for a mixture of two moments, and two changes
  for one that no single pass notices. Two forks suffice for a race; they are
  interchangeable, as are the two artifacts below the cut.
* Tool calls: a client that executes, one that comes late and one that
  overwrites; two would hide a replay after a publication. Four calls for three
  workers let one worker take two; with three attempts a call sleeps twice. The run
  has `fail_fast` on, whose behaviours without a failure are those without it;
  the theorems hold for both policies.
* ReAct: three iterations and room for two observations make a third one push out the
  first. Two deltas and a pipe of two frames let the child be ahead of the reader
  and let a frame follow one that is wrong.
* Completion: two pieces of text let a pile break between them. Leftovers are none or
  all: a run never reads an earlier file, so their combinations add nothing.
* Tools: two pieces of output of which one is kept truncate a result; three times of
  modification let a version be older than, as old as or younger than what was read, and
  its successor again;
  two calls and one change overlap a load with either.
* Algorithms: three kinds of character cover a line, its end and its carriage
  return; four of them put each on both sides of every boundary. The fifth delta belongs to
  a call that never gets an id. Limits of two hits per turn and three in all stop a
  search in a file, in a turn and between turns.

### Fairness

`FairSpec` gives each invocation weak fairness of its own steps: Node keeps
executing a process that is not killed, and each await in the modelled code
(file operation, model call with its timeout, random back-off) returns. Nothing
is assumed of other processes, of an operator, or of faults. `ReactSession`
assumes of its children that they end: the Final child when it is killed, or as
long as its pipe is in order; not when its pipe was given up, where only the kill
ends it. Weak fairness
does not choose among the alternatives of a step, so a model may always fail.
`CompletionRun` assumes of its surroundings that the response body ends and that the
hook ends: the code sets no deadline to either, and without that a run may last for ever.
`AutomaticRun` assumes that completions and mutation hooks return, and nothing of the
summary provider, which has a timer. `ShellRun` assumes that a process starts or fails
to, that a timer fires, and that the streams of a process that is gone are closed.

All runs but those of the archives say `CHECK_DEADLOCK FALSE` because every
invocation ends and the system then really stops.

## 4. What is proved

Every theorem is for all values of the constants that the assumption of the component's
module admits, and uses no fairness; further hypotheses are named below. Each rests on
an inductive invariant, proved once per action and cited by the theorems.

`ConversationOCC_proofs`, for every set of writers, operations, modes, shapes
and every `MaxIndex`:

* `TypeCorrect`. Inductive as it stands, action by action.
* `Exclusion` (`ClaimExclusion`). The invariant is `HoldsClaim`: who is
  between creating and releasing the claim is who the claim file names. An
  operator may remove a claim only after its owner ended, which is why exclusion
  survives cleanup.
* `ConflictsAreClean` (`ConflictWritesNothing`), for cooperative and plain writers
  together. `TurnInv` says of every stage which parts of its turn a writer has on disk.
* `NothingOverwritten` (`NoOverwrite`). `TargetsFree` says that what the writer at
  "write" still has to write is free; it is inductive because of `HoldsClaim`, and a
  tool result has a name no writer uses.
* `LogImplemented` (`ImplementsLog`), the refinement. `LogInv` says that the used
  indexes are contiguous and each belongs to one turn, that an expectation was a prefix
  of the log (`ExpectsPrefix`), and that a recheck that matched under the claim stays true
  until the write (`ChecksLog`, `WritesAtTail`): no other cooperative writer gets that far.
* `ReplyIsNext` (`ReplyFollowsOwnUser`) and `RepliesAnswerTheirPrompt`
  (`PromptIsPrefix`). What was read outside the claim is what the recheck under the
  claim compared, and what precedes a reply does not change once it is there.

The last four assume `AllCooperative`: no writer is plain. With plain writers they are
false, since a plain writer checks for a collision and renames in two steps.

`LifecycleLock_proofs`, for any operations on any processes and machines, with
any `MaxAttempts`, deaths and faults: `TypeCorrect`, `Exclusion`
(`MutualExclusion`) and `NobodySteals` (`OnlyDeadLocksAreRemoved`). Mutual
exclusion is not inductive; the invariant says that an operation that is not over
runs in a live process and has its lock file where it published it, that what was
taken for dead is dead, and that of two operations at most one is `Blind` to the
other: a scan goes blind for a lock only while that lock is not there, and then its
operation has its own scan still to come. A death can only make locks stale.

The same module has `OneAtATimeInOrder`: the automatic runs of one process, any number
on any directories, called from anywhere, take the steps of `PhaseQueue`. `AutoInv` says
that the runs in a line are the ones queued or at work there, each once (`InLine`), that
each but the first is queued and waits for the one before it, and that what the first
waited for has returned (`Chained`), and that the map of tails names the last
(`TailIsLast`), which is what `ForgetTail` must not break. This is the safety part of
`PhasesTakeTurns`; its fairness is checked by TLC. The hypothesis says that `Nobody`, which
stands for no predecessor, is no run.

`ArchiveLifecycle_proofs`, for any conversation, commands, selections, interruptions and
additions:

* Without a hypothesis: `TypeCorrect`, `SummaryIsBacked` (`SummaryStandsForArchive`),
  `NamesConserved` and `LeftoversClassified` (`OnlyTornRemovalIsInvalid`). `FolderInv`
  and `StageInv` say what staging, archives and summaries may hold together and what each
  stage has established about them, `PlanInv` how far a plan is carried out, so that an
  interruption anywhere leaves something an inspection recognises.
* `MessagesConserved` (`NothingLost`) assumes `NobodyWritesBack`: nobody appends while a
  rollback or a restore is between its look for names in the way and its moves, which
  would replace the message of that name.
* `TurnsNotDivided` (`TurnsStayWhole`) assumes `NobodyWritesMeanwhile`: nobody appends
  from the last comparison of the conversation to the live summary. That window is open in the code
  (`compress/index.ts:255`), and the documents ask the orchestrator to keep completions
  away; in every other stage an addition makes the plan fail or changes nothing.

`ConversationFork_proofs`, for any forks, artifacts, changes and faults: `Exclusion`
(`ForkExclusion`), `TypeCorrect`, and `CopyImplemented` (`ImplementsCopy`), the refinement of
`SnapshotCopy`. Who works is who the claim names, and who has no claim yet has nothing to
clean up; that is why releasing a claim by its path is safe. `CopyInv` says what a fork has read
and copied at each stage (`Progress`), and, of two passes that have agreed so far, that
there is a moment between the passes at which the source was what the first one found,
except under names where the second will not find it again (`SecondPass`, `FoundBetween`):
a version that was replaced does not return, so what both find was there in between.

`ReactSession_proofs`, for any number of iterations, observations, deltas and any pipe:
`TypeCorrect`, `LegalStream` (`StreamIsLegal`), `WitnessedSuccess` (`SuccessIsWitnessed`) and
`RecentStay` (`RecentObservationsStay`). The invariant ties the last event to the place in
the session as long as stdout can be written (`Tracks`); counts what the child sent against
what was read and what is in the pipe (`PipeInv`); and says that the observations that are
kept, and only they, are in the directory, none newer than its newest message, whatever
retention has moved away (`RetentionInv`).

`CompletionRun_proofs`, for answers of any length, any options, leftovers and
failures: `ReceiptsAreTrue` (`ReceiptTheorem`), `ExitsAreTrue`
(`ExitTellsTheOutcome`) and `HooksAreTold` (`HookSeesWhatIsCommitted`). The
invariant says that the ledger is what this run has on disk and never more than was asked
for (`LedgerIsTrue`), that the pile is never ahead of the stream (`PileKeepsUp`), and what
each stage has behind it (`StageIsEarned`): a failure leads from the stream to the close
of the pile and from everywhere else to the end, so that a run at "receipt" has had none,
and completeness is never lost because the answer no longer changes. The latter is
also what `HooksAreTold` needs for the reasoning sidecar of `-o`: the run is complete
when the hook starts, so the sidecar is this run's exactly when the answer had reasoning.

`Tools_proofs`, the execution of tool calls and the tools that keep state:

* The execution claim, for any clients, any of them overwriting, with any faults:
  `ExecTypeCorrect`, `DoubtIsClaimed` (`InDoubtIsClaimed`), `NeverTwoAtOnce`
  (`NoOverlap`), `NeverReplayed` (`NoReplay`). The invariant is that who is between
  creating and removing the claim, or has a request in flight, is who the claim names;
  that is why a request still running after its client gave up keeps the claim
  occupied, and why the operator must wait for it.
* The gateway's pool, for any number of calls, workers and attempts: `TypeCorrect`,
  `UnsafeNeverRetried` (`UnsafeRunsOnce`), `AttemptsCorrect`, `OnePerCall`. The
  invariant says of a busy worker that its call was taken, has no result and was
  started once per attempt, and of a call without a result that it is still to be
  taken or has a worker; the latter is what makes the zero attempts of a call
  that nobody took true. `NothingAfterStop` (`NothingStartsAfterStop`, an action property)
  needs besides that a busy worker has an attempt behind it or under way (`AttemptMade`).
* `CancelledIsCancelled` (`ManualAloneAfterClear`), for any settings files and calls.
* `OnlyWhatWasRead` (`NoBlindOverwrite`), for any number of reads and changes, versions
  of any times, on ordinary and UNC paths. `FilesInv` says, of a version that is not
  `hidden`, that what was read or recorded is the file as it is unless the file is
  younger (`ReadsInv`, `RecordIsCurrent`), that so is what the call under way has loaded
  (`LoadIsCurrent`), and what each guard has made sure of (`GuardsHold`). Nothing is
  assumed of the order of times: a foreign version that is not `hidden` is younger than
  all the tools have noted, and that is what the guards compare.
* `WholeUnlessInterrupted` (`UninterruptedIsWhole`), for output of any length.

`Algorithms_proofs`, for every input that is sane in the sense of section 2:

* `SinksStaySeparate` (`SinksNeverMeet`). The policy compares paths twice, by name
  before directories exist and by identity afterwards; the proof shows that the second
  comparison decides, that is, what is one file has one identity in it and what it
  refuses is one file, and that the first refuses nothing the second would accept.
* `SessionsRunAsConfigured` (`PhasesRunAsConfigured`). `Configured` says what
  `ReactResolve` leaves in a session, a list of existing directories, no two of them
  one, that ends with the writable one; `Ready` what the session has made of it by a phase; `RunsAs` that
  promptpile, given the command line of a phase in that world, comes to the same
  directories, output, continuation and key. `PhaseRuns` proves the step from the second
  to the third, by the order in which `Pick` asks the layers.
* `RangesAreChunkFree` (`RangeIsChunkFree`), for every file, every way to cut it into chunks
  and every request. `PiecesJoined` says that the pieces of a text in two parts are those of
  the parts with one piece in common, so the pieces a chunk is cut into, behind what waited
  for it, are those the text goes on with (`ChunkPieces`). `Reads` says what a stream knows
  after some chunks in terms of the text so far: `HasSelected` that it holds the lines of the
  range as far as they are complete, or where and why it was cut off, and `Waits` that the
  last piece waits as long as it is wanted. The delicate case is `SelectionGrows`: a
  selection cut off at an unfinished line stays right when the line goes on, unless
  what follows is the newline of the carriage return it ended in (`SplitsInner`), which
  is one of the two exceptions of `ChunksAreInvisible`; `EndsAlike` and `PrefixIsKept`
  show that there the result is marked truncated and is a prefix.
* `AnswersStayWithTheirCalls` (`EveryCallHasItsAnswer`), for every stream of deltas, every
  result file and every layering. `CollectedIsSpoken` says of the calls collected after
  some deltas that each has the last id it was given and all that was said of it, piece by
  piece. There is only one increasing list of a set of numbers (`ListIsUnique`), so
  `MergedIsSpoken` can say that the calls that have an id come in the order of their
  indices. `TurnTogether` says that in a turn's messages
  each call is followed by its answer; and `BuildFinds` that a message of a request lies
  in its turn's messages, which are there from end to end, whatever layers surround them.
* `SearchesSayWhatTheyLeaveOut` (`SearchIsCompleteOrSaysSo`), for any archives, request and
  limits. One invariant for each loop: `FileSearched` (a file is read to its end or to one
  match too many), `FilesSearched` (what is not marked as cut has every found line of the files
  so far, once), and `GroupsSearched` (what was reported is in order and within the
  limits, and once something was left out, no older turn is reported). The one match too
  many is what the proof turns on: without it a file that has more matches than are
  allowed looks like one that has exactly as many.
* Lists of directories, options, pieces, chunks, deltas, files and turns are folds, so these proofs need
  induction over data, and the library's theorems for it take an operator. `FoldExists` and `FoldLadder` get
  around that: strict inclusion on the subsets of a finite set is well-founded
  (`WellFoundedInduction` has that without an operator), from which a set of indices
  that holds the first and, with each, the next is all of them, and a fold has a value
  for each prefix, each from the one before. Every fold of the modules then needs its
  own copy of two short lemmas.

Only model-checked:

* All liveness (`EveryRunEnds`, `EverySessionEnds`, `EveryCallIsAnswered` and so on) and the
  fairness that `PhasesTakeTurns` asks for: `ENABLED` and fairness are out of the prover's reach.
* `ConflictWritesNothing` of the run `progress`, which is that property of `ConversationOCC`
  for each of its two races between writers; `ConflictsAreClean` is the theorem about it.
* `ProviderErrorIsNotSuccess`, which is violated.

## 5. Plan

In this order:

1. Lock and archive composed: an operation refused or killed in any stage while
   another waits.
2. `ToolExecution` and `GatewayPool` composed: the disconnection of a client that
   gives up is what aborts the pool.
3. Start and failure of the gateway's tool servers.

## 6. What is not modelled, and why

* String work: option and TOML syntax, prompt texts, rendering of summaries,
  tokenising, matching within a line, the wording of reports.
* The context budget: sums and minima over token counts, which `ArchiveLifecycle`
  replaces by the number of turns kept.
* The gateway's configuration and HTTP plumbing, the export of tool lists, the start
  of tool servers; the dump of requests.
* The web and search tools, which hand one request on and keep nothing.
* Protocol types: names and parsers that the packages share.
* `promptpile-plan`, which is an empty scaffold.

Two hazards have no property. Contenders for the lifecycle lock that publish, see each
other and give way in step may all fail: attempts are bounded and waits are random, and
nobody promises a winner. And messages may arrive between the last comparison of a
conversation and the first move into staging: nothing checks again, and the documents
ask the orchestrator to keep completions away, so the archive run closes those stages
to `Append`.
`PROJECT.json` says for each part what covers it.
