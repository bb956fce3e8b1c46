# A TLA+ model of the CircleCI CLI

This directory specifies the parts of the CLI in which something runs beside
something else: goroutines that answer a terminal program late, processes that share
a file, a server that changes between two requests. Each part is a TLA+ module
translated from the Go code and checked with TLC on a small instance, and its safety
properties are proved for every instance with TLAPS. The commands that make their requests one
after the other are modelled too, by one machine that runs a table for each of them:
what is beside them is the server, which loses answers and serves others as well. `PROJECT.json` maps each definition to the
lines it stands for, lists the runs and the hazards, and gives for each property a
plausible bug of the code (a definition headed `Fault:` in the modules) that breaks it.

Contents: [the system](#the-system), [the modules](#the-modules),
[the runs](#the-runs), [fairness](#fairness), [the proofs](#the-proofs),
[where the code and its documents disagree](#where-the-code-and-its-documents-disagree),
[what is not modelled](#what-is-not-modelled), [the plan](#the-plan).

## The system

The CLI is a tree of commands. Most read their flags, make a few requests and print
the answer; their state is the server's. What is stateful, concurrent or distributed
over several processes is the following.

| Component | State it keeps | Operations | Talks to |
|---|---|---|---|
| Terminal watcher (`internal/ui/run_watch_flow.go`) | whether a fetch is in flight, when the next poll is due, the back-off, the generation of the clock, a result | fetch answers, clock ticks, `r`, `q`/`esc`/`ctrl+c`, quit | the API by its fetches; `watchInteractive` reads its result |
| Line watcher (`internal/cmd/run/watch.go`) | the last poll, interval, deadline | search for a commit's run, poll in several requests, decide, sleep | the API |
| Settings store (`internal/config/config.go`) | the YAML file; in memory the settings loaded | load, nine setters, device ID on first load | file locks, keyring |
| Keyring (`internal/keyring/keyring.go`) | one token for each host | set, get, delete under a 3 s limit | the Secret Service or its like |
| Login, logout, signup, setup, setting commands | the settings they loaded | one or two saves each | settings store |
| Release checks (`internal/update`, `internal/cmd/extension`, `internal/config/state.go`) | `state.yml`: for the CLI and each extension when it was last checked, and the release found | check in the background, finish, check in the foreground | the release source; every other CLI process |
| Run browser (`internal/ui/run_get_flow.go`) | a stage, what was picked, what was fetched for it, a pager with a stream of output | twenty-odd keys, fourteen kinds of message | the API, a browser, downloads |
| OAuth login (`internal/oauth/login.go`, `internal/ui/login_flow.go`) | a screen, the host and the way picked, a result; a loopback server and a channel for one result | keys, callback, wait, timeout, exchange, identity, cancel | a browser, the token endpoint, the settings store |
| Extension store (`internal/extension`, `internal/cmd/extension`) | a directory, a binary and a manifest for each extension | scan at the start of every command, install, upgrade, run, remove | the registry of releases, release checks |
| Commands (`internal/cmd/*`, `internal/cmdutil`, `internal/apiclient`) | the step they are at, what they have looked up, what the user has agreed to | checks, prompts, requests, pages of lists, files | the API through the HTTP client |
| Telemetry (`internal/telemetry`) | queued events | track, close, hand over to a detached process | a child process |
| HTTP client (`internal/httpcl`) | the tries of a call | a request with retries under one deadline | the API |
| Bounded work and downloads (`internal/bulkhead`, `internal/artifacts`) | a queue, its workers, the first error; the files written so far | run a slice of work; download one artifact after the other | the API, files |
| Log rendering (`internal/termrender`) | a screen | replay of control characters | the pagers |
| Everything else | none | see `PROJECT.json`, "components" | the API |

What is hard to get right in them:

- **Messages out of order.** A bubbletea program handles one message at a time, but
  every command a handler returns runs on its own goroutine and its message comes back
  whenever it likes, also after the program has decided to end.
- **A snapshot that is none.** One poll of a run takes a request for the run, one for
  its workflows and one for each workflow's jobs, while the server goes on.
- **Processes on one file.** Every command loads the settings at its start, long before
  it saves; the lock is taken, dropped and taken again; the write is not atomic.
- **Two places for a token.** The file and the keyring cannot be written together, the
  keyring may refuse, vanish, or act after its caller has given up.
- **The end of the process.** A background check is cancelled when the command is over,
  and simply dies if the command failed, in the middle of a write if need be.
- **A request of which nothing is heard.** A call is made again when no answer comes, and
  the first may have been carried out, or may be carried out later, after the command.
- **A name that moves.** A command looks a name up page by page, asks the user, and then
  acts on the id, while others rename and delete.
- **Files without a lock.** A binary and its manifest are written one after the other and
  removed one by one, and every command reads the manifests when it starts.

A component is correct when: a watcher ends, with an outcome that the polls, the clock
or the user account for; the store behaves as if each save were one indivisible change;
a token is used while it is the one last saved, and is in one place; the record of
releases tells what was true; a screen shows what belongs to what was picked, and a
spinner always has something to wait for; a command ends nothing that was not agreed to,
and its exit code tells what happened; a login stores a token where it was accepted; what
runs as an extension is what was installed. The entries of `PROJECT.json`,
"hazards", name the lines at which these could go wrong and the properties that would
tell.

## The modules

    RunWatchPromise       what either watcher promises
      RunWatchFlow        the terminal watcher        MCRunWatchFlow, RunWatchFlowProofs
      RunWatchLoop        the line watcher            MCRunWatchLoop, RunWatchLoopProofs
    SettingsRegister      what the settings store promises
      ConfigStore         the store, its keyring and the commands
                                                      MCConfigStore, ConfigStoreProofs
    UpdateCheck           release checks on state.yml MCUpdateCheck, UpdateCheckProofs
    RunGetFlow            the run browser             MCRunGetFlow, RunGetFlowProofs
    LoginFlow             login and its OAuth flows   MCLoginFlow, LoginFlowProofs
    ExtensionStore        the store of extensions     MCExtensionStore, ExtensionStoreProofs
    CommandSteps          the vocabulary of the commands
      CommandRun          the machine that runs one   CommandRunProofs
      ApiRequests         the requests of the API client
        CommandHelpers    what the commands share
          *Commands       a table for each command    MCCommands, MCHalfDone

An indented module under `RunWatchPromise` or `SettingsRegister` has it as an instance
and implements it under a refinement mapping; under `CommandSteps` it extends it. `MC*` modules give the constants of the runs and nothing else.

### RunWatchPromise

Four facts: the last poll, whether the timeout has passed, whether the user has asked
to stop, and the outcome. `Justified` is the set of outcomes the first three allow. It
says what `watch.go` says in the comments of both watchers, that the two must agree,
without saying how either works.

### RunWatchFlow

`ui.RunWatchFlowModel` with the part of `watchInteractive` that makes an exit code of
its result. One variable for each field that handlers read (`polling`, `nextPoll`,
`wait`, `nextWait`, `clockGen`, `done`, `result`), and a set for each kind of message
that may be outstanding: `fetches`, `ticks`, `quitting`. Handlers are actions:
`onClock`, `dropTick`, `onStateOk`, `onStateErr`, `onKeyQuit`, `onKeyRefresh`;
`beginPoll`, `armClock` and `quit` are the helpers they share, as in the code. After
`quit` the handlers stay enabled until `QuitMsg`, because the event loop goes on
delivering until then; this is where most of the interest is. `Signal` cancels the
context of the program, which then returns without its model (`Killed`), and
`DisplayFails` is the other way in which it does: the terminal fails it, and
`watchInteractive` reports that instead of an outcome.

Time is an integer; `Second` of its units make a second, so that polls may fall between
two seconds. `Advance` does not pass a tick that is due by more than `MaxLate`: a timer
fires, though not exactly.

### RunWatchLoop

`waitForRunBySHA`, then `watchUntilDone`. The server's half is external: a run is
created, starts, its workflows start, their jobs fail, they end, the run ends, in any
order an API user can see. The client's half has a `pc` and one action for each request
(`search`, `getRun`, `getRunWorkflows`, `getWorkflowJobs`), so the server may move
between any two. A read takes up to `ReadTimeout`, the limit the HTTP client puts on it,
and `readFails` may happen to each. `deriveDisplayStatus` and `allWorkflowsDone` are the
functions of the same names, on what this poll has read; `decide` is the `switch` at the
end of a poll, in the order of its cases.

### SettingsRegister and ConfigStore

`SettingsRegister` says: each file is a register, each save applies one setter's
callback to what the register holds, and, where writes may be torn, a file may lose
everything at once. `ConfigStore` has processes that run commands: take the shared lock,
`load`, drop it, make a device ID under the exclusive lock if the file has none, `run`
the command's own decision, and for each of its saves `XLock`, `modify`, `useKeyring`,
`truncate`, `flush`. `os.WriteFile` is two actions since a process may die between them.
`target` says which setters are given `--config` and which write the default file
whatever it says, as in the code. `useKeyring` has the four answers of
`internal/keyring`: done, unavailable (the token goes to the file), another error (the
save fails) and given up on, in which case the operation stays in `late` and may take
effect at any time. `load` is one action, with or without an answer from the keyring
(`loadAs`): without one, a token that the file does not hold is not found.

The environment is chosen by `Faults`: the provider comes and goes (`absent`), refuses
(`locked`), answers too late or the user interrupts (`timeout`), a process dies between
two steps (`crash`), or in the middle of a write (`torn`). The refinement maps a file
that is being filled to what it is being filled with (`settled`), so that the save takes
effect when the file is truncated: from then on nobody else can see it before it is
complete, or, if it never is, the register loses its content as the abstract one may.

### UpdateCheck

`update.Check` as the background of a command and `promptForUpdate` of an extension in
the foreground of another, on one `state.yml`. Reading under the shared lock is one
action, as nothing can come between; the request is two, its making and its answer, with
time in between; saving is three (lock and read again, empty the file, fill it). `Finish`
cancels; `Exit` is the end of the process under its check, after a failed command. A
release is a number and its publication a time, so "the newest release at time t" can be
said exactly. The clock is coarse: only requests and idle processes let it move.

### RunGetFlow

The stages of `runGetStage` and, for each key, the stage it leads to, what it picks and
what it fetches; for each message, what `Update` does with it on whatever stage it
arrives. Lists are represented by what they were fetched for: `data.jobs` is the
workflow whose jobs the picker holds, so "shows the jobs of the workflow that was
picked" is `data.jobs = sel.workflow`. The pager holds chunks, each with the step it is
from and its place in that step's output, and its stream has the epoch, the offset and
the three flags of the code. `inflight` holds what may still arrive; two equal messages
are kept apart. A history variable, `strayed`, remembers
that a browser's report found the user elsewhere; the flow is not followed further then,
since from there on everything can be on the screen with anything (see below).

### LoginFlow

`ui.LoginModel` with the commands it starts, and `runLoginInteractive` and its siblings
around it. A stage for each screen; `inflight` holds the commands not answered yet and
the quit, and each answer is handled on whatever screen it finds the user. A flow is a
loopback server (`up`) and the channel for one result (`box`): `handleCallback` puts
the first thing the browser brings, a wrong state too, and drops the rest. The model
keeps one flow, the last that was started, while an earlier one may still be waited for.
`outcome` is what the command makes of the result once the program has ended, in the
order of its `switch`. `printURL`, `printWait`, `printExchange` and `persistLoginToken`
are the login without a terminal, step after step. What saving does is the subject of
`ConfigStore`; here it succeeds or fails.

### ExtensionStore

A directory, a binary and a manifest for each extension, and processes that start, read
every manifest (`visit`, `decode`: `FindAll` under `cobra.CheckErr`), and then install,
remove or use one. `store.Write` is opened into its steps: the binary is opened, which
empties it, copied in parts, and the manifest emptied and filled; `writeFails` may follow
any of these and leaves the binary as it is, which is what the code's cleanup does. Before
that `makeDir` makes the directory, in a step of its own, so that one without a binary
may be left.
`remove` lists the directory and unlinks what it listed, one by one. A process keeps
writing to a file that was unlinked under it (`open`, `filling`). An upgrade that fails
runs what is there (`giveUp`). `Kill` may come anywhere. The registry is external.

### CommandSteps, CommandRun and the tables of the commands

A command that talks to the API is a sequence of steps, in the order of its Go code:
`Need` (a check that may end it), `Ask`, `Consent`, `Call`, `Find` (list page by page
and match a name), `WriteFile`, and `Whether` for what it finds out. `When` and `Unless`
name the facts on which a step depends, `Soft` the failures after which the command goes
on, `Coded` and `Missing` its exit codes, `ForEach` and `Again` its loops. `ApiRequests`
has an operator for each method of `internal/apiclient`, by what it does to the server
and how it names its subject; `CommandHelpers` the resolutions of organizations and
projects and the lookups that commands share. Each `*Commands` module is a family of
`internal/cmd`: an operator for each command, whose lines `PROJECT.json` maps.

`CommandRun` gives the steps their meaning; its constant `Program` maps the commands to
their tables. `check`, `ask`, `ConfirmOrForce`, `writeFile` need no server. A call may be
carried out (`Succeed`), refused (`Refuse`), get no answer (`Unanswered`), lose the
answer after it was carried out (`LoseAnswer`), or be given up while it is on its way
(`Delay`), in which case `Arrive` may carry it out even after the command has ended;
`retry` tries again up to `RetryMax` times. `turnPage` and `choose` are a lookup, of which
each page is another request, and after the last page with anything on it the server may
send empty ones for as long as it likes (`anotherPage`). `askAgain` puts a prompt again
whose answer names nothing, as often as the user gives one. `Repeat` is the loop over
several things, whose number the command knows. `Elsewhere` is the other users. The server keeps two things
of each kind a command looks up, changes or ends, one to a page.

A name is looked up by a `Find` where something the command changes is reached by it:
contexts, resource classes, the component of a rollback. Where nothing is (the environment of a
rollback, which it deploys to but does not change), the list is a plain `Call` and what it
lacks a `Need`.

What is assumed of the server: a list that is taken in one answer (`listOnce`) is
complete, and a name is borne by one thing at a time. Reads that the code makes in
parallel are taken one after the other, since no step depends on their order.

`MCCommands` puts all the tables together, but for the four of `MCHalfDone`, which break
two of the properties the others have (see the disagreements): they go on behind a prompt
that was left, or change something before they check what may end them.

## The runs

| Run | Question | States |
|---|---|---|
| `run_watch_flow` | Does the terminal watcher keep one fetch and one clock, show each second, leave a whole wait before each poll nobody asked for, honour a cancellation, keep the promise and end? | 1 005 000 |
| `run_watch_loop` | Is a success true of the run itself? Does a timeout come when it is due, and lose to an answer that ends the watch? Does `--sha` give up only when it should? Promise, end | 1 190 000 |
| `watch_no_workflows` | Does a timeout mean the run had not ended? Not if it has no workflows | violated |
| `config_race` | Does the store behave as atomic registers under every fault? Are writers alone, tokens filed under their hosts and in one place, do commands end? | 225 000 |
| `config_calm` | Without crashes: is the token of the last save the one used, whatever the keyring refuses meanwhile, but for the two cases that the code accounts for? Do all processes share one device ID? | 3 190 000 |
| `logout_from_file` | Does a logout remove a token that is in the file? Not if the keyring works | violated |
| `update_check` | Is what `state.yml` says backed by what was published, are notices timely, does no check undo another's, does a command that is over get away from its check? | 736 000 |
| `run_get_flow` | Are screens consistent with what was picked, spinners justified, streams complete and running, and does a screen stay until a key leaves it? | 1 020 000 |
| `login` | Is each code exchanged by its own flow and each token stored where it was accepted, unless the user went on while an answer was due? Does a cancelled login store nothing, and does no login wait for a browser for ever? | 1 210 000 |
| `commands` | For each command: is nothing ended without a yes, does leaving a prompt end it, does it touch only what bore the name, are its exit code and its "not found" true, does it change nothing before it fails by itself, does it end once the server's lists and the user do? | 554 000 |
| `prompt_left` | Does leaving a prompt end the four other commands? It does not | violated |
| `extension_store` | Is what runs what was installed? Does every command start, whatever is installed or removed in part? | 661 000 |

### Bounds, and why they are enough

- `RunWatchFlow.cfg`: two units to a second, polls every three up to five, a timeout at
  nine, time to twelve. Polls fall on seconds and between them, the back-off reaches its
  cap and a poll comes after it, the timeout falls while a fetch is in flight and while
  none is, and three units remain for what comes after. Two keys are needed (`r` then `q`, `q` then `r`, `r`
  twice); a third repeats one of these, as a key acts only on the schedule. The theorems
  below are for all values.
- `RunWatchLoop.cfg`: two workflows, since what matters is one moving while the other is
  read; all intervals are one or two, so that the deadline falls before, in and after a
  poll, and the search for a commit gives up or not. `MaxTime` is beyond the latest time
  at which the command can return, so it cuts off nothing. `WatchNoWorkflows.cfg` starts
  from a run that exists.
- `ConfigRace.cfg`: two processes on two files with two hosts and a token of each. The
  races of the code are between two holders of a lock and a file each; the commands are
  chosen so that each kind of target, each setter that touches host or token and the
  check that signup makes are there. A third process, and `setup` with its two saves, are
  in `ConfigCalm.cfg`, with one file and a keyring that refuses (`locked`) and whose
  provider stops and starts (`absent`), so that a token falls back to the file, is hidden
  by an older entry, and is found again. The processes of the
  latter are interchangeable, and it checks no liveness, so symmetry is sound.
- `UpdateCheck.cfg`: two processes, the CLI and one extension, a window of two, requests
  of up to one, two releases, time to four: two full windows, a release that comes out
  while a request is on its way, and answers that overlap each other. A notice must be of
  what was the newest release at some time later than a window and a request ago, and the
  first release comes out at one: at time four, when the second came out at one too, a
  cached answer used a unit too late breaks this. It checks liveness, so no symmetry is
  used.
- `RunGetFlow.cfg`: one run, two workflows of a job each, so that a picker can hold
  something else than what was picked; one step, whose output has two chunks and comes
  whole, in parts or not yet; three openings of the pager, so that two streams left
  behind may interfere with a third; one browser at a time. Up to two executions (none,
  one, several are the cases of the code). Once a browser's report has moved the user the
  flow is not followed further. Deadlock is not checked because the program ends.
- `LoginFlow.cfg`: two hosts, so that a token can be stored for the wrong one; a token to
  paste beside those of the browser; two OAuth flows, so that one's code can meet the
  other's verifier. A third flow repeats the second.
- `Commands.cfg`: each table from its first step to its end, with each set of options.
  Two tries after the first, so that a call can be carried out, lost, and carried out
  again; one repetition of a step made for each of several things, so that a failure
  comes at its first or second round; prompts put again and pages asked for without a
  bound, as in the code;
  two moves of others, enough to take the name from one thing and give it to another
  between two pages; two things of a kind, one to a page, so that a lookup crosses a page.
  The theorems are for any of these numbers but the two things of a kind. `PromptLeft.cfg` has less of
  each.
- `ExtensionStore.cfg`: two processes, each of which runs one command after another
  without end, so failed installations are repeated and removals resumed; one official
  extension, since a process acts on one and passes over the rest in the same way; two
  releases of two parts and of one, so that a copy can stop half-way and the shorter
  release can leave a tail of the longer. The theorems are for any numbers of them.

The bounds are in the guards of the actions and the constants' comments name them.

## Fairness

Safety properties need none. For the others:

- The terminal watcher: ticks are delivered, time advances, a quit is handled, a killed
  program returns. Timers and the event loop do that. Nothing is assumed of fetches,
  keys or signals: with a timeout the watch ends though the API never answers.
- The line watcher: its own next step, and the advance of time. That step may be
  `readFails`: each request comes back or runs into the HTTP client's limit.
- The settings store: each process takes its next step if it can. `TryLockContext`
  retries for as long as the command runs; as it does not queue, a process could in
  theory be overtaken for ever, but each process here makes finitely many saves, so
  weak fairness is enough and no more is assumed.
- A command: its own next step (`progress`). Every call comes back, with an answer or with
  `Unanswered`: the HTTP client has a deadline. Nothing is assumed of the others, or of
  requests that were given up. That is not enough for `CommandEnds`, since two loops of the
  code have no bound: `context.go:59` asks for pages while the server sends the token of
  another, and `link.go:202` asks for a project while the one entered does not exist. The
  property says so: it promises an end if the lists end (`ListsEnd`) and the user does not
  go on for ever (`UserSettles`). Without either of the two TLC finds a command that
  never ends.
- Login: the wait for the browser ends, by its timer if nothing comes (`waited`,
  `printWait`), and a quit is handled. Nothing is assumed of the exchange of the code and
  of the identity, which have no deadline of the flow's own, nor of the browser or keys:
  `WaitEnds` says that the login ends or has come to one of these requests.
- The extension store has no liveness property: every process may be killed.
- The release check: each check takes its next step if it can, and a cancelled request
  fails. The lock need not become free: the wait for it ends with the context.
- The run browser has no liveness property, as no message has to arrive. `NeverStuck`
  and `StreamGoesOn` say instead that what would end the wait is on its way.

## The proofs

`RunWatchFlowProofs` (for all times, intervals, poll results and keys):

- `TypeCorrect`, `FetchSafety` (`OneFetchInFlight`), `ClockSafety` (`OneLiveClock`).
- `PaceSafety` (`PollsPaced`): a poll that no key asked for starts a whole wait, and so at
  least the shortest interval, after the poll before it, whoever asked for that one. It is
  an action property over the time of the last poll (`polled`, a history variable).
- `PromiseKept`: the watcher implements `RunWatchPromise`; `CancellationSafety` follows
  from the same invariant.
- `ShownSafety` (`EverySecondShown`). It is arithmetic more than anything: `NotMultiple`
  says that a time short of the next multiple of a second is none, `DelayShows` that
  `clockDelay` never reaches past the first change of either figure, and `ArmShows` that
  this is so again whenever a clock is armed.

None of these invariants is inductive but the first two. `ClockInv` adds that no tick is
ahead of the current generation, without which arming a clock could not be seen to
supersede every other. `PaceInv` adds that a poll that is scheduled lies a whole wait
after the last one started, and that the wait it lies after is not below the interval. `EvidenceInv` adds what may be outstanding once the model is done:
a poll that ended the watch, or tripped `--failfast`, leaves no fetch behind, so nothing
can replace the state its outcome was read from; each flag of the result has its evidence;
and an outcome was either read from the result or is the one of a killed program.
`StepPromise` maps a poll's answer to `Poll`, a tick of time past the timeout to
`Elapse`, a key or signal to `Stop`, the end of the program to `Return`, and the rest to
stuttering.

`RunWatchLoopProofs` (for any finite set of workflows, any times, any course of the run):

- `TypeCorrect`, `Success` (`SuccessIsTrue`), `Punctual` (`TimeoutIsDue`), `Patience`
  (`NotFoundIsLate`).
- `PromiseKept`: this watcher implements `RunWatchPromise` as well, so the two agree.

A poll is many reads, and what it decides on was never all true at once. `ServerInv` is
what makes it do: what has ended on the server stays as a read has seen it, and a workflow
with a failed job cannot end well. `VerdictInv` ties the decision to the reads in hand.
The bounds on the time of a timeout and of "not found" need the latest moment each read
can still be out (`PollInv`, `SearchInv`), counted in the workflows left to read, and that
no timer is overslept (`TimerInv`).

`ConfigStoreProofs` (for any processes, files, commands and faults):

- `Invariance`: the inductive invariant `Inv`, of five parts: types; a process runs a
  command it was given; a process that saves has a save in hand; locks are held by those
  who think so, and never both kinds (`LockInv`); and what a writer holds is the change
  of its save to the file as it is on the disk now (`BufInv`), which is the reason why
  locks, rather than luck, make a save atomic.
- `TypeCorrect` and `Isolation` (`WritersAlone`) follow from it.
- `Refines`: the store implements `SettingsRegister`, with a lemma for what a step of one
  process leaves of every file it does not write.
- `DeviceAgreement`: if no write can be torn, processes that use the same file know it by
  the same device ID. The assumption is needed: a torn write loses the ID, and a later
  command makes another.
- `Filing` (`KeyringFiledUnderHost`) under `FiledTogether`, every save of a token names the
  token's host; `NoPlaintext` (`KeyringMeansNoPlaintext`) under `TokenLast`, a command's
  save of a token is its last; `TokenUsed` (`SavedTokenIsUsed`) under `Calm`, one file, one
  host and a keyring that may refuse, stop and start. What a load finds is the token of the
  last save that succeeded, except that a save which fell back to the file, as it reported,
  may be hidden by an older entry of the keyring, and that a load to which the keyring
  gives no answer finds nothing if it is the keyring that holds the token. Their invariants say of what is in hand what
  the property says of what is done: the saves to come and the operations given up on are
  filed right (`FiledInv`); who has put a token in the keyring is writing a file without
  one (`KeptInv`); file and keyring agree on the token, or somebody is about to make them
  agree (`AgreeInv`).

The three conditions are on the commands and faults that are given. They are needed: a
`setting token` whose token is of another host than the one that is set files it wrong,
`SetToken` before `SetHost` would write the file again, and an operation that takes effect
after its caller has given up on it may bring an old token back. TLC evaluates them for the commands of each run
(`CommandsAssumption` in `MCConfigStore`).

`UpdateCheckProofs` (for any processes, extensions, releases, delays, windows):

- `TypeCorrect`, `Backing` (`RecordIsBacked`), `Advances` (`RecordsOnlyAdvance`) and
  `Timeliness` (`NoticeIsTimely`).

The file is emptied and filled by one process while others have copies of it in memory,
so the invariant says the same of all of them: no copy knows of a release later than it
was out, nor of a time still to come (`BackedInv`). What is stored is made of an answer and
of the file as it is at the save, hence `LockInv` (who writes holds what it read under
the lock, with its own part replaced) and `AskedInv` (the answer was the newest release
since a moment no longer ago than a request may take).

`RunGetFlowProofs` (for any runs, workflows, jobs and steps, any number of openings):

- `TypeCorrect`, `Answered` (`NeverStuck`), `Shown` (`ShownIsPickedUnlessStrayed`), `Paged`
  (`PagerShowsTheStep`), `Streamed` (`StreamGoesOn`), `Stays` (`StaysPut`).

None of them can be had alone. That a picker is right after an answer needs the answer to
be for what is picked now (`Apt`); that needs it to be the only one awaited, and by this
screen (`ForeInv`); that, since a stray chunk can bring up the pager, needs each stream to
be followed by one message at most, under a pager nothing else is awaited by, which has
read what it asked for and knows where it is (`StreamInv`, `Follows`); and what an earlier
stream left on its way is told from it by its epoch (`EpochInv`). Side trips are kept right
while they are open (`Fits`, `Back`): what esc goes back to is on no screen meanwhile. `Inv`
says this while the flow goes on, and after it only what was promised. Most of its steps
are of few kinds, so the lemmas are too: one thing asked for with nothing else on its way
(`OneAsked`), a screen entered with nothing on its way (`QuietPlace`, `QuietPage`), a stream
that goes on by one message (`OneLive`). `FreshMessage` is a pigeonhole: equal messages can
always be told apart by a number no larger than there are messages.

`LoginFlowProofs` (for any hosts and tokens, any number of OAuth flows):

- `TypeCorrect`, `Sound` (`SoundUnlessStrayed`) and `Cancelled` (`CancelledSavesNothing`).

Until the user strays, one command at most is unanswered, and it is about the host, token
and flow that the model holds (`InFlightInv`); that is what makes an answer safe to
believe, and what a second key on a confirmed selection destroys.

`CommandRunProofs` (for any table of steps, any number of tries, repetitions and moves):

- `TypeCorrect`.
- `Unconfirmed` (`NothingUnconfirmed`): if in a table what cannot be had back comes after
  a consent that is due whenever it is (`ConsentFirst`), then nothing is ended without a
  yes. The invariant says that a command that is past a due consent has it, and that only
  steps that were reached are on the wire or carried out.
- `Truth` (`ReportsTruth`): if whether a step is due is known when it is reached
  (`DueIsKnown`), each due request behind the step the command is at has been carried out.
- `NoEnds` (`NoEndsIt`) under `NoIsTheEnd`, no prompt may be left without ending the
  command; `LocalFailure` (`LocalFailureChangesNothing`) under `ChecksFirst`, whatever may
  end the command for a reason of its own comes before its first change; `Named`
  (`OnlyTheNamed`) under `NamesFirst`, a name is looked up before what it stands for is
  changed, and a lookup that is due may not be passed over. For the last, `NamedInv` says
  that what is held, listed, on the wire or hit has borne the name, and that behind a lookup
  that was due something is held.
- `MissTrue` (`MissIsTrue`): what bears the name stands on a page not yet read, or has been
  found, or at some moment since the start nothing bore it. This is the invariant that
  makes a lookup in several requests as good as one in a single one.

`ConsentFirst`, `DueIsKnown`, `NoIsTheEnd`, `ChecksFirst` and `NamesFirst` are conditions on
the tables alone, which TLC evaluates for every command in `MCCommands`
(`OrderAssumption`): with them the theorems say of the real commands what the run shows of
them with two tries. The tables of `MCHalfDone` do not meet `NoIsTheEnd` or `ChecksFirst`,
and break the properties.

`ExtensionStoreProofs` (for any processes, extensions, releases and sizes of binaries):

- `TypeCorrect`.
- `Starts` (`StartsUnlessStirred`): while no manifest is torn and none changes, whoever
  walks finds a manifest wherever it saw one.
- `RunsWhatWasInstalled` (`RunsWhatItSays`). The property speaks of a process that runs;
  the invariant has to follow a binary from its opening on: a binary whose last write
  neither failed nor had a rival has one writer and holds what that writer has copied
  (`WriterInv`), at rest it is the one its manifest names (`RestInv`), and a process under
  which nobody has changed the extension still has in hand the manifest that is there
  (`HandInv`).

They assume only the named assumptions on the constants (`TimesAssumption`,
`PollsAssumption`, `LoopAssumption`, `StoreAssumption`, `CheckAssumption`,
`FlowAssumption`, `HostsAssumption`, `CountsAssumption`, `ProgramAssumption`,
`ExtensionAssumption`) and the conditions above, which TLC evaluates in each run. To check
them: `tlapm` on each of the eight `*Proofs.tla`; the longest take some minutes.

Only model-checked: liveness (`Terminates`, `CommandsEnd`, `FinishReturns`, `WaitEnds`,
`CommandEnds`), which is out of the prover's reach. Two properties, `TimeoutMeansNotComplete`
and `LogoutRemovesToken`, are violated and so have no theorem; `NoEndsIt`, which the tables
of `MCHalfDone` violate, has one about the tables that meet its condition. Every safety
property of a run that passes is stated by a theorem, of every instance or of those that
meet a named condition.
The types (`TypeOK` of each module) are proved and not checked again by a run.

What the theorems do not remove are the abstractions, and what some properties leave out
(see the notes of the hazards in `PROJECT.json`): `ReportsTruth` asks of a step made for
each of several things that one was carried out and that no failure passes for a success;
`RunsWhatItSays` leaves an extension out after a kill between its binary and its manifest
until it is installed again; `KeyringFiledUnderHost` says of a late keyring operation that
it files no token wrong, not that it overwrites no newer one. `RunGetFlow` and `LoginFlow` are not
followed beyond the point where they stray; `ExtensionStore` and the commands treat the
server, and `ConfigStore` the keyring's provider, as the section on the modules says; and
a bound such as `MaxEpoch` or `RetryMax` is any number, not none.

## Where the code and its documents disagree

Shown by a run that TLC ends with a counterexample:

- `watch.go:460`: a run that has ended without a workflow is never done for the watch,
  which polls it to the timeout and says that it "did not complete".
- `config.go:417`: `logout` deletes the keyring entry first and stops if there is none;
  a token that an absent keyring had sent to the file cannot be removed once it is back.
- `project/create.go:97`: a prompt that is left with esc or ctrl+c answers with an empty
  string and no error, which is taken for the default: the project is created and the
  command exits 0, where `agents/09-robustness.md:12` has ctrl+c exit non-zero. The prompts of
  `pipeline run` and `deploy init` are left the same way.

Seen while reading, and part of the models, but stated by no property:

- `run_watch_flow.go:126` promises exactly one of four outcomes; messages that arrive
  after `quit` can set a second. What is reported is decided by the order of a `switch`,
  and the order is the right one (`CancellationSticks`).
- `update.go:162`: "at most once per CacheWindow" holds for one process, not for two.
- `run_get_flow.go:1704`: the report of a browser takes the user to the artifact browser
  of a job that need not be the one picked by then (`strayed`).
- `get.go:965`: a run of which one workflow succeeded and another was not run has
  succeeded, and `watch` exits with 0, which its help gives to "all workflows succeeded"
  (`watch.go:85`).
- `watch.go:459`: a setup workflow that has ended, alone in the list, ends the watch
  before the workflows it continues with are listed, where the help says that it blocks
  until the run reaches a terminal state (`watch.go:81`).
- `logout --config F` reports on F but changes the default file (`logout.go:88`,
  `config.go:208`); only login, the device ID and `UnsetUpdateCheck` are given the path.
- `config.go:528`: an entry of the keyring hides a token that was saved to the file while
  the keyring was down, although `login.go:74` says the saved token is used.
  `SavedTokenIsUsed` names this as the only way in which a load finds another token than
  the one last saved.
- `signup.go:144`: whether there is a token to protect is decided on the settings of the
  command's start.
- `run_get_flow.go:996`: after `ctrl+c` "no further input is processed", but messages
  are: a late fetch can put a picker back on the screen, or turn the cancellation into an
  error, before the quit arrives.
- `login_flow.go:292` and `:459`: the selection of a way to log in stays confirmed, so a
  second key starts a second flow, and the code of the first is then exchanged with the
  verifier of the second, where `oauth/login.go:90` says that the verifier of its own flow
  must be presented. The server refuses it, and the login fails.
- `login_flow.go:418`: after esc and another host, the identity of the token entered
  before still arrives, and that token is stored for the new host, unverified.
- `extension/store.go:164`: the cleanup of a failed write removes a path taken relative
  to the working directory, so a failed upgrade leaves a truncated binary, which is then
  run under the old manifest (`spoiled`).
- `extension/store.go:88`: an empty manifest, as a kill between the two halves of
  `os.WriteFile` leaves, keeps every command from starting, `extension remove` included,
  although `install.go:53` says the manifest is there "so the extension can be upgraded or
  removed later" (`stirred`).
- `runner/config.go:98`: the token is made before the output file, so a file that cannot
  be written leaves a token nobody knows, against `agents/09-robustness.md:5`;
  `project/create.go:142` may create an organization before the slug is checked. Both are
  in `MCHalfDone`.

## What is not modelled

Rendering, wording, colours, cursors and search prompts; YAML and JSON; the environment
variables that override settings; the conditions under which no release check is started;
version syntax. The server, the keyring's provider, the registry of extensions, the
browser and the signals are external: they are modelled by what the code must be ready
for. Of the components that `PROJECT.json` has as `not_modelled` or `partly`:

- Telemetry: one `Close` by the command's own goroutine hands the queue to a detached
  process, and nothing reads what became of it.
- Log rendering, and the transformations of configs, packs and file trees: pure functions
  from text to text, over an alphabet too large to enumerate with any depth.
- Orb init and onboarding: wizards that call git and other commands in a fixed order;
  what can go wrong in them is in those programs.
- The bounded pool of `internal/bulkhead`: no command uses it. The commands that read in
  parallel wait for all reads and take the first error; `JobCommands` and `RunCommands`
  have them one after the other.
- Extensions found on PATH are run without being read or written.
- Detection of agents, release scripts, fakes for the tests.

## The plan

In the order in which behaviour matters to a user; the first seven steps are done, the
eighth and the ninth are not, and of the tenth the proofs of safety are.

1. Watchers: `RunWatchPromise`, `RunWatchFlow`, `RunWatchLoop`, and the proofs about the
   second.
2. Settings: `SettingsRegister`, `ConfigStore`, and their proofs.
3. Release checks: `UpdateCheck`.
4. The run browser: `RunGetFlow`.
5. OAuth login: `LoginFlow`.
6. Extensions: `ExtensionStore` and its proofs.
7. Commands, with retries under one deadline: `CommandSteps`, `CommandRun`, the tables,
   and the proofs about the machine.
8. Telemetry's queue and its single close.
9. Pure algorithms: the replay of control characters in `termrender` against a reference
   definition of a screen, over a small alphabet.
10. Proofs of the safety of every part (done), and of what the theorems rest on by their
    conditions: that each family of tables meets `ConsentFirst`, `NamesFirst` and
    the others as a theorem about the tables rather than as TLC's evaluation of them;
    `RunGetFlow` followed beyond a browser's stray report.
