# A verification model of key-agent-client

`keyclient` is a Python client of the headless KeY theorem prover: a library, the command line
`key-agent`, and an MCP server for agents. It keeps little state of its own. What makes it hard to
get right is what it talks to: a server that is slow, crashes, forgets, and works for several
clients at once, and instance records that other processes write while the client reads them. A
wrong step here ends in the one mistake the package is written to avoid: reporting a proof as closed
that is not, or changing a proof twice.

Paths such as `rpc.py:63` are relative to `src/keyclient/` of the repository; `docs/` and `tests/`
are at its root.

## Inventory

| Part | State | Operations | Correct when |
| --- | --- | --- | --- |
| Wire layer `rpc.py` | url, timeout, request counter; one connection per call | `call` | a request is carried out at most once; what is reported is what happened; only `KeyClientError` is raised; every call ends |
| Discovery `discovery.py` | none; reads records other processes write | `list_instances`, `resolve` | the server picked is alive and the best there is; broken records cost themselves |
| Client `client.py` | a transport, an `Instance` | one request each, `wait_for_task` (a polling loop), `events` (a stream) | waits end; a task's end is told apart from a proof's state |
| Command line `cli.py` | the progress of one command | 13 subcommands | the exit status tells closed, not closed and failed apart; `--json` prints one object |
| MCP server `mcp.py` | settings; a server found anew on every call | 6 tools | a tool never lets an unproved contract sound proved; an answer describes one state of the proof |
| Models `models.py`, `exceptions.py` | frozen records | properties | `finished`, `succeeded`, `closed` are what the server said |
| KeY server (another program) | environments, proofs, tasks, instance records | 24 methods | external |

How they interact: `cli.py` and `mcp.py` find a server through `discovery.py` or are given a port,
then make a sequence of requests through `client.py`, each one a call of `rpc.py`, each answered
before the next is made. Work on a proof (search, script, replay, load) runs on the server as a
*task*; the client polls it. Proofs and tasks are shared by all clients of a server, and a crash
loses them. Discovery and servers share files and take no lock.

Hard behaviours, each at its line under `hazards` in `PROJECT.json`:

- a reply is late, lost or cut while its request has taken effect or will (`rpc.py:57-66`);
- a verdict is put together from several requests, with other clients and crashes in between
  (`cli.py:155-172`, `cli.py:267-279`, `mcp.py:303-339`);
- a tool call finds its server anew, and another one may have taken its port (`mcp.py:57-64`);
- an error object means another thing in each request it may answer (`mcp.py:352-357`, `mcp.py:377-381`);
- the same exit status has to tell an unproved proof from a failure (`cli.py:59-93`);
- waiting for a task that never ends, or that the server forgot (`client.py:390-406`);
- records read half-written, after they are gone, or after their server is (`discovery.py:129-163`).

## Modules

    AtMostOnceCall      what a caller of the wire layer may rely on
      ^ implemented by
    RpcTransport        rpc.py               RpcTransport_proofs            MCRpcTransport
    KeyServer           the server as its clients see it (external)
      ^ extended by
    Cli                 cli.py, client.py    Cli_proofs                     MCCli
      v implements                             ^ CliVerdict_proofs
    ProofVerdict        what a reader of a verdict may rely on        ProofVerdict_proofs
      ^ implemented by                         v McpVerdict_proofs
    Mcp                 mcp.py, client.py    Mcp_proofs                     MCMcp
    Discovery           discovery.py         Discovery_proofs               MCDiscovery

**AtMostOnceCall.** A call takes effect at most once (`TakeEffect`, possibly after its caller gave
up); it is confirmed only after that, denied only without it, and otherwise its caller does not
know. This is the promise of `rpc.py:3-6`, spelled out.

**RpcTransport.** `stage`, `outcome`, `wire` and `effects` of each invocation of `call`. `Send` and
`Unreachable` are `urlopen` with and without a connection; `Return` is everything from `read` to
`return` or `raise`, with the chain of handlers and tests in `Classify`; `Timeout` is the socket
timeout, which abandons the connection and leaves the request where it is. `Act`, `Answer`, `Crash`
and `Restart` are the server and its connections: `Crash` may leave any answer on the wire intact,
cut short, without its length, or gone. Two clients of one server are two calls here: calls share
nothing but the server. `Garbled` says which kinds of nonsense the server may send. The outcome
"nothing" is the `None` that `call` returns for an object with neither member: no method has that
result, and what its caller makes of it is a "torn" reply of `Cli` (`TornReply`, `HearNothing`).

**KeyServer.** What the client relies on: identifiers are random and not reused; one task per proof
(`TASK_CONFLICT`); a task ends SUCCEEDED, FAILED or CANCELLED and SUCCEEDED says nothing of the
proof (`models.py:290-292`); a closed proof stays closed, for `prune` is refused on it
(`client.py:213-215`; `docs/api.md:59` says that prune "cuts a proof back to a node and reopens it",
which would be the one way for a closed proof to become open: the model follows the source, and the
reopening can then only be that of goals of a proof that was open anyway); a crash loses proofs and tasks. `Elsewhere` is all that may happen between
two requests of one client: the server's own work and any request of any other client. A request
whose sender gave up and that the server carries out later (`RpcTransport`) is one of these too.
The rows of `task` outlive their task as a record of what it was; `live` is what the server still knows.

**ProofVerdict.** What a reader of the command line or of an MCP tool may rely on, whatever requests
are made for it. An asker may `Look` at a proof only when the work it started itself has succeeded,
sees "open" or "closed" as it is at that moment (or "open" all the same, where the server may leave
out that a proof is closed: `Incomplete`, `Seen`), and may `Tell` only what it saw, of the proof it
looked at, once. In between everybody goes on (`Progress`): a proof that is closed stays closed, one
that is open may close. An asker that never tells a verdict (`Forget`) breaks no promise.

**Cli.** A subcommand is a plan: which request follows which, read off its handler (`ProvePlan` is
`_prove`, and so on; `Plan` is the table of `_parser`). The server answers in a `Serve` step and the
command hears it in a `Hear` step, and `Elsewhere` interleaves with both. `PollAgain` and `GiveUp`
are the loop of `wait_for_task`, with `Patience` for the number of polls that fit into `--wait`;
`TaskFailed` is `_report_failed_task`; `NoCommand` is `main` without a subcommand; `Lost`, `RpcError`,
`NoInstance` and `Interrupt` are the ways out through the handlers of `main`, and `Escape` those past
them: a reply that is there and cannot be read (`TornReply`), an instance record that cannot
(`BadRecord`), and an event stream that breaks off (`StreamBreaks`). `version` makes no use of what it
gets and prints a `null` (`HearNothing`). `exit` has the three statuses by
name, `printed` counts the objects a `--json` run wrote. `watch` prints an object per event (`Event`,
at most `Events` of them) until the stream ends; `list` asks no server. `saved` is what was in the file when it was
written. `Faults` switches failures on by their kinds: "torn" replies, a broken "record", a "reset" of
the stream, statistics without `closed` ("unsaid") and Ctrl-C ("interrupt"). Replies that are lost or
late, refusals and crashes are possible in every run.

**Mcp.** A tool call is one row of `call`: the request it is at and what it has learnt. A request and
its reply are one step, since nothing the tool does in between depends on when the server answers;
everything else may happen between two requests (`World`, `WorkEnds`, other calls). Several servers run:
`Resolve` is `_connect`, which picks any server that has run (which one, and whether it still runs,
is the subject of Discovery) or the one `--instance` names; `AtAddress` is who answers at its address,
which after a crash may be another server that was given the port (`Start`). `HearTaskId` to
`TaskSucceeded` are `wait_for_task`; `HearStatistics`, `HearGoals`, `HearDiagnoses`, `HearSequent`
and `HearRules` are the reads of `key_prove`, `key_script` and `key_inspect` in their order;
`ReadOf` is `_statistics`, for which an object without `closed` is one of an open proof (`Faults`
may hold "unsaid", as in `Cli`). `Remedy` and `Findings` are the advice of `_verdict` and
`_goal_finding`; `Refused` is an error object in answer to any request, by the server that was meant or
by another at its address, with the `Headline` of the `except` around the request or none, and `Lost`
an exception that leaves the tool. Goals are node numbers; a sequent is not looked into. The outcomes
`BUDGET_ELAPSED` and `STRATEGY_TIMEOUT`, which get the same answer, are one ("CLOCK").

**Discovery.** Servers `Start`, `Write` their records in pieces, `Remove` them and `Die`; a pid may
come up again (`Reuse`). The query is `resolve`, step by step: `Listing` is the `glob`, `ReadRecord`,
`SkipRecord` and `Escape` are one file each, `Candidates` the filters of lines 101-110 in their
order, `Pick` and `NotFound` the two ends. `steady` and `seen` are auxiliary: which whole records of
running servers have been there since the query began, and who has run since.

The MC modules add symmetry sets and nothing else. Identifiers, servers and workspaces are
interchangeable and no property compares them. No run that checks liveness uses symmetry.

## Runs

| Run | Bounds | Result |
| --- | --- | --- |
| `rpc` | 2 calls, every kind of nonsense | `TypeOK`, `AtMostOnce`, `AnswerIsTrue`, `EveryCallReturns` and `ImplementsAtMostOnceCall` hold |
| `cli_exit_zero` | 2 proofs, 2 tasks, 1 poll in vain, all five faults | `TypeOK`, `ExitZeroMeansClosed`, `ObjectMeansSucceeded` hold |
| `cli_complete` | 1 proof, 2 tasks, 1 poll in vain, no faults | `ExitOneMeansNotClosed`, `JsonOneObject`, `RequestsBounded`, `EveryCommandEnds`, `ImplementsProofVerdict` hold |
| `cli_torn` | 1 proof, 1 task, torn replies | `ExitOneMeansNotClosed` is violated |
| `cli_interrupt` | 1 proof, 1 task, Ctrl-C | `JsonOneObject` is violated |
| `cli_inspect` | 1 proof, 1 task | `ExitZeroAsDocumented` is violated |
| `mcp` | 2 servers, 1 proof, 2 goals, 1 call, 1 poll in vain, statistics without `closed` | `TypeOK`, `EmptyListMeansClosed`, `PinnedFindsItsProof`, `NotWrittenIsTrue`, `VerdictStands`, `RequestsBounded`, `EveryToolAnswers`, `ImplementsProofVerdict` hold |
| `mcp_advice` | 2 servers, 1 proof, 1 goal | `AdviceFitsSearch` is violated |
| `mcp_refused` | 2 servers, 1 proof, 1 goal | `RefusedIsTrue` is violated |
| `discovery` | 2 servers, 2 workspaces | `TypeOK`, `AnswerWasRunning`, `AnswerIsBest`, `AnswerFits`, `NoneOnlyOverTheDead` hold |
| `discovery_fallback` | 2 servers, whole records | `FallbackServes` is violated |
| `discovery_broken` | 1 server, damaged records | `BrokenRecordCostsItself` is violated |

Why the bounds are enough. Calls share nothing but the server's life, so two are all an interaction
takes. A command is about one proof and one task: the second of each is what other clients start
meanwhile and what a replay produces; one modelled client is enough because `Elsewhere` does whatever
any other could. In `cli_complete`, where a cycle in the whole state graph has to be looked for, one
proof must do: a replay then finds it unless somebody else has it. One poll in vain tells "still
running, look again" from "give up". `watch` is followed for one event: it does the same
with each. In `mcp` the second server is the one that takes over a port or is found in place of
the first; the second goal is the one still open, or newly come, when another has gone; one call is
enough because `World` does to its proof whatever another call could, and calls share nothing
else. Proofs do not interact, so one is enough. The theorems below are for any number of each.
In discovery the second server is the newer one, the anchored one, or the dead
one that hides the first; the second workspace is the elsewhere of a fallback. `clock` needs no bound:
a server starts once.

The state of discovery can come to rest, when every server has run and died, every record is gone
and the query is answered; so can that of `Mcp`, when every server has died and every call is
over. Their runs do not check for deadlock. In all others the server can crash or be started again in
every state.

**What the properties of `Mcp` say.** `EmptyListMeansClosed`: the tools ask for the verdict first and for
the goals after it, so an answer may read `closed: false` with an empty list; a list that is empty
then means that the proof has closed meanwhile, and `closed: true` never comes with a goal to work
on. `PinnedFindsItsProof`: with `--instance`, "unknown proof" is said of a proof of that server only
when it is lost. Without `--instance` it may well be said of a proof that lives on another server,
and no text of the repository promises otherwise. `NotWrittenIsTrue`: `docs/mcp.md:120` the other way
round, what is said not to be written is not there. What is said to be refused has no such property:
it may be a script that is running (finding 5). `VerdictStands`: whatever becomes of the proof after
a tool has spoken, the work it was to do had been done, and "closed" is still true of the proof. An
"open" is no promise: the proof may have closed since, or the statistics came without `closed`.

**What keeps a run from asking for ever.** `RequestsBounded`, of `Cli` and of `Mcp`, is an action
property with no fairness in it: each has a number `Ahead`, of requests, moves, polls and goals still
to look at, that every step of the run lowers, though never below zero, and nobody else raises. The server, other
clients and the task itself may go on as they like. `EveryCommandEnds` and `EveryToolAnswers` add to it
what fairness is needed for: that a run which can take a step takes one.

**What an object on stdout means.** Status 1 is shared by "not closed" and by a traceback (finding 1).
`ObjectMeansSucceeded` says that a caller who asks for `--json` can tell them apart with every fault
allowed: status 0 or 1 with an object on stdout is never a traceback, a task that failed or an
interruption, and the task that succeeded worked on the proof reported.

**What callers rely on of `resolve`.** `AnswerFits`: the answer is a server that was started, and the one whose id was
given, if one was; this is the set `Found` from which `Resolve` of `Mcp` takes its server.
`NoneOnlyOverTheDead` bounds finding 6: with a server steadily there, "no server runs" is said
only if the record of a dead server of that workspace has been read.

**Fairness.** Of the server nothing is asked: it may stop answering for ever and tasks may run for
ever. In `RpcTransport` a waiting call returns or times out, because `urlopen` is given a timeout
(`rpc.py:57`). In `Cli` a reply that is there is read, and a reply that is not is given up on, for
the same reason, except for the stream of `watch`, which has no timeout and is given no fairness;
`--wait` is always a number on the command line (`cli.py:399-404`). The step from
`connect` is left without fairness: `EveryCommandEnds` speaks of commands that reached a server. In
`Mcp` every step of a call is fair: a request is answered or given up on, `settings.timeout` bounds both a request and the waiting
(`mcp.py:60-62`, `mcp.py:247`), and neither servers nor tasks need make progress.
`wait_for_task` with `timeout=None`, which only library callers can ask for, is not in the model: it
need not end. A socket timeout bounds each read and not the whole body, so a server that sends a
byte now and then could keep a call for longer than its timeout; the model has no such server.

## What the violated properties show

Each is a sentence of the repository, and `findings` in `PROJECT.json` quotes it.

1. `cli_torn`: a request is answered and the answer cannot be read. A server that dies inside a reply
   makes `read` raise `IncompleteRead`, which `call` does not turn into `KeyClientError`; nor does it
   the errors of a body that is not UTF-8 and of JSON that is no object. `{}` is returned as the
   result `None`, at which its caller breaks. These exceptions end `key-agent` with Python's status 1,
   which means "the operation succeeded and the proof is not closed". In the trace a command asks for
   obligations (or the version), the server answers, and the answer is such a one. With "record" and
   with "reset" in `Faults` a broken instance record and a broken event stream have the same end.
2. `cli_interrupt`: Ctrl-C under `--json` leaves stdout empty.
3. `cli_inspect`: `goals`, `sequent` and `explain` report status 0 on open proofs.
4. `mcp_advice`: `_goal_finding` knows two ends of a search where `_verdict` knows three. After a
   search that ran into the cap on rule applications `key_inspect` says to run it again with a
   larger budget, of which `mcp.py:84-86` says that it loops. It says the same of a proof that was
   never searched. In the trace a search ends with `MAX_RULES` and `key_inspect` is called.
5. `mcp_refused`: `key_script` submits a script and waits inside one `try`. In the trace the server
   takes the script and then answers the question about its task with an error object, while the
   script runs; the answer of the tool is "The script was refused." The same is said when the server
   died and another one, given its port, knows no such task.
6. `discovery_fallback`: a crashed server's record in a workspace prevents the fallback to a live
   server, for the dead are dropped after the anchored were preferred.
7. `discovery_broken`: a record cut inside a multi-byte character, or with a number no pid can be,
   raises out of `list_instances`.

Disagreements seen in passing that need no run: `docs/mcp.md:132-133` lists *holds* among the words never
said of an open proof, and `mcp.py:88`, `mcp.py:95` say "whether the contract holds" of one;
`docs/mcp.md:31` says that no task reaches the model, and the message of `TaskTimeoutError`
(`exceptions.py:83-86`) names the task and how to poll it; `docs/guide.md:438` promises one JSON object
and `watch --json` prints one per event; one goal that closes while `key_inspect` reads costs the
report on all the others (`mcp.py:316`, GOAL_NOT_FOUND leaves the tool).

## Proofs

`tlapm` proves these for every value of the constants, where TLC checks small ones.

**RpcTransport_proofs.** `TypeCorrect`. `AtMostOnceCorrect` is not inductive by itself: a second
effect is excluded only because a connection that holds a request has had no effect yet. `CallInv`
says so for each state of the wire, and that after a refusal the wire is idle for good. For
`AnswerIsTrueCorrect` `ResultInv` adds that a result on the wire comes from a request carried out.
`Refinement` maps `stage` and `outcome` to the verdict of `AtMostOnceCall`:
`Act` is `TakeEffect`, `Return` is `Confirm`, `Deny` or `LoseTrack`, and the rest stutters.

**Cli_proofs.** The invariant `IInv` has three parts: the task table (`ServerInv`: what has ended has
its result, nothing that was not issued is live), what the run knows at each request (`RunInv`: past
the await, its task is the one it started, has ended well and worked on its proof), and what a reply
on the wire implies (`ReplyInv`: "closed" was true when it was said). The server's steps keep all of
this because they only grow (`Grows`): closed proofs stay closed and an ended row does not change.
`ExitZeroCorrect` follows with every fault allowed; neither torn replies nor statistics without
`closed` nor crashes lead to a false 0. `ExitOneCorrect` adds `OpenInv`: an answer "open" that came
after the work ended means that the work left the proof open, because closed is for good. It assumes
`CompleteReplies`: of the faults only "interrupt" is allowed, for each of the others ends some command
with status 1 that is not entitled to it; `cli_torn` shows so of the first. `JsonCorrect` assumes
`CaughtAndSaid`, that no reply or record is torn and nobody interrupts, which `cli_torn` and
`cli_interrupt` show to be necessary; it leaves out `watch` and the call without a subcommand, which
prints the help to stderr and nothing on stdout, `--json` or not (`cli.py:66-68`). Every
way out prints its object once, because a command that is over takes no further step (`StepInv`).
`ObjectCorrect` needs no assumption: `SaidInv` says that a command which reports on a proof has printed
nothing before it ends, so an object under status 0 or 1 is the one `HearStatistics` prints, and
`RunInv` has the work done there; `Grows` keeps it done. `RequestsBoundedCorrect` goes through the
ways a step can use up something of `Ahead`, one lemma each: an answer (`AnswerAhead`), the next
request (`ProceedAhead`), the end (`EndAhead`) and a poll (`OwnStepAhead`); `AheadNat` keeps it from sinking below zero. For this `RunInv` and
`ReplyInv` say that a reply is on the wire only at a request, and "RUNNING" only in answer to the await.

**CliVerdict_proofs.** `Refinement`: serving the statistics is `Look`, hearing them is `Tell`, an end
without a verdict is `Forget`, and all else is `Progress` or a stutter. The work is done when the
command looks by `RunInv`, and the task a command is about to start cannot be one that is done
already (`TaskFree`). It assumes `NoTornRead`, that no reply or record is torn, for a traceback tells status 1
without having looked at anything. Statistics without `closed` are allowed: they are a look that sees
"open" whatever the proof is, which `ProofVerdict` has when `Incomplete`.

**Mcp_proofs.** `IInv` has one part about the world (`WorldInv`: a known proof is known to a server
that runs) and four about a call. `Pinned` says that a request of a call with `--instance` goes to
that server as long as it runs, so a stranger answers at its address only after it has died;
with `ProofInv` this gives `PinnedCorrect`. `SaidInv` ties the headline of a failed save to the
request that failed. `VerdictInv` says what the goals listed and the verdict seen have to do with
each other. None of them follows from one step: all lean on `WorldGrows`, what no step of anybody takes
back (where a proof is from, that it is closed, that it is lost, that a server has died).
`RequestsBoundedCorrect` counts goals by `Cardinality`: listing goals
replaces "any number of goals" by those listed (`LaterStage`), and showing one takes it off the list.
This is where the assumption that goals are finitely many is needed (`GoalsFinite`).

**ProofVerdict_proofs.** `VerdictStandsCorrect`, about the abstract specification alone: a sample was
true when it was taken (`SampleInv`) and truth only moves to a later state (`LaterStill`).

**McpVerdict_proofs.** `Refinement`: hearing the statistics is `Look`, or `LookAndTell` where the tool
answers at once; the answer after the goals or sequents is `Tell`; a failure after the look
tells nothing and is a stutter. That the work had succeeded before the look is part of `IInv`. It needs
no assumption but those on the constants: with "unsaid" in `Faults` the look may see "open" of a
closed proof, without it the verdict is what the proof was.
`VerdictStandsCorrect` is the theorem of ProofVerdict_proofs carried over by this refinement: the tools
are not looked at again.

**Discovery_proofs.** `IInv` says what the query has of a steady server: once its directory has been
read it is found, and alive; until then its file is still to be read. `AnswerIsBestCorrect` holds with pids
used again and records damaged. `AnswerWasRunningCorrect` leaves one way for the answer not to have run
while the query did: its pid is that of another process, as `discovery.py:169-171` says.
`AnswerFitsCorrect` and `NoneOnlyOverTheDeadCorrect` use the same `IInv`: a server found and not alive
does not run (`ServerInv`), a server steadily there is among the living (`SteadyFound`), so only a
preference for the dead can leave no candidate (`GivesUp`); and a server that has died is not started again.

The assumptions on constants are `GarbledAssumption`, `ServerAssumption`, `CliAssumption`,
`McpAssumption`, `GoalsFinite` and `DiscoveryAssumption`; they say what kind of thing each constant is
(and that a server holds finitely many goals), and TLC evaluates them. Every safety and action
property the passing runs check is stated by a theorem.

Only model-checked: `EveryCallReturns`, `EveryCommandEnds` and `EveryToolAnswers`, for TLAPS does not
reason about fairness here. Of the last two the part without fairness, that no run goes on for
ever, is proved (`RequestsBounded`).

## Not modelled, and why

- **Text**: how sequents, rules, tables and errors are laid out (`_render_sequent`, `_rules_to_try`,
  the `print`s of `cli.py`, `__str__` of the models). The texts a reader acts on are modelled by what
  they advise. A negative `max_goals` miscounts the goals not shown, in the text only.
- **`cancel_task`, `prune`, `close_proof`, macros, `health`, `environments`, `tasks`**: single requests that
  nothing else in the package calls. What they do to a proof is what other clients do in
  `KeyServer` and `Mcp`.
- **`wait_for_task` with `timeout=None`**: for library callers only; it need not end.
- **Environment variables and platforms** that decide where records are: constants of a run. The
  Windows probe answers the same question as `os.kill(pid, 0)`.
- **The order of `startedAt`**: start times are distinct numbers; the code compares strings whose
  format is the server's.
- **Redirects, proxies, bodies that trickle in**: what `urllib` does before the handlers see it.
- **Environments and sequents** on the server: no decision of the commands or tools depends on them.
- **Which events the server sends**: `watch` does the same with each.
- **The moment between reading a record and probing its pid** (`discovery.py:135`, `158`): `ReadRecord`
  is one step. What comes in between is about processes (a start, a death, a pid used again) or about
  files (a record written or taken away). The first can as well happen before the step, which probes
  after it, and the second after the step, which has read before it; the two kinds do not
  disturb each other, except that a record is written by a server that runs. Left out is therefore
  only a server that writes its record and dies, both within that moment.
- **A directory of records that may not be read**: `is_dir` and `glob` of `Listing` then raise
  `PermissionError`, and `list_instances` with them; the directories are the user's own.
- **Choice of a server inside `Mcp`**: `Resolve` allows every choice Discovery can make, and more. The
  two are not composed; that Discovery makes no other choice is `AnswerFits`, proved of it.

## Plan

Done, in this order: the wire layer and its abstract specification, the command line over the server,
discovery, `watch` and `list`, the MCP tools, `ProofVerdict` and the two refinements, the theorems of
each, and the bounds on the requests of a run. What is left is small beside it:

1. **WaitForTask** with a clock instead of a count of polls: giving up not before the budget and at most
   one poll after it; `timeout=None`.
2. An abstract choice of a server that Discovery implements and `Mcp` uses, in place of `AnswerFits` and
   `Found`; then the first request of a command: a server found alive and dead when asked, and a
   record whose port is another server's by now.
3. Larger instances of `Mcp`: two calls of one agent on one proof, for which the theorems
   stand in now.
