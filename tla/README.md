# AgentValet: a TLA+ verification project

AgentValet is the open client surface of a credential broker for AI agents: an
embeddable enforcement pipeline for MCP servers (`packages/mcp-broker`), an MCP server
that calls platforms through a managed proxy (`packages/mcp-server`), SDKs that do the
same without MCP (`packages/client`, `packages/python-client`), and the tools that put
an agent's identity on a machine (`packages/cli`, `packages/paperclip-adapter`,
`packages/vscode-extension`). The proxy itself is not in the repository; it is modelled
only as far as this code relies on it and is marked external in `PROJECT.json`.

## Inventory

| component | state it keeps | operations | what is hard | what makes it correct |
|---|---|---|---|---|
| policy kernel (`mcp-broker/src/_evaluator.ts`) | none (pure) | `evaluatePolicyWithTrace`: guardrail-deny pass, guardrail-approval pass, allow, deny and approval-rule passes, with a trace | order of passes, first-match attribution, role skips | deny overrides; no allow means deny; the trace justifies the verdict |
| policy sources (`mcp-broker/src/policy/*`, `hosted/policy-source.ts`) | cached parsed document | lazy load, parse, translate to kernel input, evaluate; AuthZEN and hosted adapters | two loads in flight while the file changes; unreachable source | a broken or unreachable source denies; the YAML rule of a tool decides that tool |
| enforcement pipeline (`mcp-broker/src/pipeline.ts`, `broker.ts`) | one activation per tool call | identity, evaluate, approve, resolve credential, invoke, redact, audit | many calls interleave at every `await`; each collaborator can throw; process crash | no handler without authority; one audit event per call that was decided; credential is the one named |
| secret sources (`mcp-broker/src/secrets/*`, `hosted/secret-source.ts`) | cached secret map | resolve, narrow scope | lazy load race, missing or malformed entry | failure denies; scope narrowing is honoured |
| approval providers (`mcp-broker/src/approval`, `hosted/approval-provider.ts`) | open prompts on one input stream, timers; a poll loop with a deadline | ask, answer, time out; create, poll | concurrent prompts, late answers, pausing a shared stream, transient poll errors | an answer decides the call it was typed for; every request settles |
| audit sinks (`mcp-broker/src/audit`, `hosted/audit-sink.ts`) | append-only log | append | sink failure, crash | at most one event per call, never one for a call that did not do it |
| agent call path (`mcp-server/src/{auth,net,gate-client}.ts`, `tools/handlers.ts`; `client/src/client.ts`; `python-client/.../client.py`, `_protocol.py`) | one activation per tool call; the approval queued at the proxy | sign, send, retry once on 401, long-poll the approval, classify, resume | owner decides while the poll sleeps; lost responses; budget against per-request timeouts | what is reported happened; one queued action per call; bounded wait |
| machine identity (`mcp-server/src/{bind,config,pem}.ts`, `cli/src/commands/{claim,install,inject,onboard,uninstall}.ts`, `cli/src/{save,wait}.ts`, `python-client/.../register.py`) | files under `~/.agentvalet`: `agent.key`, `agent.json`, `config.json`; one-shot secrets at the proxy | bind, claim, install, inject, register, resolve, uninstall | two writers, two identity files, crash between two writes, one-shot secrets | an id is only ever used with its own key; no stranded identity |
| owner waits (`cli/src/{index,register,wait}.ts`, `commands/uninstall.ts`; access requests of `mcp-server`, `client`, `python-client`) | the owner's decision at the proxy; a deadline, timers, a stream or a poll | submit, stream, poll, reconnect, claim the key, save or clean up | a decision against timers and lost replies; one-time key; which failures are waited out | what is reported and done to the machine is what the owner decided; a decision made in time is not missed |
| refresh and framework files (`cli/src/commands/{install,inject,onboard,refresh,uninstall}.ts`, `cli/src/lib/skill-writer.ts`, `cli/src/config/*`) | the MCP configuration of four hosts for the user and for each project, documents, hook | merge, append, clean, embed, replace, strip | read-await-write, unreadable files, a refresh under way, entries of two scopes, a command that dies | uninstall leaves no entry; a set-up is obeyed; user text and settings survive |
| Paperclip adapter (`paperclip-adapter/src/server`) | session parameter with the agent id | auto-register, poll, mint, delegate, audit | approval after the poll window, failure of the delegate | only an approved agent's run is delegated |
| VS Code extension (`vscode-extension/src`) | global state, secret storage, status bar | register, re-register, sign out, activate | handlers that overlap at awaits, reload between key and state | a registered agent has its key; the bar tells the state |
| browser login (`cli/src/auth`), packaging (`mcpb`, `agents-md`, `factory-droid`) | none that lasts | callback server, device code; build scripts | a port and a timer | not modelled |

How the parts meet: `broker.ts` builds the pipeline from one policy source, one secret
source, one approval provider and one audit sink, and every tool call of the MCP server
runs through it; the file policy source translates its document into an input of the
kernel; the MCP server and the SDKs call the managed proxy with the identity that the
command-line tools left on the machine. Three kinds of shared state matter: the caches of
the two file sources (shared by concurrent calls of one process), the one input stream
that all command-line prompts read, and the files under `~/.agentvalet`, shared by
programs that do not know of each other.

## Modules

| module | models | kind |
|---|---|---|
| `PolicyEvaluator` | types of the kernel, what a rule matches, and the reference meaning of a policy over sets of rules (`Decision`) | data and reference |
| `PolicyKernel` | `evaluatePolicyWithTrace`, pass by pass, with the trace | state machine |
| `FilePolicy` | the YAML document, `toEvaluationInput`, `obligationsFor`, `evaluate` | operators |
| `BrokerPipeline` | `runPipeline` for concurrent calls, both file sources with their caches, sink, crash | composition; refines `ToolGate` |
| `ToolGate` | what a broker promises of each call: decided once, run at most once and only if permitted, logged, answered | abstract specification |
| `ApprovalContract` | what the pipeline relies on from an approval provider | abstract specification |
| `CliApproval` | the readline provider: several prompts, one input stream | refines `ApprovalContract` |
| `HostedApproval` | the hosted provider: create, poll, deadline | refines `ApprovalContract` |
| `ApprovalLongPoll` | one action through the proxy by the MCP server or the TypeScript SDK | state machine |
| `AgentIdentity` | the identity files of a machine, eight commands, two readers | state machine |
| `OwnerWait` | seven programs that ask the owner and wait: `register`, `uninstall`, four access requests, the Paperclip adapter | state machine |
| `ConfigFiles` | one MCP configuration file and what each writer makes of it | operators |
| `AgentDocs` | CLAUDE.md, AGENTS.md, SKILL.md as sequences of pieces; embed, replace, strip | operators |
| `FrameworkFiles` | `install`, `inject`, `onboard`, `refresh`, `uninstall` and the owner of the files on one machine | composition of the two above |
| `AutoRegister` | the handlers of the editor extension | state machine |
| `MC*` | inputs and constants of the instances | instances |
| `*_proofs` | theorems and their proofs | proofs |

How state and actions correspond to the code, module by module:

- **PolicyKernel.** `pass` is the loop the evaluator is in, `i` its index, `events` the trace
  it pushes to, `result` its return value; one action per iteration or early return.
  A string is a sequence of colon-free segments, so `${platformId}:${scopeId}` is
  concatenation and "a:b" with "c" equals "a" with "b:c", as in the code.
- **BrokerPipeline.** JavaScript runs a call without interruption between two awaits that
  wait for the outside, so each such stretch is one action, and one action may pass several
  `await`s of promises that are already settled. A lazy load is two actions: `ReadPolicy`
  takes the contents of the file, `FinishLoad` parses, assigns the cache and goes on to
  decide; other calls, edits and a crash come between. `emitted[c]` is what `audit.emit`
  was called with, `auditLog` what the sink stored: a sink may store, fail, or store and
  then throw. `basis`, `given`, `runs`, `approvals` and `onDisk` are history: the document
  a call was decided by, the credential its handler got, how often it ran, which calls
  were approved, what was on disk since the process started.
- **ToolGate.** Six variables a tool's author, its caller and a reader of the log could
  observe: what the policy says of each call, which calls were approved, how far a call is,
  how its work ended, the log, the answer. No files, caches, secrets or awaits. The mapping
  (`Gate` in `BrokerPipeline`): the verdict is the rule written for the tool in the document
  the call was decided by, or the fail mode; the phase is the group of places the call is in;
  the outcome is what it emitted; an answer counts when the call has returned. Loads, edits and
  the filling of caches are stutters. A decision, an approval and the secret that is found may
  fall into one step, because the code passes settled promises in one stretch; that is why
  `Decide`, `Approve` and `Resolve` may leave a call waiting, running or ended.
- **CliApproval.** `open` are the readline interfaces that listen; a line is delivered to
  all of them; closing one pauses the stream (`flowing`) for all, creating one resumes it.
- **HostedApproval, ApprovalLongPoll.** A place (`pc`), the request or reply on the wire,
  its age, and a discrete clock. The proxy's record, the owner and the network are external
  actions: they answer, refuse, lose, delay or do nothing. `stray` is a POST the client
  gave up on that still reaches the proxy.
- **AgentIdentity.** One variable per file; each command is the sequence of its writes,
  with a lost reply or a crash between any two. A key is modelled as the agent the proxy
  knows it for. `ran` is history: the commands used on the machine so far.
- **OwnerWait.** The seven programs share a place, a request on the wire, its age and a clock;
  they differ in how they listen (stream or poll), in what a reply means to them
  (`Meaning`, one operator per program) and in what follows. `record` is the proxy's,
  `decidedAt` and `fault` are history: when the owner decided, and whether a request was
  refused, lost or late after that. A registration of the adapter whose reply has no token
  is a record that is `unknown` from then on.
- **FrameworkFiles.** A command claims an agent in one step (its own steps are
  `AgentIdentity`'s) and then has a list of files to write, `todo`; each is read (`seen`) and
  written in a later step, as in `ide.ts`, where an await lies between. `refresh` is a
  request and its reply; everything after the reply is synchronous and one action, as is
  `cleanLocally`. A file is its state (absent, readable, broken), at most one agentvalet
  entry, and the last edit of its owner that it still contains; an edit may leave text under
  Codex's block. A write that fails is a task that is over with nothing changed (`WriteFails`),
  and `left` remembers its file. A document is a sequence of
  pieces, so that a marker may be missing, or two blocks may follow each other.
  A regular expression that matches is a first and a last piece, and what replaces them is
  spliced in (`Splice`); only the first `@`-import line goes, because its expression
  (`refresh.ts:168`, `uninstall.ts:36`) has no `g` flag. The owner adds text above or below or
  loses one end marker per edit.
- **AutoRegister.** Each handler is at one of its awaits; between two awaits it runs alone.
  `state` is the editor's global state in memory, `disk` what a reload finds, `keys` the
  secret storage, `bar` the status bar. Its specification is `EditorSpec`, its tuple of
  variables `editor`: `Registration_proofs` extends it together with `OwnerWait`, so that the
  theorems about both ends of a registration, the wait for the owner and the editor that
  keeps the result, are in one module.

## Runs

| run | what it shows | bounds |
|---|---|---|
| `kernel` | for every input in the bounds the evaluator ends in the verdict of `Decision`; the trace contains the deciding rule and nothing that contradicts it; the verdict is attributed to the first guardrail that matched and every policy rule in the trace is the first of its pass; adding guardrails never loosens a verdict | two guardrails, two rules, two approval rules, both roles, all target types |
| `broker` | two calls in every interleaving: the broker implements `ToolGate` (`KeepsGate`: no handler without authority, decided once, recorded before answered), the credential is the one its rule names, one event per call that was decided and none for one whose caller could not be identified, the stored log tells no lie, loads are fresh since the last restart, a settled cache stays | 2 calls, 2 documents that disagree about both tools, 2 secret files (one lacks an entry), unreadable files, 1 edit, 1 crash, an identity resolver that may throw |
| `broker_fail_open` | the development mode without an approval provider and with hooks that throw: no handler runs without authority (`GateBeforeHandler`), and every call ends | 2 calls, no edit or crash |
| `broker_redact_throws` | **violated**: a redaction hook that throws after the handler ran leaves no audit event | 1 call |
| `cli_approval` | prompts that overlap: approved means that a line was typed, the contract is kept | 3 calls, 2 open at a time, 3 lines |
| `cli_approval_misdirected` | **violated**: the line typed for one prompt approves another call | the same |
| `hosted_approval` | the owner's decision is reported if there is time for one more poll, the wait ends one fetch and one sleep after the deadline at most, the contract is kept | deadline 7, sleep 2, fetch 3 |
| `long_poll` | both clients: an action is taken at most once, what the caller is told is true, the wait is bounded, every call ends | budget 6, sleep 2, timer 3, body 1, one resumed wait |
| `identity` | on machines set up by commands that go together, server and CLI sign as one agent with its own key | one command at a time; 3 agents of 2 owners, 4 commands, 2 crashes, lost replies, an `.env.agentvalet` that cannot be written |
| `owner_wait` | seven programs: what is reported, saved and removed is what the owner decided, a decision made in time is not missed, every wait ends | window 6, sleep 2, request 2, read timer 3, pauses 1 and 2 |
| `framework_files` | uninstall leaves no entry and no reply brings one back, a set-up that ran to its end is obeyed, what the owner wrote in files and documents stays | 2 agents, one project and the user's home, Claude and Factory present (Codex and Cursor appear when their files do); seven scenarios of at most 2 set-ups, 1 uninstall, 3 refreshes, 2 edits of files, 2 of documents, 1 failed write |
| `auto_register` | whatever handlers, sign-outs and reloads overlap, a registered agent has its key and the bar tells the state | 3 handlers, 3 agents, any number of reloads |

Why the bounds are enough. The kernel's passes compare pairs of rules, so two rules,
two guardrails and two approval rules reach every order of two passes and both sides of a
first match; the theorem `VerdictCorrect` removes the bound. Two calls are enough for a
race on a cache, two documents that disagree for telling which one decided, one edit for
a race with a load, one crash for a restart with a call in flight; calls are symmetric
where no liveness is checked. Three calls with two open let a late line reach a request that comes
after the one it was meant for. In the timed models the sleep, the timer and the budget
are small numbers for which the clock reaches the deadline in each place of the loop. Four commands reach: set up, uninstall or crash, set up again,
and one more; three agents tell the agent before the last from the last. In `OwnerWait`
the window holds three sleeps or two read timers, so that every timer can be first, and
the theorems remove the bounds. `FrameworkFiles` counts what may happen per scenario
(`MCLimits`), because all of it at once is out of reach: two set-ups around an uninstall
and a refresh; two set-ups, or one, with edits before, between and during; refreshes with
damaged documents, with and without an uninstall; and a write that fails in a second
set-up, or around an edit and an uninstall. In `AutoRegister` three handlers let
a registration begin and end between two steps of a sign-out while a third is under way.

The properties of `AgentIdentity` are conditional on how the machine was set up (`ran`),
because the code gives no more, and the `identity` run has one process: the commands take
no lock, and with two processes the properties do not hold. Runs without the conditions show where a machine mixes
identities: a command that dies between key and configuration (`install`, `inject`,
`register`); signing in as a second owner when the registration then fails; signing out
with an old `.env.agentvalet` left by `install`, then `register`; a bind after an
`install`; two binds at once, or a claim that races another writer (`claim.ts:105`
against `claim.ts:145`); an interactive flow that could not write
`.env.agentvalet`, after which, once `config.json` is cleared, the CLI acts as the agent
that an older one names with the newer key (`onboard.ts:158` calls that failure
non-fatal because "local config is the authoritative store").

`CHECK_DEADLOCK FALSE` is set where the system stops: an evaluation returns, the calls of
the instance have ended, every request has settled, a wait is over, or the bound on commands
is reached. `auto_register` checks deadlock: the extension always has something to do.

### Fairness

- `BrokerPipeline`: weak fairness of each call's next step. A file read settles, the
  provider settles (that is `ApprovalContract`), a handler, a hook and a sink settle; the
  event loop runs what is settled. Nothing is assumed of arrivals, edits or crashes.
- `ApprovalContract`: each pending request settles. `CliApproval` earns this from its
  timers (weak fairness of `Timeout`, as the event loop is alive) and a flowing stream;
  `HostedApproval` from its clock, its own steps, and a fetch that settles if only by failing.
- `ApprovalLongPoll`: the clock and the client's own steps. Nothing is asked of the proxy,
  the owner or the network: the timer of each request does that work, except for the
  reading of a body, which no timer covers and `BodyTime` bounds by assumption.
- `OwnerWait`: the clock and the program's own steps, a timer that is due among them. Nothing
  is asked of the proxy, the owner or the network. A request that is not answered fails
  within `RequestTime`: the MCP server and the SDKs have timers for it, the command line
  and the adapter rely on those of their runtime, which is an assumption.
- `FrameworkFiles` and `AutoRegister` have safety properties only and assume no fairness.

## Findings

1. **An allowed call without an audit event** (`pipeline.ts:185`). The header promises one event
   for every terminating outcome; `deps.redact` is awaited outside any `try`.
2. **A line answers every open prompt** (`cli-provider.ts:35`). Each request opens an
   interface on the same stream.

Disagreements and surprises met while modelling that have no run of their own:

- *The wait outlasts the host* (`handlers.ts:183`). The budget of 50 s, meant to stay under the
  host's 60 s (`handlers.ts:53`), is tested before a sleep of 2 s and a poll of up to 15 s,
  which a 401 doubles.
- *A call that nobody can be found for leaves no event either* (`pipeline.ts:63`). The
  package's README (line 112) promises one for each tool call; an author's identity resolver
  is called before the first `try`. Nothing was decided or done, and the caller sees the
  error: `OneEventPerDecision` is what remains, and `OneEventOfEachCall` is proved for hooks
  that do not throw.
- *A claim may overwrite a key* (`claim.ts:145` against `claim.ts:108`, "without
  overwriting"). It looks before it awaits the proxy, and not again.
- *410 does not mean bound* (`bind.ts:144` against `bind.ts:10`). The key pair is in memory
  only until the reply: when that is lost, the secret is spent and nothing is on disk.
- *Uninstall cuts more than its block* (`uninstall.ts:95` against `uninstall.ts:91`). The
  comment promises to stop at a blank line; the expression stops at a header or the end.
- *register and claim are not interchangeable* (`register.py:130` against `register.py:14`).
  They name the agent in different files next to the same key.
- `agentvalet register` ends with "You can now use AgentValet.from_env() with no further
  configuration", while `from_env` reads the agent and its owner from the environment only;
  the interactive flow writes `.env.agentvalet` for `refresh`, which reads it only where
  `config.json` names no agent, so that after an `install` it acts as install's agent, and
  `refresh` adds a `.mcp.json` that names it.
- Set-up files: "single source of truth" (`ide.ts:181`) does not hold for Codex, whose project
  entry stays; Factory and Codex entries are never overwritten, so that after a second
  `install` they name the first agent next to the second's key; setting up any host creates
  `~/.codex`, by which the next set-up finds Codex. `~/.claude.json` is read and written
  back after an await, and what its host wrote in between is lost. A configuration of Claude
  or Cursor that does not parse is overwritten without a copy (`ide.ts:37`, "overwrite if
  unreadable"); Factory's is copied first, and a second copy replaces the first.
- Refresh and uninstall: a refresh under way when `uninstall` runs puts block and hook back
  (but no entry); a broken settings file ends a refresh before `.mcp.json`; a broken file
  that is repaired after the uninstall still has its entry; the CLAUDE.md of a project
  set-up has no markers and survives; AGENTS.md or SKILL.md that begin with our heading are
  deleted with whatever their owner added.
- Waits: the event stream of `register` may use the whole window, and the poll then begins
  with its deadline gone; the one-time key is fetched once; the Paperclip adapter ends its
  run at one lost poll and keeps no token, so that the next run registers another agent; a
  reply to its registration that has no token is not noticed, and it polls for `undefined`
  until its deadline (`execute.ts:58`).
- Extension: "Open dashboard" in answer to the register command goes on to register another
  agent (`commands/index.ts:24`); overlapping attempts register two and orphan the first's
  key; a registration under way signs the user in again after a sign-out; a re-registration
  that is given up leaves the bar with the cleared agent; the bar says "Setting up..." until
  the message is dismissed; `pendingApproval` is never reset.

## Proofs

All theorems hold for every value of the constants that satisfies the named assumptions
of the module; each is also checked on its instance.

| module | theorems | argument |
|---|---|---|
| `PolicyKernel_proofs` | `TypeCorrect`, `VerdictCorrect`, `GuardrailsTighten`, `TraceTells`, `FirstIsNamed` | the invariant says, of each pass, that no rule before `i` matched and that the passes before it found nothing; a pass that ends adds a universally quantified fact, and the facts at the end are `Decision`. The events pushed so far ask for an approval exactly when the variables that `Combine` reads do (`TraceInv`); the scan's match is the first because nothing before it binds (`MatchIsFirst`, `RuleIsFirst`), and only such a match is pushed (`TraceNamesFirst`) |
| `BrokerPipeline_proofs` | `WrittenRuleDecides`, `TypeCorrect`, `GateHolds`, `OneEvent`, `OneEventOfEachCall`, `LogIsSound`, `NamedCredential`, `FreshAfterRestart`, `CacheSettles`, `ImplementsGate` | for every document, the kernel's verdict on the translated input is the effect written for the tool; it rests on `NthEnumerates`, that the translation of the approval rules lists each of them. Control types by place; `Authorised` is established before `Invoke` and stable, by `WrittenRuleDecides`; a call emits once, on leaving the places that still may; the log is a part of what was emitted. `OneEvent` assumes a redaction hook that does not throw, `OneEventOfEachCall` that the identity resolver does not either. A call that waits for an approval or a secret carries the obligations of its own rule (`CredentialInv`); what is cached or read was on disk since the start (`DiskInv`). The refinement needs that a call in front of the decision has no basis and one in front of the answer no approval (`UndecidedInv`); then each stretch of the pipeline, from its decision to its next await, is one step of the gate (`GateStep`), and what only loads, edits or fills a cache is none (`GateBlind`) |
| `CliApproval_proofs` | `TypeCorrect`, `PromptsArePending`, `NoApprovalUnanswered`, `ImplementsContract` | open interfaces, armed timers and pending requests are one set; each step is one of the contract's or leaves `result` alone |
| `HostedApproval_proofs` | `TypeCorrect`, `OwnerIsReported`, `WaitOnTime`, `ImplementsContract` | how old a request may be in each place (`Clock`), and what the reply on the wire says of the record |
| `ApprovalLongPoll_proofs` | `TypeCorrect`, `NeverTakenTwice`, `CallerToldTruth`, `WaitEnds` | the proxy's books (`Ledger`), what each place and reply imply about them (`Protocol`), the age of each place (`Timed`) |
| `AgentIdentity_proofs` | `TypeCorrect`, `ServerNeverMixed`, `CliNeverMixed`, `ProjectAgentActs` | `agent.json` is written last and only a machine without it is bound (`Bound`); `config.json` names the owner of the key except between two writes (`Whole`); after the interactive flow it names the agent of `.env.agentvalet` or none, and the project holds that agent's key (`Registered`). The last three assume that one command runs at a time (`OneAtATime`) |
| `Registration_proofs` | of `OwnerWait`: `TypeCorrect`, `ToldTheTruth`, `DecisionIsReported`; of `AutoRegister`: `KeyOfRegistered`, `BarIsTrue` | what each place implies about the record (`Places`), what a reply on the wire says of it (`Replies`), what is untouched before the end, and how old an unknown decision can be in each place (`Timely`); the agent that a handler is about to register is in nobody else's hands (`Unshared`), its key is stored before the state names it (`KeyFirst`), and a bar that is not true is still to be written by an automatic attempt (`BarInv`) |
| `FrameworkFiles_proofs` | `UninstalledStaysEmpty`, `OwnersKeepTheirText`, `InstalledActs`, `TextOutlivesRefresh` | while a project is uninstalled nothing on the machine names an agent that a refresh could add (`Emptied`); what was read and not yet written back is as new as what its owner may not lose (`Owned`); every task of a set-up is still on its list or its effect is in the files, and what was read without an entry gains none but the agent's own (`Obeyed`); no text of the owner lies between a start and an end marker (`Documents`, `Clear`), so that what a regular expression removes is the tool's: lemmas on `Splice` count the owner's pieces by an injection and follow each document through every writer |

Why the invariants are needed: none of the properties is inductive. That a handler only
runs with authority says nothing about a call that is waiting for its approval; that the
caller is told the truth depends on what a reply that is still on the wire says.

Every safety property that a passing run checks is stated by a theorem. The refinement
theorems of the approval providers cover the contract's safety part
(`ApprovalContract!Safety`); `ImplementsGate` covers all of `ToolGate!Spec`, which has no
fairness, for both fail modes, with and without a provider, and with hooks that throw.
Only model-checked: liveness (`EveryCallEnds`, `EveryWaitEnds`, the fairness half of
`KeepsContract`), which is out of the prover's reach like every formula with ENABLED.
What a recursive definition computes for every input cannot be proved either; no module
here declares one.

## Not modelled

The wording of events and errors, the hash of arguments (`fingerprint.ts`), the signing of
tokens, the parser of the policy file (a document or a broken file), the environment and
hosted secret sources, the AuthZEN and hosted policy sources, named agents and identities
given in environment variables, the long-poll of the Python SDKs, the legacy targets of `inject`, the
browser login and the packaging scripts. A write of a configuration file that fails leaves
the file as it was: truncated files are among the edits (broken), not among the failures, and
a synchronous writer of documents that throws, which ends its command, is not modelled. Nor
are edits in the middle of a document, nor patterns of `String.replace` other than `$&`. `revoke`, `list`, the diagnostics and the plain
reads of the MCP server are one request each. Several editor windows share one global
state, whose synchronisation is the editor's and not in this repository; registrations of
the Paperclip adapter across runs depend on what its host keeps of a failed run. The proxy
is modelled as any behaviour its replies allow.

## Plan

Done: `PolicyKernel`, `FilePolicy`, `BrokerPipeline` with `ToolGate`, `ApprovalContract` with
`CliApproval` and `HostedApproval`, `ApprovalLongPoll`, `AgentIdentity`, `OwnerWait`,
`FrameworkFiles` with `ConfigFiles` and `AgentDocs`, `AutoRegister`.

Left:

1. The long-poll of the Python SDKs as a further program of `ApprovalLongPoll`.
2. The AuthZEN and hosted policy sources and the remaining secret sources with scope
   narrowing, as further collaborators of the pipeline; the classification of gate replies.
3. What an uninstall owes `.claude/settings.local.json`, whose hook no property speaks of.
