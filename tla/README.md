# Warp commerce model: specifications, checks and proofs

TLA+ models of Warp: the part that decides (transition tables, auditor, guard,
session in `packages/commerce-types`), what is built on it (returns, windows,
agents, sagas, the engine, trade tools, the reference runtime), the ports to
Rust, Go and Python, the adapters and the builder that feed it, and the two
languages that configure it (`packages/commerce-lang` and the workflow compiler
in `crates/warp-core`). TLC checks the models on small instances; TLAPS proves for
all instances what is claimed about the session, the agents that share it, the
returns desk, the windows, the runtime and its replay, the saga, the engine,
the tools around negotiation, settlement, splitting, reconciliation and migration, the
protocol bridge with its metrics, and the coverage gate.

Paths below are relative to the repository; `types/` stands for
`packages/commerce-types/src/`, `runtime/` for `packages/commerce-runtime/src/`
and `lang/` for `packages/commerce-lang/src/`, `coverage/` for `packages/commerce-coverage/src/`.

## 1. Inventory of the system

A *world* is a list of commitments, fulfillments and parties. A *commitment*
has a state (one of eleven types), an append-only history of transitions, a
subject whose `requested` values sum to the committed money, and optional
links to a parent and children. Agents propose transitions; everything in the
repository is about saying yes or no to them and about keeping track of what
was said.

| Component | State it keeps | Operations | Interacts with |
|---|---|---|---|
| Model core (`transitions.ts`, `money.ts`, `invariants.ts`, generated tables) | none | transition a commitment, fulfillment or intent; replay a canonical path; compare, add and allocate money; audit a world against I-1..I-6 | called by all |
| Guard (`guard.ts`) | none | `guardAction(world, action)`: version check, legal move, audit of the resulting world; `guardObject`; list alternatives | core |
| Session (`session.ts`) | accumulated world, refund ledger, tree ledger, applied keys | `propose(action)` | guard; calls `add` of money, which throws |
| Multi-agent session (`multi-agent.ts`) | a session and the log of accepted actions | `propose`, summaries | session |
| Windowed session (`window.ts`) | a session, per commitment the refunds entered, admitted keys | `propose(action, occurredAt)`, `windowState` | session |
| Returns desk (`returns.ts`) | a session, RMA id -> stage and lines | `open`, `advance`, `settle` | session, one proposal per line |
| Reference runtime (`runtime.ts`, `audit-log.ts`, `file-store.ts`, `replay.ts`, `effects.ts`) | a session, a counter, an append-only log (memory or file) | `process`, `replayLog`, `describeEffects` | session; the log outlives the process |
| Saga compensation (`saga.ts`) | none, or the caller's session | plan the compensations of a forward flow from one snapshot; run them in reverse order | session |
| Engine and declarative model (`engine.ts`, `model.ts`, `profiles.ts`) | none (folds over a world) | an event passes the layers or leaves no trace; layers for settlement, concessions, profiles, auctions | guard, session, negotiation, auction |
| Negotiation (`negotiation.ts`) | a session and the standing price | offers, counters, accept, bounded by a floor | session |
| Settlement and packs (`settlement.ts`, `policy-packs.ts`) | per commitment the settled total | settle in parts | money |
| Split fulfillment (`split-fulfillment.ts`) | accepted children | allocate a part of an order | money, I-6 |
| Auction integrity (`auction-integrity.ts`) | none | one award, the winner is a member, losers are released | audit |
| Verifier (`verify.ts`), platform audit, migrations (`migrations.ts`), reconciliation (`interop.ts`) | the loop over their input | search a proposed state graph; chain and apply migrations; compare and merge records | core |
| Builder and platform adapters (`builder.ts`, `adapters/`), emitters (`interop.ts`) | the order being composed; the platform's own record | synthesize commitments from a final state; tell a refund or cancellation back to the platform | core, platforms |
| Registry (`commerce-registry`), attestation, audit of external data | none, or a map | register adapters, sign and report | core |
| Warp language (`commerce-lang`) | none; the files authors and formatter take turns on | lex, parse, format, lint, compile a document to a system, ship it as an artifact or resolve it for a commitment, build compositions | core types; its policies bound negotiations and engine |
| Workflow compiler and AI builder (`crates/warp-core`) | the pass over a project; the rounds of the builder | type-check, generate, ask a provider again with the errors | core transition table |
| Rust, Go and Python toolkits | as their TypeScript originals | guard, session, multi-agent session, saga; the Rust and Go guards write no history | - |
| MCP server and protocol bridge (`commerce-mcp`) | none; the host keeps the world | `guard_action`, `guard_protocol_action`: map an ACP, UCP or AP2 payload to a move and judge it | guard |
| Metrics (`withMetrics`) | counters by rule and by scope | count a verdict, reset, snapshot | guard |
| Coverage tool (`commerce-coverage`) | none; reads source and configuration | audit which money-moving calls a guard precedes; gate a build on it | the adopter's source |
| Conformance suite (`conformance/runner`) | the pass over a manifest | judge each fixture by rules of its own | none: written again |
| Rust MCP server, visualizer, demo, schema, editors, examples | none that decides | wrap, draw | guard, audit |

What is hard about it:

* **Refunds come in slices.** Each is valid alone; only a running ledger sees
  that together they pass what was committed, and a second ledger that the parts
  of a split order pass what the order committed. Both compare within a
  tolerance of half a minor unit.
* **Retries and stale plans.** An agent that lost an answer proposes again; an
  agent that read a commitment long ago proposes against what it read.
* **Two records of one fact.** State and ledger, history and log, the window's
  admitted keys and the session's applied keys, the audit log and the session.
* **Several statements per outcome.** `propose` writes ledger, tree ledger, world
  and keys one after another, with a call that may throw in between.
* **Part-way failure.** `settle` stops at the first rejected line.
* **Restarts and replays.** The log is a file, the session is memory; a replay
  takes the recorded actions at another time.

* **Loops over what somebody else wrote.** Migration chains with cycles, state graphs
  with bounds, a provider that answers nonsense, files laid out in any way.
* **One rule in four languages.** The toolkits are ported by hand, and the conformance
  runner judges by a fifth copy.
* **Words of others.** Payment protocols have statuses and minor units of their own; a
  mapping that is wrong by a factor refunds a hundredfold.

There are no threads. Every call is synchronous, so concurrency is the
interleaving of the calls of several callers, and the time between the moment
a caller reads and the moment it acts.

Per component, what makes it correct:

* *Session*: money paid back stays within what was committed, per commitment and
  per tree; a key takes effect once; state and ledger agree; histories are
  unbroken; a rejected proposal leaves no trace.
* *Agents*: no stale plan moves a commitment; the log of who did what agrees with
  the histories.
* *Window*: no span of the window's length, and no run of N refunds, passes the
  cap; the window sees every refund.
* *Returns*: what is paid is what was settled, each line once, after inspection.
* *Runtime*: the effects described from the log are the money owed; a replay
  reproduces verdicts and session.
* *Saga*: a plan run to its end leaves no step of the flow standing; a plan fails
  only where something else took the step's legality. *Engine*: events are atomic,
  an auction's subject is captured from one bidder. *Negotiation*: the standing
  price tells the moves and never passes a floor. *Settlement, split*: the parts
  stay within the whole, the tolerance used once.
* *Tools*: a search tells the truth about the table, a chain leads to its target
  through sound worlds, merging agrees with reporting over a sound primary, and each loop ends.
* *Ports*: one sequence of proposals has one answer in every language.
* *Bridge*: a payload moves the world soundly or the agent is told rightly why not; a refund
  is what the payload stated. *Metrics*: the counters tell the verdicts. *Coverage*: a sink
  some run reaches unguarded is reported; the gate fails a build for a reason (that at threshold 100
  it fails on every gap is refuted).
* *Adapters and builder*: what they make audits clean; a refund reaches the
  platform once.
* *Languages*: formatting keeps meaning and comments; a formula is checked as a
  literal would be; no rule of the document is lost before the host; what the
  checker passes, the next stage accepts.

## 2. Modules

| Module | Models | Composition |
|---|---|---|
| `CommerceModel` | transition table, states, money, histories, versions, trees, I-1..I-4 and I-6, `guardAction` | constants and operators only |
| `RefundAccount` | the abstract specification of a session's money | no program text: what is promised |
| `Session` | `createSession(...).propose` | extends `CommerceModel`; refines `RefundAccount` |
| `Agents` | `createMultiAgentSession` and agents that hold versions | extends `Session` |
| `Returns`, `Window` | `createReturnsSession`, `createWindowedSession` | extend `Session` |
| `Runtime` | `CommerceRuntime`, file log, `replayLog`, `describeEffects` | extends `Session`, and instantiates it a second time for the replay |
| `Saga` | `planCompensation`, `validateCompensation`, `compensate`, `compensateSession` | extends `Session` |
| `Pricing` | breakdowns, settlements, packs, concession bounds | operators |
| `Negotiation` | `guardConcession` | extends `Session` and `Pricing` |
| `Settlement`, `Split` | the settlement tracker; `allocate` and split fulfillment | extend `Pricing` |
| `Engine` | `step`, `stepModel`, `auditAuction` | extends `Pricing` |
| `Verifier` | `verifyLifecycle`; `auditPlatformModel` over it | extends `CommerceModel` |
| `Migration` | `migrate` | on its own |
| `Interop` | `reconcile`, `unify` | extends `CommerceModel` |
| `Adapters` | `applyCommitmentPath`, `applyFulfillmentPath`, the fulfillment table, I-4 over both; five platform adapters and the emitters; the builder `order()` | extends `CommerceModel` |
| `Ports` | `guard_action` of the Rust toolkit, which the Go one repeats, under versions | extends `CommerceModel` |
| `RustToolkit`, `GoToolkit`, `PythonToolkit` | guard and `Session.propose` of each, as functions of a session record | extend `CommerceModel` |
| `Toolkits` | the four sessions in lockstep | extends `Session` and the three |
| `PortAgents`, `PortSagas` | the multi-agent sessions, the sagas, of all four | extend `Toolkits`; `PortSagas` also `Saga` |
| `Grammar` | expressions of a policy: parsing, printing, evaluation; a `.warp` file: lexer, parser and formatter | recursive operators |
| `Language`, `Authoring` | `compile.ts`; `system.ts`, `artifact.ts`, `check.ts`, composition builds | `Authoring` extends `Language`, which extends `Grammar` and `Pricing` |
| `Workflow` | type checker, code generation and AI builder of `warp-core` | extends `CommerceModel` |
| `Protocols` | `guardAction` with its full verdict; the MCP tools and the mapping of three protocols; `withMetrics` | extends `CommerceModel` |
| `Coverage` | the coverage audit, its report and the build gate, beside what a run of the file executes | on its own |
| `Conformance` | the runner's own rules and its verdict on a manifest | extends `Protocols`, `Pricing`, `Adapters` |
| `CommerceModelProofs` | lemmas about the operators, about sums over finite sets, about two tellings of one sequence of moves | extends `CommerceModel` |
| `SessionProofs` | theorems of `Session` | extends it and `CommerceModelProofs` |
| `DeskProofs` | theorems of `Agents`, `Returns` and `Window` | extends them and `SessionProofs` |
| `HostProofs` | theorems of `Runtime` | extends it and `SessionProofs` |
| `EngineProofs` | theorems of `Engine` | extends it and `CommerceModelProofs` |
| `ToolProofs` | theorems of `Negotiation`, `Settlement`, `Split`, `Interop`, `Migration`, `Protocols`, `Coverage`, `Verifier`, `Adapters` | extends them and `SessionProofs` |
| `PortProofs` | theorems of `Saga` and `PortSagas`, of `PortAgents` (with `Toolkits`) and of `Conformance` | extends `PortSagas`, `Conformance` (with `PortAgents`), `SessionProofs` |
| `MC...` | instances for TLC; `MCSession` holds two desks, `MCTools` seventeen | extend the module they check |

### State and actions against the code

**CommerceModel.** The constants describe what a run of the program never
changes about a world: `Committed` (the money the subject sums to, or
`NoMoney`), `Parent`, `Children`, `MayBuy` (the initiator has the capacity to
buy). A commitment is `[state, history]`. `Transitioned`, `TransitionOk` are
`transitionCommitment`; `Synthesized` is `applyCommitmentPath`; `CheckI1` ..
`CheckI6` and `AuditClean` are `auditCommerce`; `GuardAccepts` and `MoveIn` are
the accepting path of `guardAction` and the world it returns.
`TreeRoot` is `treeRootOf` written without recursion: the topmost of the
commitments a chain of parent pointers reaches.

**Session.** `world`, `ledger`, `treeLedger`, `applied` are the variables of the
closure. `paid` is a history variable: what accepted, non-replayed verdicts told
the host to pay back. A proposal has exactly one of seven outcomes, each an
action: `Replay`, `Conflict`, `RefundInPart` (ledgers move, the commitment
stays), `RefundInFull` (it moves to Refunded), `Advance` (everything the ledgers do not
watch), `Reject`, and `RefundThrows` - the tree tally holds another currency,
`add` throws after the ledger, and for the last refund the world, were written.
A caller may pass any version the commitment ever had.

**Agents.** `plan` is what each agent read last, `log` the record of accepted
actions, `moves` a history variable counting the moves of each commitment.
`Read` is an agent calling `commitmentVersion`; `ActOnPlan` and `ActFreely` are
`propose` with and without that version.

**Returns.** `stage` is the stage of each opened RMA; `settling` the
`settle()` in progress, one step per line. No other action is enabled while it
runs, as the loop is synchronous. Stage changes, retries and settles of other
returns interleave around it.

**Window.** `refunds` and `admitted` are the two maps of the closure;
`RejectBurst` is the early return of the cap; `Delegate` the session's verdict
followed by `Enter` if it accepted a refund the window measures.

**Runtime.** `Process` is `process`: the session's outcome and the entry it
appends (none after an exception). `Restart` loses the session and keeps the log,
as `FileAuditStore` does. `StartReplay` and `ReplayEntry` are `replayLog`, over a
second instance of `Session` with state of its own (`Again`). `Tick` moves the
wall clock, so that a replay takes its actions at later instants.

**Saga and PortSagas.** `forward` are the steps the host kept, with their
overrides; starting a compensation plans it from the world of that moment and,
for `compensate()`, puts a fresh session in the place of the flow's;
`ValidateCompensation` is one turn of the loop over the plan: a skip, an accepted
step, or the first rejection, which ends it. Nothing else is proposed meanwhile.
In `PortSagas` the ports plan and run at once while the TypeScript one takes its
steps (`Unwind`), and `undone` is compared when it ends. `readings` is what the clock reads at
each step of a compensation: Python reads it in every transition, as TypeScript does, and the two read
the same. `SteadySagasSpec` is the part of `PortSagasSpec` in which no step is proposed before the last stamp of
its commitment.

**Engine.** A blocked event keeps `world` and adds no effect; a passing one is the
base step and the layers in the order of `stepModel`. `effects` accumulates what the
host was told; `agreed` and `approved` are history variables. The wall clock of
the concession session and the engine's clock are one reading.

**Negotiation, Settlement, Split.** Each operation has an accepting and a refusing
action; `standing`/`conceded`, `settled`/`count`, `children`/`tally` are the
variables of the closures. A split may be cut by hand or by `allocate`, whose
largest-remainder method is modelled in minor units.

**Verifier, Migration, Interop.** One turn of the loop is one
step: `Expand` and `StopAtBound` pop the queue, `Follow` and `Apply` take one hop,
a source is compared at a time. Sets the code iterates in insertion order are
enqueued in any order.

**Adapters.** A synthesis reads the clock once per step, so the
readings are any sequence of instants; a refused step leaves the bare final state.
`remote` is the platform's record and external: it carries a call out and
its status changes or does not, as the platform's words allow. The builder's
methods may be called in any order, `BuildOrder` early and again.

**Toolkits and PortAgents.** Every proposal is made to all four sessions. A port's
`...Propose` is its own `propose` written from its own source, as a function of a
session record; what is compared is verdict, states, ledgers, logs and the actors
blamed. No proposal names a version (that is `Ports`), and the clock stands still:
the Rust and Go guards append no history and so cannot notice a clock that was set back.

**Ports.** `world` is the world as the Rust verdicts return it, `appending` (a
history variable) the same world with the history entries `transitionCommitment`
would have added. `GuardAction` is the accepting path of `guard_action`.

**Grammar.** A token is its type and word; a page is a sequence of lines of
words with a comment at the end. `ParseFile`, `PrintDocument` and `Comments` follow
`parser.ts`, `format.ts` and `lexer.ts`; `FormatPage` is a formatting, `EditPage` an
author adding a comment or a blank line. Spelling, escapes and spacing within a line
are left out.

**Language and Authoring.** A declaration is its kind, name and fields in source order.
`CompileSystem`, `Ship`, `Resolve`, `Check`, `Build` are the entry points, `Sell` a host
that holds a price against the bounds it was handed.

**Workflow.** `CheckNode` and `LowerNode` are one node of the two passes; `FinishCheck`
adds the whole-program checks. `Answer`, `AnswerGarbled` and `ProviderFails` are what
the provider may return to the builder, `round` the rounds used up.

**Protocols.** `held` is the world the host keeps; each tool call hands it over, and the host
keeps `verdict.next` of an allowed move. `Violations` is the audit line by line, where
`CommerceModel` only asks whether there is a line; a line names the commitment it cites, as
`alternatives` depends on it. `MapProtocolAction` is the three mapping functions, `Gap` their
`{ ok: false }`. `MoneyFromMinor` divides by `MinorPerUnit`, ten to the digits of the currency.
`counted` are the counters of the collector, `judged` and `stated` history variables.

**Coverage.** A file is an outline, a sequence of lines with a kind and a depth; a line belongs
to the nearest one above that is less deep. `IsCovered` is `classifyDirect`: some list holds the
guard's statement before the sink's. `EditSource` and `AcceptGap` are the author, `AuditCommand` and
`EnforceCommand` the two commands. `RunsUnguarded` is not in the code: it says what a run
executes, which is what a report is right or wrong about.

**Conformance.** `RunFixture` is one turn of the runner's loop; what its rules say of a fixture is
compared with `CommerceModel`'s, `Adapters`' and `Pricing`'s.

### Slips

Modules hold some operators introduced by a comment that begins with "Slip".
Each is a plausible mistake in the operator that follows it: a dropped guard, an off-by-one, the
wrong key. No specification uses them. Putting one in the place of the operator
it sits before makes a property fail, which shows what the property is
sensitive to; `PROJECT.json` lists which.

### Abstractions

* Amounts are natural numbers of a unit finer than the currency's minor unit, and
  `Eps` is the tolerance in that unit: what `moneyEquals` accepts is strictly less
  than `Eps` away. Floating point rounding is not modelled. Plain numbers of a formula
  are in hundredths, with operands that divide evenly.
* The scenes of `Conformance` have balanced trees and subjects of one currency, so its copies of
  I-5, I-6 and of the first clause of I-1 are evaluated and never violated; fixture kinds that
  only the JSON schema judges are left out.
* A file of `Coverage` has one guard name, one declared sink name and no early returns between
  guard and sink; only whole percents are thresholds.
* Ids are unique (I-5) and a subject has one currency (first clause of I-1): both
  hold of every modelled world by construction, and neither is touched by any move.
  The breakdown clause of I-1 is `AddsUp` in `Pricing`; loyalty is left out.
* A history entry drops its reason and the copy of the instant inside `to`.
* The count in the ledgers, messages, fixes, and attribution
  sentences are left out: no decision reads them.
* The windowed session in the code distinguishes an absent list from an empty
  one; the model does not.
* Parent pointers have no cycle (`ForestAssumption`). `treeRootOf` stops at a cycle
  wherever it first comes back, which makes the root depend on where one starts.
  In the lockstep runs links go both ways, parent to child and back: with a link in one
  direction only the ports' tree checks differ.
* A refund names its amount in `to`; amounts are not negative (`Money`).
* A world may be *synthesized*: commitments known by their final state only, with
  the canonical path as their history (`applyCommitmentPath`).
* Versions, worlds and transforms of a migration, and the parties, names and keys of a
  document, are model values or words without spelling.

## 3. Runs

| Run | Question | Instance | Result |
|---|---|---|---|
| `session_orders` | Do slices, retries, stale versions, two currencies and a clock that may step back ever pay back too much, twice, or out of step with the state? Does any span, or any run of N refunds, pass a cap? | two desks. Session: a priced order (8 units, tolerance 2), an unpriced order, an id that does not exist; 15 requests, 2 instants. Window: both kinds of window over one part of a split order, refunds reported in any order over 3 instants, 8 requests | holds |
| `hosts` | Can an agent move a commitment it has not seen the present state of, and does the log say who did what? Is what is paid what was settled, whatever fails half-way and is retried? | two hosts over one world: a priced order with two lines, an unpriced one with lines in two currencies, on which `propose` throws. Agents: two, ten requests, an order that can be modified and accepted again. Returns desk: five returns of one or two lines | holds |
| `returns_throws` | Does a proposal that is not accepted leave no trace? | the returns desk of `hosts` | **fails** (finding) |
| `runtime` | Are the effects in the log the money owed, and does a replay rebuild the session? | a split order, 4 requests, a log of 4, one restart, 2 instants | holds |
| `runtime_clock` | Does a replay reproduce the verdicts when a delivery has a planned start? | three requests, one fulfillment | **fails** (finding) |
| `ports_conflict` | Do the ports that keep no history find the same plans stale as the guards that do? | one order, 2 agents, 3 target states | **fails** (finding) |
| `saga` | Does an unwinding end, is what it reports reversed reversed, does the tree's cap hold, do four toolkits agree? | a three-level tree and an unpriced order, 14 requests, flows of 3 steps, 2 compensations | holds |
| `engine` | Are events atomic, floors kept, settlements accounted for, auctions captured once? | a deal, three bids, five auctions, three profiles, two bounds, two packs | holds |
| `tools` | What each tool promises, one desk per behaviour | see below | holds |
| `coverage_guards` | Is every sink that is reported as covered guarded in every run? | the coverage desk of `tools` | **fails** (finding) |
| `gate_rounding` | At threshold 100, does a build with a gap fail? | the coverage desk of `tools`, 199 guarded sinks elsewhere | **fails** (finding) |
| `verify_bound` | Is a table called fixpoint-sound under a bound sound? | the verifier's desk of `tools` | **fails** (finding) |

The desks of `tools`:

| Desk | Property | Instance |
|---|---|---|
| negotiation | `StandingTellsMoves` | six prices, five steps, floor 5 of 8, one foreign price |
| settlement | `SettledWithinDue` | a total of 10, nine breakdowns, five settlements |
| split | `SharesWithinWhole`, `CutsComplete`, `RefusalRecordsNothing` | five wholes, nine weightings, four children |
| verifier, platforms | `SearchesAgree` (`SearchTellsTable`, `ReportAgreesWithSearch`) | five states with every pair of edges added, bounds none, 0, 1 and 2; 48 platform models |
| migration | `MigratedSoundly` | three versions; gaps, cycles, forks, wrong orders, transforms that repair and break |
| interop | `PictureIsWhole` | up to three sources, each within, at or beyond the tolerance |
| formulas, grammar, authoring | `LanguageIsFaithful` (`FormatKeepsMeaning`, `FilesKeep`, `DerivedIsLiteral`, `NoRuleLost`, `LintIsSound`) | every tree of two operators; every kind of block on one line, as written and word by word, with two edits; about ninety documents, three subjects |
| toolkits, conformance | `CopiesAgree` (`PortsAgree`, `RunnerJudgesAlike`) | an order of two parts, 17 requests, four logged actions; a scene, a sequence or a breakdown per manifest |
| bridge | `ProtocolsMoveSoundly` (`MovesAreAudited`, `RefundsAsStated`, `AdviceIsRight`), `ObserversTell` (`TallyTells`) | three protocols, two currencies with 0 and 2 digits, two instants, three calls |
| coverage | `ObserversTell` (`GateCatchesGaps`) | files of up to three lines, thresholds 67 and 100, one entry of the allow-list, one guarded sink elsewhere or none |
| workflow | `GeneratedWorkflowIsSound` | some 700 projects of up to four nodes, two rounds |
| builder, adapters | `OrdersMadeSoundly` | two lines, a clock of two readings; every status word of five platforms, two imports |
| all loops | `ToolsReturn` | the above |

**Bounds.** `MaxHistory` (4 to 8) bounds the history of a commitment a request may
still be made on (in most instances keys and the table end histories before it);
`MaxLog` in `Runtime` and `PortAgents`, `MaxRestarts` in `Runtime`, `MaxForward` (3) and
`MaxUnwinds` (2) in `Saga`, `MaxSteps` (5) in `Negotiation`, `MaxSettlements` (5),
`MaxChildren` (4), `MaxImports`, `MaxLines` and `MaxEdits` (2 each), `MaxCalls` (3) in `Protocols`,
`MaxOutline` (3) in `Coverage`, whose files may start with a function and a branch in it: two more lines
put a guard and a sink in every position to each other. `MaxRounds` (2) is a
parameter of the AI builder and `Width` (7 words) the line length of the formatter,
small so that tenders fall on both sides of it. Amounts are chosen so that two refunds
fit and three do not, one lands inside the tolerance, one just outside, and one
in another currency. Four units make a minor unit in `session_orders`, `engine` and `tools`, so
that the tolerance is 2 and "just inside" differs from "equal"; elsewhere `Eps` is
1, which makes `MoneyEquals` equality. Three levels are the smallest tree in which root, parent and child differ;
two orders the smallest world with a bystander; two agents suffice because a stale
plan needs one who reads and one who moves; three flow steps let a plan meet
a step that an earlier one overtook, two compensations a retry of what was already compensated.

Deadlock is checked in `session_orders`, `ports_conflict` and `engine`. It is not in
`hosts` (every return may be closed), `runtime` (a full log that has been replayed is the end),
`saga` (the last compensation ends the behaviour) and `tools` (a tool that has returned is done).

**Fairness.** `saga` assumes weak fairness of `Unwind`, a turn of `ValidateCompensation`, and `tools` of the turns
of the four loops (search, migration, comparison of sources, the two passes of the workflow
compiler). Each is a synchronous loop: once entered, nothing can stop the program from
taking its next turn, so the assumption is no more than that the process runs. It is
assumed of no caller and not of the AI provider, whose call has no timeout
(`crates/warp-core/src/ai_builder/builder.rs:351`): `ToolsReturn` says that an answer is
checked and lowered, not that one comes. The other runs assume no fairness, as libraries do
nothing unless a caller calls.

### What the failing runs show

* `returns_throws`: a tree whose root has no price accepts members in two
  currencies; the tree tally cannot add them, and `add` throws after
  `ledger.set` (`types/session.ts:316`). The refund was not accepted, and yet it counts
  against the cap: proposed again it is too much.
* `runtime_clock`: `propose` passes no clock, so transitions are stamped with the
  wall clock, and I-4 compares the stamp of Accepted with the planned start of
  fulfillments. An acceptance recorded before that start is rejected when
  replayed after it, though `runtime/replay.ts:15` promises the same verdicts.
* `ports_conflict`: the Rust and Go guards set the state and leave the history
  alone (`crates/warp-commerce-types/src/toolkit.rs:425`), so a version is `0:` and
  the state. An order that is modified and accepted again has the version it had,
  and a plan made before is not a conflict. `README.md:373` says the verdict is
  the same in all bindings. For the guard that appends, `NoStalePlan` is proved.
* `verify_bound`: a state at the depth bound is not expanded, and `truncated` is set
  only if it has an undiscovered successor (`types/verify.ts:193`). A forbidden edge
  from it back to a discovered state is never checked, and the verdict is
  "fixpoint-sound", which `types/verify.ts:24` explains as "every explored transition is
  legal" and the reachable machine as sound. Without a bound `SearchTellsTable` gives it.
* `coverage_guards`: `directStatementIndex` (`coverage/audit.ts:137`) climbs from a guard out of
  every branch to the statement of the sink's list that holds it, so a guard in an `if` counts for
  a sink after the `if`, though `coverage/audit.ts:6` says that a guard buried in a branch the sink is not in
  does not count. Where no guard is buried, `CoverageGateHolds` proves that the report is right.
* `gate_rounding`: the percentage is rounded before it is compared (`coverage/enforce.ts:51`), so with
  199 of 200 enforceable sinks guarded the gate of 100 passes, though `coverage/enforce.ts:5` says
  "At the default threshold (100%) the build fails if any such sink is unguarded". `GateCatchesGaps`
  therefore says nothing of how many gaps may pass; how far the rounding goes, half a percent and
  no more, is the theorem `GateRoundsAtMostHalf`.

### What the models leave aside on purpose

Behaviour met while modelling that no run is about, so that a reader of the properties knows
where their conditions come from.

* A return that names one line twice has one key for both (`types/returns.ts:271`): the second
  is answered as a replay and counted as settled, and the return is closed as refunded with its
  amount never paid. The lines of the returns in `hosts` are distinct, and `DistinctLines` is the hypothesis
  of `ReturnsPayOnce`.
* An alternative is said to be `bounded` when it "requires additional data" (`types/guard.ts:97`);
  the guard marks the move that was refused if some violation cites the commitment, whatever the violation, and never when
  only a delivery that started too early is wrong with an accepted commitment. `AdviceIsRight` says it so. The citation is a search for the id in the
  text of the violation (`types/guard.ts:354`), which `c1` inside `c10` answers too; `Bounded` compares ids,
  so ids of which one is part of another are left out.
* Entries of a log file are numbered from 1 again after a restart (`runtime/runtime.ts:93`).
* `compensate()` starts with empty ledgers, as `types/saga.ts:269` says: partial refunds of the
  flow are paid on top. `SagaPaysWithinTree` is about the session of the flow.
* Mapped on a clock that was set back, a commitment is a bare state without history, and the
  builder's order may be handed back with an acceptance later than its delivery; I-4 also blocks an order
  mapped again after its delivery. `OrdersMadeSoundly` speaks of clocks that run forward.
* Delivered in full, a Shopify order is Fulfilled whatever its financial status, so a refund
  is not seen; the statuses of Stripe, PayPal and Amazon never tell one. Partial refunds
  below a minor unit are rounded one by one by `toStripeAmount`.
* A commitment whose `children` name nobody in the world cannot be refunded in TypeScript (`types/session.ts:251`)
  and Python, and can in Go (`bindings/go/toolkit.go:452`) and Rust (`toolkit.rs:521`); `TwoWayLinks` leaves it out. A
  delivery under way of a commitment that was accepted in the session is early to the Rust and Go guards, which
  append no acceptance; `AgreedDeliveries` leaves it out.
* Over an unsound primary `reconcile` flags every source: the pair of primary and source does not
  unify, whatever the source says, and `conserves` is set to false (`types/reconcile.ts:142`).
  `types/reconcile.ts:40` says that `conserves` "is true when the source agrees with the primary within the
  model's minor-unit tolerance", and `types/reconcile.ts:68` keeps that apart from whether the merged view
  is valid. `PictureIsWhole` leaves open which agreeing lines are flagged there; it asks that a line that
  conserves agrees, that over a sound primary every agreeing line conserves, and that sources merge exactly
  when the primary is sound and all lines conserve.
* A comment on the closing line of a tender or leg that is put on one line becomes a
  leading comment of the next item (`lang/format.ts:19`); `FilesKeep` follows the comments on
  opening lines. Keys inherited from `Object.prototype` (`constructor`) pass the
  `in table` tests of `lang/parser.ts`; a file with one is read and then not formattable
  (`Formattable`). `INVARIANT_ALIASES[a.name]` (`lang/compile.ts:854`) likewise answers an asserted
  `toString`, which the model refuses as unknown. `formatNumber` writes exponents the lexer does not read.
* The trigger's language is emitted as the keyword `trigger` whatever the trigger is named
  (`crates/warp-core/src/dsl/codegen.rs:705`); `GeneratedWorkflowIsSound` excepts it.
* An unresolved system enforces no floor for a policy whose floor is a formula
  (`lang/artifact.ts:75` refuses to ship it); `NoRuleLost` is about artifacts and resolved models.

## 4. Theorems

All hold for every choice of the constants that meets the named assumptions:
any number of commitments, agents, requests, returns, log entries, steps of a flow,
prices, sources and hops; any tree shape; any tolerance; any instants. The bounds of the
instances (`MaxHistory` and the like) are parameters here too.

**Session and agents** (`SessionProofs`, `DeskProofs`)

| Theorem | Says |
|---|---|
| `SessionType` | the state keeps its type |
| `Conservation` | per commitment, what is paid back in its own currency is below the committed amount plus the tolerance; exceptions included |
| `HistoriesUnbroken` | every history is one path from Draft to the present state with stamps in order |
| `TreeTallyWithinRoot` | the tally of a tree, when in the root's currency, is below the root's amount plus the tolerance |
| `TreesConserve` | so is what is paid back over all members of a well-formed tree, however deep |
| `RefundsAgree` * | Refunded (in this session, in its own currency) exactly when paid back in full |
| `EachKeyOnce` * | whatever pays back or moves records a key not recorded before |
| `ImplementsRefundAccount` * | the session implements `RefundAccount` |
| `AgentsAreASession` | several agents holding old versions are one session: its invariants carry over |
| `AgentsConserve` | conservation over the combined actions of all agents |
| `NoStalePlan` | a versioned action moves a commitment only if it has not moved since the version was read |
| `LogTellsAll` | the log and the histories tell the same accepted moves in the same order |

**Returns, windows** (`DeskProofs`)

| Theorem | Says |
|---|---|
| `ReturnsPayOnce` (`DistinctLines`) | what is paid back is exactly the sum of the settled lines |
| `ReturnsGateMoney` | no line is paid before inspection; a closed return has all its lines settled |
| `WindowMeasures` | the refunds in the window add up to what was paid in the cap's currency |
| `WindowCapsSpans`, `WindowCapsRuns` | no span of a time window, no N consecutive refunds of a count window, pass the cap |

**Runtime** (`HostProofs`)

| Theorem | Says |
|---|---|
| `EffectsOweThePaybacks` | the refund effects of the log are the money owed, over any number of restarts |
| `ReplayReproduces` (`StartedIsAgreed`) | a replay at any later instants gives every verdict the log recorded |
| `ReplayRebuilds` (`StartedIsAgreed`) | a finished replay has the states, ledgers and keys of the live session |

**Engine** (`EngineProofs`)

| Theorem | Says |
|---|---|
| `EffectsTell` | the effects handed out and the histories tell the same moves in the same order |
| `AuctionCapturesOnce` | an auction that begins with at most one captured bid never has two |
| `FloorsHold` | no passed concession is below its floor by more than the tolerance |
| `SettlementsAccount` | an approved settlement's lines add up, and each tax line is its rate of the taxable base |

**Tools** (`ToolProofs`)

| Theorem | Says |
|---|---|
| `StandingFollows` | the standing price is that of the last recorded move, one price per move |
| `SettlesWithinDue` | partial settlements stay within what is due, and what is reported as remaining can be settled |
| `SplitsWithinWhole`, `RefusalsRecordNothing` | shares stay within the whole, a split with nothing left reconciles, a refusal records nothing |
| `CutsAreComplete` | `allocate` is a largest-remainder method: nothing lost or made up, every share within a unit of its due, in the order of the weights |
| `PicturesAreWhole` | any number of sources merge exactly when the primary is sound and every line of the report conserves; a conserving line agrees with the primary, and over a sound primary the converse |
| `MigratesSoundly` | only sound worlds are handed back, along a gapless chain without repetition |
| `GuardsAgree` | the guard that lists every violation allows what the yes/no guard of `CommerceModel`, and so of every session, allows |
| `BridgedMovesAreAudited`, `BridgedRefundsAsStated`, `BridgedAdviceIsRight`, together `BridgeMovesSoundly` | histories are unbroken and no move leaves a violation; a refund through a protocol is what the payload stated; a rejection offers the legal moves and marks the right one |
| `CollectorTellsVerdicts` | the metrics snapshot tells the verdicts shown since the last reset |
| `CoverageGateHolds` | where no guard is buried, a sink some run reaches unguarded is reported; the gate fails a build only over a gap or what it blocks, passes an exception only with its reason, and no file with gaps and nothing guarded |
| `GateRoundsAtMostHalf` | an enforce that passes has at most half a percent more gaps than its threshold allows, the extent of `gate_rounding` |
| `ObserversAreRight` | the two before in one, as the run checks them |
| `SearchesTellTrue` | the search finds what the table reaches within the bound, at least distance, with a shortest counterexample for each forbidden move above it; the report on a platform agrees with it |
| `FixpointWithoutBound` | "fixpoint-sound" of a search without a bound: the reachable machine is enumerated and legal |
| `OrdersSound` | imported orders and built ones have unbroken histories and audit clean when the clock ran forward, a status and a refund survive the way back to a platform, and a refund reaches it once |

**Saga, copies** (`PortProofs`)

| Theorem | Says |
|---|---|
| `SagaConserves` | a flow and its compensations pay back within what a tree's root committed |
| `UnwoundIsReversed` (`CompensationKeysApart`) | a compensation reported complete leaves no step of the flow standing |
| `StoppedIsOvertaken` * (`PricesFit`) | a compensation stops only where an earlier step of its plan, a refund on its tree, the clock or an override got in its way |
| `ToolkitsInLockstep` | the Rust, Go and Python toolkits give every proposal the verdict of the TypeScript one, and keep its states, ledgers, log and culprit |
| `CopiesDecideAlike` | the lockstep and the runner in one: the toolkits decide alike, and the conformance runner cites the auditor's rules, takes the steps the transition functions take, and exits with 0 exactly when the manifest expects what the library does |
| `UnwoundAlike` | a compensation plans, applies, skips and stops alike in the four toolkits, and leaves the same states, ledgers and keys |

**Hypotheses of theorems.** Those marked * assume `UniformTrees`: the priced members of a
tree share a currency; without it they are false, as `returns_throws` shows.
`DistinctLines`: no return names one line twice (section 3 tells what happens when one does).
`StartedIsAgreed`: a delivery that has started at the beginning is of a commitment accepted by then; without it
`ReplayReproduces` is false, as `runtime_clock` shows. `CompensationKeysApart`: no
caller gives its action the key of a compensation, which `saga.ts` derives from step ids;
`MCSaga` assumes the same, and TLC evaluates it. `GuardsStandOut`, inside `GateCatchesGaps`: no branch with a guard
in it ends before a sink of its function; without it the report is wrong, as `coverage_guards`
shows. `PricesFit`: the prices below a tree's root add up to
it and none is above it; `MCSaga` assumes it too, as it does `UniformTrees`. `TwoWayLinks`,
`UniformTrees` and `AgreedDeliveries` are conditions inside `PortsAgree`: outside them the toolkits differ
(section 3). They are conditions inside `PortsUnwindAlike` too. `PortAgentsSpec` and `SteadySagasSpec` propose at instants not before
the last stamp of the commitment (`OnTime`), as the ports that keep no history cannot tell. In `MCSaga` every
reading is the same, which makes `SteadySagasSpec` and `PortSagasSpec` one. `SchemaAllows`, in `ManifestsAssumption`, is what the JSON Schema
lets through to the runner; a manifest cites of a walk or a breakdown no rule but its own.
`MinorPerUnit` is any positive number per currency: the provers have no powers. `ImportsAssumption` gives the
types of what the adapters read, and says that the model's None is neither a commitment nor a fulfillment. All other assumptions are about the types of constants
(`MoneyAssumption`, `RequestsAssumption`, `PoliciesAssumption`, `BatchesAssumption` ...)
and stand with the constants they are about.

**The arguments.**

* *Sums.* Ledgers, trees, windows, returns, settlements and shares are all about sums over a
  finite set, and the sum is a recursive function over its subsets. The induction theorems of the
  library take an operator, which the provers cannot instantiate; `SubsetInduction` states
  induction over a *set* of subsets instead, from the well-foundedness of the strict subset
  ordering, and `SumInsert`, `SumUpdate`, `SumMonotone`, `SumAdd`, `SumScale`, `SumCounts` follow.
* *`Conservation`.* The bound on paybacks is not inductive, as `propose` never
  reads what was paid. `LedgerBounds` adds that paybacks never exceed the ledger
  and that the ledger is below the bound. The first is `<=`, not `=`: an
  exception leaves the ledger ahead of the paybacks.
* *`TreesConserve`.* The tally of a tree covers the sum of the ledgers of its members
  (`Covered`) - again `<=` because of the exception between the two writes.
* *`HistoriesUnbroken`* needs only type correctness: appending a legal transition extends a
  path (`TransitionedUnbroken`), a canonical path is one (`SynthesizedType`).
* *The theorems marked* * rest on `UniformInv`: the tally is always in the currency
  of a priced member, so `add` never throws (`NoClash`); then
  ledger and paybacks are equal (`LedgerExact`), and state and ledger agree. In
  the refinement each outcome of `propose` becomes a payment, a closing
  payment or a progress of the account, or a stutter.
* *Agents.* A proposal that takes effect carries no version or the
  current one, and the current one is among those `Session` lets a caller have
  (`CurrentIsReadable`). `AgentsInv` ties the length of a history to the number of moves,
  and the length in every version an agent holds to the moves it had
  seen: equal versions, equal lengths, equal numbers of moves.
* *Two tellings* (`LogTellsAll`, `EffectsTell`). Both compare two subsequences. A subsequence is a set
  of positions, and `Rank` the place of a position in it; `TellTheSame` says that positions of
  equal rank tell the same, and `TellOneMore` that it survives a last entry on each side. (Stated
  with `SelectSeq`, the property would be opaque to the provers.)
* *Returns* (`GateInv`, `PaidInv`). The key of a line is applied only by its own return after
  inspection, and while `settle` runs exactly the lines before the current one are settled. With
  distinct lines the current line's key is fresh, so that its refund is new money.
* *Windows* (`WindowInv`). Each check looks back from one refund. `SpansBelow` and `RunsBelow` are
  about every span and run among the refunds entered; a late report is covered because `Prior` has no
  upper end, which makes its sum at least that of any span holding the new refund.
* *Effects* (`OwedInv`). What the log says beyond the session of before the last restart is what
  the present one paid.
* *Replay* (`ReplayInv`). The live session and the replayed one are two courses of the same deterministic
  function of the accepted entries, up to stamps: after the same entries they have the same states, ledgers, keys and
  history lengths (`Follows`), and the recorded version is the current one in both. Stamps matter only to I-4, which is where
  `StartedIsAgreed` is used.
* *Sagas.* `MoneyInv` carries the bound through the plan, and only as long as the session is
  the flow's own: `compensate()` starts a fresh one. `FlowInv` says that every step before the
  cursor is reversed or was skipped because nothing is left of it; with keys of its own, a
  compensation answered as a replay was applied by this saga.
* *`StoppedIsOvertaken`* (`StopInv`). A default step was legal when it was planned, and stays legal until
  a step of the plan moves its commitment (`StillLegal`). A legal move of a world that audits
  can only be refused by a rule about the moved commitment; of these the reversal breaks none: a cancelled
  one commits no money, a refunded one pays what was committed, which fits in its tree when nothing was
  paid on it.
* *Lockstep* (`PortInv`). A refinement mapping: the session of a port is the TypeScript one with bare states for
  a world (`Followed` for Python, which keeps histories) and with the port's spelling of the keys, which is
  one-to-one. Each guard is proved to allow what `GuardAccepts` allows, check by check; `AgreedDeliveries` is
  why I-4 reads the same with and without the histories appended since.
* *The unwinding in four languages* (`UnwindInv`). When the TypeScript loop takes its first turn the loop of a port has
  run to its end. Its results are a function of the number of turns (`LoopExists`, `RanThrough`), and the invariant says that
  this function, at the turn the TypeScript loop has come to, has the counts reported so far and a session in step with the
  TypeScript one (`OnCourse`); a turn of the one is then a turn of the other by lockstep, and a result that stopped stays
  (`StoppedStays`). The session after the readings to come does not exist yet, so nothing is said of later results before
  they are reached. The plans are equal because they read states alone, of which the bare world has the same (`PlansAlike`).
* *The runner* (`SuiteInv`). Rule by rule: what it cites of a scene is what the auditor cites. A walk is a function of
  the number of steps taken, in the runner the state, in the library the object. Both equations have one solution
  each (`StepwiseExists`, `StepwiseAgree`), and by least counterexample the state of the object is the state.
* *Auctions* (`BidsInv`). The captured bid is the awarded one, and the auction's findings are compared
  before and after every event, so that a second one is a new finding.
* *`CutsAreComplete`.* The remainders come to a whole number of units (`LeftOverBounds`), at
  most one for each part that has one; the order by remainder and position is a strict total
  order, so exactly that many parts have fewer ahead of them (`RankCounts`).
* *Negotiation, settlement, reconciliation, migration.* Only keys of moves made are
  recorded, so that the next is fresh; lines are bounded by the sum of the totals; every source
  merged was within a tolerance of the first; the chain is a path through the offered
  migrations in which versions do not recur (`ChainInv`, `CourseInv`).
* *The bridge.* A list of violations is empty exactly when each check of the yes/no audit holds
  (`AuditsAgree`). In a world that audited, changing one commitment makes only violations that cite it
  or none (`OnlyTheMovedIsCited`), which is why marking by citation is right. `HeldInv` keeps
  the history types the unbroken paths need, `StatedInv` ties what a payload stated to the refund
  that is held, and minor units divide exactly (`MinorsAreExact`).
* *Metrics* (`TallyInv`). The violations of a verdict are finite (`FinitelyManyViolations`), so that
  one more verdict adds one to one counter of blocks and the size of a set to each rule.
* *The search* (`SearchInv`). What n moves reach is a recursive function; its equations
  (`WithinIs`) come from an explicit solution, the ends of the walks of n moves or pauses, and
  what else is needed of it from a least counterexample. The queue is in the order of the depths, at most one apart,
  and no expanded state is deeper than its head; so when the head at depth d is
  expanded everything within d moves has been discovered (`DiscoveredWithin`), and what is new is at d + 1
  exactly. A state at depth d means d + 1 states (`ReachedBelowCount`).
* *Coverage.* The lines around a line are nested (`AboveNests`), so every list that holds it has
  a statement that does (`StatementExists`). If the guard's statement is the earlier one, the
  guard's line is (`GuardStandsBefore`); if it is in no branch the sink is not in, any run that takes
  the sink's branches has passed it. `GateInv` says that an
  exit code is the verdict on the report as it stands. How much the rounding hides is its arithmetic (`ThresholdHolds`);
  without gaps the percentage is at least 100 (`NoGapIsWhole`).
* *Orders* (`AdaptersInv`, `BuilderInv`). A drive to a state is one table of results: the object after i steps
  is either refused or the i-th waypoint of the path, in order, with the stamps read so far (`TravelsOn`, `PathApplied`). So the outcome
  is the driven object, with an acceptance at its second stamp, or the bare one; a clock that runs forward refuses
  no step (`Synthesis`, `DeliverySynthesis`). The adapters' invariant adds to the property what the next
  import needs: the types of the platform's record and of the order held, that its last stamp is one
  already shown, and that a refund told to the platform is told by the order or by the platform's own
  word (`RefundTold`). Amounts in Stripe's minor units are the unique quotient (`QuotientIs`, `StripeExact`).

TLC has checked every invariant and property named in the theorems, and the inductive
invariants before they were proved (`TreeTallyWithinRoot`, `TreesConserve` and
`AgentsAreASession`, whose statements are no run's property, excepted; `PortsAgree` is half of `CopiesAgree`;
`NoStaleMove` and `LogTellsMoves` are checked of the instance of `Agents` in `MCHosts`, which has a session of its own).

**Only model-checked:**

* Liveness (`UnwindingEnds`, `ToolsReturn`): neither fairness nor ENABLED is within reach.
* `LanguageIsFaithful`, `GeneratedWorkflowIsSound`: `Grammar` (with
  `Language` and `Authoring`) and `Workflow` use recursive operators, about which TLAPS
  proves nothing.

## 5. Plan

What is left, in the order in which it is worth having:

1. Theorems: a refinement of `RefundAccount` by the sessions of the ports.
2. An audit log whose append fails or is cut off, beside the restart.
3. Two clocks in the engine; a clock set back in the lockstep of the ports that keep histories.
4. Loyalty points and the adapter registry.

Instances stay at two to five commitments and at most seventeen requests, which
is where each run ends within minutes.

## 6. Not modelled

* In modelled components: `guardObject`, messages and fixes; of the MCP server the tools that
  only read, of the coverage tool the discovery of sink names and the parsing of TypeScript; the loyalty
  clause of I-1 and conversions; a failing or truncated write of the audit log; `auditData`'s
  report per object; the mapping of customers, carts and products by the adapters (field
  copies); deserialization in Rust and Go; the spelling of words in either language, and the
  parser and generated text of workflows.
* Whole components: attestation (canonical JSON and signatures, no state), the
  adapter registry (a map whose operations are one assignment each), the Rust MCP server
  (a stateless wrapper), visualizer and agent demo,
  the language server and command lines, and data and prose (schema, generated types, conformance
  vectors and their generators, case studies, examples).
