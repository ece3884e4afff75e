# Verification of Autonomous Intelligence

This directory specifies the transactional file-action layer of the repository
in TLA+, checks it with TLC and proves its core with TLAPS. Source references
are relative to `src/autonomous_intelligence/` unless they name another
directory.

## 1. Inventory

The system executes file actions (`read_file`, `write_file_atomic`) for an
untrusted planner, so that a crash at any point leaves something that recovery
can decide.

| Component | State | Operations | Talks to |
|---|---|---|---|
| `ExecutionBroker` (broker.py) | none of its own between calls | `submit`, `status`, `reconcile` | policy, ledger, approvals, executor, human |
| `BrokerLedger` (storage.py:253) | `broker_attempts`, `approvals` (SQLite, durable) | `accept`, `transition`, `receipt`, `record_approval`, `consume_approval` | – |
| `ApprovalAuthority` (approval.py) | secret file | `issue`, `consume` | ledger, clock |
| `SemanticActionExecutor` (actions.py) | the workspace's files | `execute`, `verify`, `precondition_allows_retry` | file system |
| `BrokerPolicy` (policy.py) | none | `evaluate` | file system |
| `AutonomousEngine` (engine.py) | none of its own between calls | `execute`, `recover` | journal, Broker |
| `EngineJournal` (storage.py:95) | `engine_attempts` (SQLite, durable) | `prepare`, `pending`, `transition` | – |
| IPC (ipc.py) | listener, its queue, the connection being served | one call per connection, served one at a time; `shutdown` | Engine to Broker |
| Key files (ipc.py:18, approval.py:46) | `ipc.key`, `approval.key` | load, or create when missing | every process that starts |
| MCP adapter (mcp_server.py) | an Engine and a lock | five tools | Engine, Broker |
| Command line (cli.py) | an Engine per invocation | broker, read, write, recover, status, shutdown | Engine, Broker |
| `client_config` | none | renders configuration | – |

How they interact. An Engine writes PREPARED to its journal, calls `submit` over
a connection of its own and waits. The Broker accepts one connection at a time
and runs the call to its end: it records the attempt ACCEPTED, asks the human
when the action is a write, records and consumes an approval token, commits
IN_FLIGHT, executes, commits DELIVERY_ATTEMPTED and returns the receipt. The
Engine commits DELIVERY_ATTEMPTED, has the Broker `reconcile` (which evaluates
the postcondition) and commits VERIFIED. After a crash of either side
`recover()` walks through the pending rows of the journal, asks the Broker for
the status of each, and resubmits, resumes, verifies, retries under a new
attempt_id, or gives up as UNCERTAIN.

What is hard. Either process may die between any two commits. The Broker goes on
with a call whose client died, and dies of the reply it cannot send. Other
programs write to the workspace at any time, also between the executor's checks
and its replacement. Approvals expire between issue and use. Invocations of the
CLI share a journal and run at the same time, and so do the tool threads of the
MCP adapter, under a lock. Two Brokers may be started on one ledger (`broker
--pipe`). Processes create the key file at the same moment. One exception ends
the whole of `recover()`. `hazards` in PROJECT.json lists these with their
lines.

What makes each component correct:

- Broker and ledger: no effect without a fresh consumed approval for exactly
  that payload; no effect outside of IN_FLIGHT; at most one effect per attempt;
  a delivery is recorded only with evidence; no handler meets a forbidden
  transition.
- Executor: what is replaced is what was checked. The code gives that only where
  no other program writes (MCSwapRaced.cfg).
- Engine and journal: the journal knows all that the Broker knows; it never
  contradicts the ledger; VERIFIED means that the postcondition holds; every
  pending attempt is settled in the end.
- Both together: one effect per logical operation, one live attempt per
  operation, nothing dispatched for an operation once it is VERIFIED, a
  superseded attempt is retried.
- IPC: a call is handled at most once, and is answered with its own response or
  fails; nothing is handled after a shutdown; the address is free for the next
  Broker.
- Key files: all processes that run have the same key, which is never replaced.
- MCP adapter: the lock keeps journal and ledger consistent, and the two states
  that the status tool shows are compatible.

## 2. Modules

| Module | What it is |
|---|---|
| `Models` | requests, states, transition tables, replies (models.py, errors.py, the tables of storage.py, what a result can be) |
| `Broker` | the Broker's process over ledger, approvals and files; its properties and its inductive invariant `BrokerInv` |
| `DispatchContract` | the abstract specification of an attempt: status, subject, consent, effects |
| `OperationContract` | the abstract specification of a logical operation: one compare-and-swap and one truthful outcome |
| `CallContract` | the abstract specification of a call: handled at most once, its outcome |
| `Engine` | processes that share a journal, with their calls to a Broker left open |
| `TransactionSystem` | `Broker` and `Engine` joined by connections; crashes of either side; the properties of the whole |
| `Mcp` | `TransactionSystem` with the tools of the adapter on threads, the lock, and what the host is told |
| `Ipc` | the listener, its queue, the socket file and the server loop |
| `KeyFile` | processes that load or create a key file |
| `SharedLedger`, `TwoBrokers` | a Broker whose `get()` and `accept()` are two transactions, and two of them on one ledger |
| `MC...` | instances for TLC; `MCLiveness`, `MCIpc` and `MCKeyFile` add fairness and bound the faults, `MCSystemQuiet` states what the theorems about operations assume |
| `BrokerProofs` | the theorems about the Broker alone |
| `SystemProofs`, `RetryProofs`, `AgreementProofs`, `OperationProofs` | the theorems about Engines, adapter and Broker, each module on top of the one before |
| `TwoBrokersProofs`, `IpcProofs`, `KeyFileProofs` | the theorems about two Brokers, the transport and the key files |

How they compose. `TransactionSystem` extends `Broker` and `Engine` and joins
them; `Mcp` extends it. `TwoBrokers` instantiates `SharedLedger`, which extends
`Broker`, twice. `Ipc` looks below the one-call-at-a-time that `Broker.Receive`
and `Reply` take for granted: what a call does is one action there. The three
contracts are refined by `Broker` (`ImplementsContract`), `TransactionSystem`
(`ImplementsOperations`) and `Ipc` (`ImplementsCalls`).

**Data.** An operation stands for everything `canonical_payload` hashes besides
the attempt_id, so two requests have equal hashes exactly when they name the
same operation. A content stands for its SHA-256 digest; `Absent` is the `None`
that `file_sha256` returns for a missing file. A result is nothing, the content
that was read or written, or the mark `{"reconciled": true}`.

**Broker.** The record `broker` is what the process holds in memory: where it is
in which call (`pc`), the call's arguments, the approval, the result so far and
the reply. One action is one SQLite transaction or one look at the workspace, so
that a kill, an edit or an expiry can fall between any two. `Commit` is
`BrokerLedger.transition`: it returns before the UPDATE when the row is there
already, and turns a forbidden transition into the reply `InvalidTransition`.
`Resume` goes on with the parameters of the row, not with those of the call
(broker.py:64); the comparison of the hashes before it makes them the same.

| Action | Code |
|---|---|
| `Receive`, `Reply`, `ReplyBroken` | ipc.py:58-71, the serve loop; the last is a `send_bytes` that raises |
| `Accept`, `Refuse`, `ReplayConflict`, `Resume`, `Duplicate` | broker.py:53-70 |
| `Deny`, `Issue`, `Consume`, `ConsumeExpired` | broker.py:77-88, approval.py, storage.py:415-448 |
| `Dispatch`, `Raise`, `Deliver`, `ReturnReceipt` | broker.py:90-118, 49-50 |
| `ReadFile`, `CheckPrior`, `CheckTarget`, `Replace`, `CheckWritten` | actions.py:51-96 |
| `ReconcileSettled/Present/Absent/Retry/Uncertain` | broker.py:120-157, actions.py:33-49 |
| `CallFails` | an error of the surroundings that ends a call before it commits more: the prompt raises (broker.py:78, 182), hashing a file raises during `reconcile` (actions.py:12-20) |

**Engine.** The record `engine[e]` holds where process e is, on which attempt,
which attempts of its snapshot of `pending()` are left, the result of the
receipt and the reply that has arrived. `JournalCommit` is
`EngineJournal.transition`. `Execute` takes a fresh attempt and a fresh
operation because `ActionRequest.create` does (models.py:77-91). `Raised` drops
the rest of the snapshot: an exception leaves `recover()`.

**TransactionSystem.** `Connect` and `Respond` carry a call and its reply;
`Transported` is the mapping of exception types in `_call` (ipc.py:121-130),
under which a RecoveryRequired arrives as the base class. `BrokerCrash`,
`EngineCrash`, `ConnectionRefused` and `HangUp` are what happens to a call whose
other side is gone. A request in `Oversized` exceeds MAX_MESSAGE_BYTES: the
client raises after it has connected (`TooLarge`), hangs up, and the Broker dies
of the reply (ipc.py:64-70, 113-117).

**Mcp.** The Engines are the threads. `Enter` takes the application's lock and
`Release` gives it back when the tool returns or raises; the file tools
(`FileTool`), `RecoverTool` and `StatusTool` all run under it
(mcp_server.py:157, 208, 231). `StatusTool` reads the journal, then inquires at
the Broker. `Category` and `Suggestion` are `_execute`'s handlers and the advice
they give (mcp_server.py:318-363). `AdapterCrash` ends all threads at once.

**Ipc.** `call[c]` is how far the client of a call is, `server` the loop's local
variables (`response` outlives the connection, as it does in the code) and
`socket` the file at the address. `Vanish` is the end of the process: the
orderly ones (`Close`, and an exception out of the loop, `AcceptFails` and
`ReplyFails`) unlink the file, `Kill` does not. An exception out of the loop
passes through the `with`/close of the listener in the same way as Ctrl-C does.

| Action | Code |
|---|---|
| `Connect`, `Refused`, `Send`, `TooLarge`, `Die` | ipc.py:110-119, the client's side |
| `Listen`, `Accept`, `AcceptFails` | ipc.py:55-60 |
| `Receive`, `ReceiveFails`, `Handle` | ipc.py:61-69 |
| `Reply`, `ReplyFails`, `Again`, `Close` | ipc.py:59, 70-71, 83-85 |

**KeyFile.** `Look` is `exists()`; `Create` and `CreateRaced` are `open("xb")`;
`Write` is the write with its flush; `Read` may find the file empty; `Accepted`
and `TooShort` are the test of the length. Both files are loaded so.

**TwoBrokers.** `LookUp` is `get()` that found nothing, `Insert` and `Find` are
the two ends of `accept()`. A `Find` goes on with the row of the other Broker
without a look at its state, as `submit` does (broker.py:67-77).

**Mutants.** A definition named `...Mutant` is its neighbour with a plausible
bug. No specification uses it; it shows that a property can fail.

## 3. Runs

| Run | Module / cfg | Question | Result |
|---|---|---|---|
| broker | MCBroker | Does the Broker keep its invariants and implement `DispatchContract` for any client? | holds |
| system_quiet | MCSystemQuiet | With nobody else writing, and a request that is too large: one effect per operation, one truthful outcome (`OperationContract`)? | holds |
| mcp | MCMcp | Two threads under the lock, every tool, crashes, oversized and rejected requests, a program that edits the file: do journal and ledger agree, has REJECTED no effect, is no internal error met, is the status shown consistent? | holds |
| two_engines | MCTransactionSystem / MCTwoEngines | Two processes on one journal, beside an editor: journal first, one live attempt, nothing dispatched for a VERIFIED operation? | holds |
| settles | MCLiveness / MCSettles | Is every write attempt settled and every call answered, beside an editor, with a request that the policy rejects? | holds |
| two_brokers | MCTwoBrokers | Two Brokers race on one attempt_id under three payloads: no effect without its approval? | holds |
| ipc | MCIpc | Does the transport implement `CallContract` over kills, deaths of clients and a shutdown; do calls end; is the address free again? | holds |
| key_starts | MCKeyFile / MCKeyStarts | Do all processes have one permanent key, and do all start in the end? | holds |
| restored | MCRestored | One effect per operation when a write is undone before recovery? | violated |
| lost_retry | MCLostRetry | Is a superseded attempt retried? | violated |
| missing_file | MCMissingFile | Is every attempt settled when a read finds no file? | violated |
| read_recovered | MCReadRecovered | Has a VERIFIED read its content? | violated |

**Bounds.** One path, since an attempt touches one path and nothing relates two;
two or three contents (before, after, and something else); two attempt_ids for
the Broker alone, where four operations compete for each, and three in the
composed system, where two retries must fit or two operations and a retry (in
the liveness runs there is one attempt for each operation and one for each
crash, since an attempt is retried only after a crash: with fewer an Engine
would wait for an attempt_id for ever, which the code never does); two in `mcp`,
for two operations or one and its retry, with two threads that compete for the
lock; approvals as many as the attempts can use (one more for the Broker alone,
so that an expired or abandoned token can be replaced; two in `system_quiet` and
`two_engines`, so that a retry could have an effect beside the first).
`two_engines` has one operation, an unconditional overwrite, since an editor can
always make its retry safe again. The operations are the kinds that the code
tells apart: a create, a swap with a prior hash, an unconditional overwrite, a
read, a request the policy rejects, one that is too large (`mcp`,
`system_quiet`). `two_brokers` has one attempt_id, since the race is for one
row, and three approvals, one for each Broker and one to spare. `ipc` has three
clients, one of them oversized, and a shutdown: one is served, one queued before
and one behind the shutdown. `key_starts` has three processes, so that one
creates, one races it and one reads, and two kills. The safety runs of Broker,
Engines and adapter bound neither crashes nor edits nor calls. When attempts or
approvals run out no new request starts or no human says yes; calls, kills and
recoveries go on.

**system_quiet** leaves out other writers, because `OperationContract` speaks of
the content of the file at one moment and another program may change it at the
next one. It leaves out `restore`, with which **restored** shows
`EffectOncePerOperation` to fail. That a write replaces what it checked is no
question to this run: a Broker that serves one call at a time cannot come
between its own check and its replacement. `ReplacesOnlyWhatItChecked` is stated
for a workspace with other writers, where MCSwapRaced.cfg refutes it.
**two_engines** does not check `JournalAgreesWithLedger`, `NoInternalError` and
`RejectedHasNoEffect`: they hold for one process per journal, which the lock of
the MCP adapter gives (**mcp**), and MCRejected.cfg shows how concurrent CLI
invocations break the last one. (The CLI's journal is another one than the
adapter's: `engine` and `mcp-engine` in the state directory.)

**Fairness (MCLiveness).** A running Engine or Broker goes on: each is a
sequential program between its waits. The human at the Broker's prompt answers
one way or the other. Somebody starts the Broker again when it is down
(`BrokerStart`), and the host calls recover while something is pending, as the
tool's description tells it to (mcp_server.py:216-219). Nothing is assumed about
faults, edits or new requests. Faults (crashes, and errors of
the operating system or of the prompt) are limited to `MaxFaults`: without a
limit, a process that dies at each attempt settles nothing. CHECK_DEADLOCK is
FALSE in these configurations because the system really stops once all
operations are settled and no faults are left.

**Fairness (MCIpc).** The server loop goes on, a Broker that is down is started
again, and a client that has finished its handshake goes on to its send, unless
it is in `Suspended`. Nobody has to make a call, to die, to kill the Broker or to
remove a file. `ListensAgain` is stated up to the first kill (`killed`), after
which the socket file may be in the way (MCIpcKilled.cfg).

**Fairness (MCKeyFile).** A process that loads its key goes on, and one that
could not start is started again. Kills happen at every point, `MaxKills` of
them; once a kill has left an empty file (`Spoilt`) nothing is promised
(MCKeyKilled.cfg).

## 4. Where code and documents disagree

1. **restored** (broker.py:143, README.md:47). Write `swap` (c1 to c2), lose the
   receipt, let `restore` (c2 to c1) run, recover: the target holds the expected
   prior content, so `swap` is superseded and dispatched again. That the prior
   content is there does not prove that nothing was delivered.
2. **lost_retry** (engine.py:80, README.md:226). SUPERSEDED is committed before
   the retry is prepared; a crash in between leaves nothing pending.
3. **missing_file** (engine.py:35, mcp_server.py:217). A read of a missing file
   raises FileNotFoundError in the policy, which `execute` does not turn into
   REJECTED. The attempt is resubmitted and raises at every recovery, and the
   attempts behind it are never reached.
4. **read_recovered** (engine.py:65, docs/PROTOCOL.md:43). A read cut off in
   flight becomes VERIFIED without content, because its postcondition is only
   that the file exists.

Further instances, in the order of the code. Each of these configurations states
one property that TLC refutes:

| Configuration | Property | What TLC shows |
|---|---|---|
| MCSwapRaced | `ReplacesOnlyWhatItChecked` | The hash is compared at actions.py:69 and `os.replace` runs at line 87: another program's write in between is replaced unseen ("safe compare-and-swap overwrites", mcp_server.py:172). |
| MCBrokerGivesUp | `GivesUpOnlyWithoutPrecondition` | With a prior hash, an absent target is given up as UNCERTAIN (actions.py:47); docs/PROTOCOL.md:51 lets it be retried. |
| MCKeyKilled | `StartsAfterAnyKill` | A kill between `open("xb")` and the write leaves an empty key file, and every later start raises ValueError (approval.py:54, ipc.py:25). |
| MCIpcKilled | `ListensAlways` | A kill leaves the socket file, and `bind` fails until it is removed (ipc.py:57). |
| MCIpcSilent | `CallsEnd` | `recv_bytes` has no timeout: a client that stops after the handshake keeps the server from all others (ipc.py:61; "tools fail visibly", README.md:96). |
| MCIpcOversized | `EndsOnlyWhenAsked` | The client raises at its own limit and hangs up, and the Broker ends of the reply (ipc.py:70, 115; mcp_server.py:42). |
| MCOversized | `EveryAttemptSettles` | Such a request stays PREPARED and ends the Broker at every recovery, before the attempts behind it (ipc.py:115, engine.py:46). |
| MCMcpStopped | `StoppedBrokerIsReported` | A Broker stopped during a call raises EOFError at the client, which is no OSError: `internal_error`, not `broker_unavailable` (mcp_server.py:344; docs/CLIENT_SETUP.md:153). |
| MCMcpAdvice | `AdvisesRecovery` | RecoveryRequired arrives as its base class (ipc.py:124), so the host is never advised to recover (mcp_server.py:360). |
| MCRejected | `RejectedHasNoEffect` | With two CLI invocations: an approval expires, the second one recovers the attempt and delivers it, the first one then marks it REJECTED (engine.py:35; tests/test_transaction_core.py:64). |
| MCTwoDispatch | `EffectAtMostOnce` | A transition to the current state returns silently (storage.py:370), so two Brokers both pass the IN_FLIGHT commit (docs/PROTOCOL.md:8). |
| MCTwoApprovals | `EffectsUseUpApprovals` | A Broker that finds the other one's row IN_FLIGHT dispatches under the approval already in it (broker.py:70-77; docs/PROTOCOL.md:10). |

## 5. Proofs

Everything is proved for all values of the constants that satisfy the
assumptions of the modules: attempt_ids are positive numbers, parameters are
well typed, the editable paths are paths, and the reserved values (`NoOperation`,
`Absent`, `NoHash`, `NoResult`, `Reconciled`, `NoApproval`, `NoEngine`, `NoCall`,
`Missing`, `Empty`) are none of the operations, contents, approval ids, Engines,
calls and keys. Five theorems need more of the surroundings. Those hypotheses are
stated in the theorem itself and in the last column here:

- `Undisturbed`: no other program writes a file of an operation. The two
  refinement theorems of `OperationProofs` ask for `Editable = {}`, since the abstract
  specification shows all files.
- `NothingRestored`: the contents of each file have an order along which every
  write leaves the file as it is or takes it forward, so that no sequence of
  writes brings back what one of them replaced.
- `OneEngine`: a single process uses the journal.

They are not idle. MCSystemQuiet.tla assumes all of them, so TLC finds them true
of the instance of **system_quiet**, with a swap and an overwrite that
compete. **restored** drops the second and refutes the property. A writer besides
the Broker (the first) can do what `restore` does there, and can change the file
between the reconciliation and VERIFIED. MCRejected.cfg drops the third.

| Module | Theorem | Statement | Under |
|---|---|---|---|
| `BrokerProofs` | `BrokerInvariant` | `BrokerSpec => []BrokerInv` | |
| | `BrokerTypeCorrect` | `BrokerSpec => []BrokerTypeOK` | |
| | `AtMostOneEffect` | `BrokerSpec => []EffectAtMostOnce` | |
| | `ApprovalBeforeEffect` | `BrokerSpec => []EffectWasApproved` | |
| | `DeliveriesAreReal` | `BrokerSpec => []DeliveryHasEvidence` | |
| | `TransitionsAreLegal` | `BrokerSpec => []NoInvalidTransition` | |
| | `RecordedEffects` | `BrokerSpec => EffectIsRecorded` | |
| | `EffectsAreNotRetried` | what is superseded had no effect | `Undisturbed`, `NothingRestored` |
| | `BrokerImplementsContract` | `BrokerSpec => ImplementsContract` | |
| `SystemProofs` | `SystemInvariant` | `Spec => []SystemInv` | |
| | `SystemTypeCorrect` | `Spec => []TypeOK` | |
| | `JournalBeforeBroker` | `Spec => []JournalFirst` | |
| | `SystemRunsTheBroker` | `Spec => BrokerSpec` | |
| | `SystemKeepsContract` | `Spec => ImplementsContract` | |
| `RetryProofs` | `OneLiveAttemptAlways` | `Spec => []OneLiveAttempt` | |
| | `OneEffectPerOperation` | `Spec => []EffectOncePerOperation` | `Undisturbed`, `NothingRestored` |
| `AgreementProofs` | `McpInvariant` | `McpSpec => []McpInv` | |
| | `McpTypeCorrect` | `McpSpec => []TypeOK` | |
| | `JournalAgrees` | `McpSpec => []JournalAgreesWithLedger` | |
| | `RejectedWithoutEffect` | `McpSpec => []RejectedHasNoEffect` | |
| | `NoToolFailsInternally` | `McpSpec => []NoInternalError` | |
| | `StatusShownIsConsistent` | `McpSpec => []StatusIsConsistent` | |
| | `AgreementAlone` | `Spec => []AgreeInv` | `OneEngine` |
| `OperationProofs` | `VerifiedIsDone` | `Spec => VerifiedIsNotRedone` | |
| | `SystemImplementsOperations` | `Spec => ImplementsOperations` | `OneEngine`, `Editable = {}`, `NothingRestored` |
| | `AdapterImplementsOperations` | `McpSpec => ImplementsOperations` | `Editable = {}`, `NothingRestored` |
| `TwoBrokersProofs` | `ApprovalBeforeEffectOfTwo` | `TwoSpec => []EffectWasApproved` | |
| `IpcProofs` | `IpcInvariant` | `Spec => []IpcInv` | |
| | `IpcTypeCorrect` | `Spec => []TypeOK` | |
| | `ShutdownIsFinal` | `Spec => NothingAfterShutdown` | |
| | `IpcKeepsContract` | `Spec => ImplementsCalls` | |
| `KeyFileProofs` | `KeyInvariant` | `Spec => []KeyInv` | |
| | `OneKey` | `Spec => []KeysAgree` | |
| | `KeyIsNeverReplaced` | `Spec => KeyIsPermanent` | |

**The Broker.** None of the properties is inductive alone: that `applied` stays
at one needs that a process about to replace a file has not done so yet, which
holds because its row was ACCEPTED when it dispatched. `BrokerInv` adds two
parts. `CallInv` says what the process knows at each step of a call: before the
dispatch its row is ACCEPTED with the call's operation; from the dispatch to the
delivery it is IN_FLIGHT and a write has its consumed approval in it; before the
replacement nothing has been applied; at the delivery a write has been applied
once and its content is the result. `RowInv` says what a row says of the
effects: none while it is unrecorded, ACCEPTED or REJECTED, and no approval in
an ACCEPTED row.

The argument goes conjunct by conjunct. `WritingSteps` reduces the actions to
the eleven that write rows, approvals or effects; `CommitsAreLegal` shows from
`CallInv` that each commit is in the table; `CommittedRow` says what each leaves
in the row. Then `TypeStep`, `CallStep`, `RowStep`, `AtMostOnceStep`,
`ApprovedStep`, `EvidenceStep` and `NoInvalidStep` preserve one conjunct each.

**The contract of an attempt.** `ContractInv` adds to `BrokerInv` that approvals
name an attempt and an operation only once they are issued, so that consent is
never withdrawn (`IssuedStep`). `Invisible` shows that a step that changes
neither rows nor effects and consumes nothing is a stutter of
`DispatchContract`, `CommitStep` maps each commit to its move, and
`ContractStep` goes through the actions.

**Effects that stand.** While nobody else writes, what the executor has checked
stays so until the replacement (`CheckedInv`), because only `Replace` changes
the file (`FilesStay`). For retries the Broker must be right when it takes a
missing postcondition and a matching precondition as proof that nothing was
done. `StandingInv(order)` says why it is, over any number of later writes: the
file of a write that had its effect holds its content or a later one in the
order, never again what it replaced, so its precondition no longer holds
(`ReplaceStands`), and the write is not superseded.

**The composed system.** `JournalFirst` is not inductive: the Broker may be
about to accept what an Engine asked for, so the invariant must say that this is
in the journal. `SystemInv` therefore adds that every process of Engine is
`Sound` (what it works on, and each attempt in its snapshot, is in the journal
under that operation) and that a submission the Broker has received is. The
journal never loses a row nor changes its operation (`RowsKept`), so that what
is sound stays sound (`SoundStays`); `EngineStepKept` and `EnginePart` show each
step of an Engine and of a connection to lead to a sound process, and `NewRow`
and `SubmitIsRecorded` that the Broker's rows come from recorded submissions
only. `BrokerPart` shows every step of the system to be a step of the Broker's
own specification or a stutter of it: with it the theorems about the Broker,
the refinement included, hold in the composition (`SystemRunsTheBroker`).

**Retries.** An Engine makes a second attempt only after the Broker has said
RETRY_SAFE of the first, but the two happen in different processes and any
number of steps apart. `RetryInv` adds two parts to `SystemInv`. `ServingInv`: a
call the Broker serves and the connection has not lost is the one its Engine
waits for. `GrantInv`: whoever holds a grant, from the Broker's commit over the
reply on the connection to the new attempt in the journal, is alone with the
operation, and all attempts at it so far are superseded. The Broker grants as
it supersedes, and what is superseded stays so (`SupersededStays`), so a second
recovery of the same attempt is refused; `NewAttemptStep` and
`ReconcileRetryStep` are the steps where a grant is spent and made, `QuietStep`
the others.

Hence one effect per operation (`OneEffectPerOperation`): of two attempts at it
one is superseded, and where effects stand that one had none.

**Verified operations.** For any number of Engines, and with other writers:
`FoundInv` says that where EFFECT_PRESENT is on its way (at the Broker, on the
connection, with an Engine) or VERIFIED is in the journal, the row has been
dispatched (`Sent`: DELIVERY_ATTEMPTED or UNCERTAIN). Rows stay so (`SentStays`),
only `FoundPresent` writes VERIFIED (`OnlyFoundIsVerified`), and an operation
with a dispatched attempt has no ACCEPTED one beside it, by `OneLiveAttempt`. A
dispatch starts from ACCEPTED (`DispatchedFromAccepted`), so there is none.

**Journal and ledger under the lock.** `AgreeInv` needs at most one process at
work (`OneActive`), which is what the lock gives: `LockInv` ties the lock to the
thread whose tool runs, and the status tool to the journal state it has read.
`KnowsInv` says what this process knows of the ledger: while its call waits to
be taken, while the Broker has it, and when the answer has arrived (`Informed`);
`BusyInv` says that what the Broker works on is pending in the journal, whoever
asked for it. The two hold together because a row goes forward along seven edges
(`RowMoves`, `Edges`), because the Broker is in the call of the process that
waits, or in one whose client died, and because a process that has its answer
leaves a Broker at rest. So each commit to the journal is a step that its table
allows (`AgreedIsLegal`) to a state that is compatible with the row. What a
Broker does for a client that died leads only forward along the edges, which
`Compatible` allows for: that is why the status tool may read one after the
other (`StatusShownIsConsistent`). With one process alone there is no need of a
lock (`AgreementAlone`).

**The contract of an operation.** `OperationInv` joins the invariants above with
two parts: a postcondition that was found true is still true when VERIFIED is
written into the journal, several steps and one connection later (`PresentInv`),
and a fresh attempt_id belongs to no operation (`FreshInv`). The phase of an
operation depends on all its attempts; at most one is live, the others are
superseded, hence without effect or outcome (`OthersAreNeutral`), so the phase
follows the live one (`PendingPhase`, `EndedPhase`, `SamePhase`). Then
`ReplaceSwaps` maps the replacement to the compare-and-swap, `ExecuteAsks` the
first attempt to the request, `MovedIsStep` each commit of the journal to
`Verify`, `Reject`, `GiveUp` or a stutter, `RetryGoesOn` a retry to a stutter,
and `OthersAreStutters` everything else. The adapter adds its status tool, which
changes none of this (`AdapterSteps`, `ShowKeepsRetries`, `ViewKeeps`), and its
death, which ends one running tool (`CrashOfAll`).

**Two Brokers.** Neither finds the ledger as it left it, so the argument is one of
rely and guarantee: `Relies(p)` says what a Broker in the middle of a call needs
of rows and approvals, and each step of a Broker guarantees that rows keep their
operation and never return to ACCEPTED, and that approvals keep what they are for
and stay consumed. `TwoInv` holds both and `RowsAreCovered`, from which
`EffectWasApproved` follows. It does not say that an approval has one effect, which
MCTwoApprovals.cfg refutes.

**The transport.** `IpcInv` adds to the types what the server knows of the call
it serves (`ServedInv`): it has not been handled when it is received, and a
reply about to be sent to a client that sent its request is the reply to that
request. `Seen` maps the stages of a call to what its caller sees, and each
step to one of `CallContract` or a stutter (`ClientStep`, `ServeStep`); the end
of the process, in whatever way, fails the calls that are pending (`VanishStep`).

**Key files.** `KeyInv` adds that at most one process is between creation and
write, that the file is empty while it is, and that whoever has read a key has
the one in the file.

Every invariant and every action property of the passing runs, and each of the
three refinements, is a theorem. Only model-checked is liveness:
`EveryAttemptSettles`, `CallsAreAnswered`, `EveryStartSucceeds`, `CallsEnd` and
`ListensAgain`. They rest on fairness, and ENABLED is out of the prover's reach.
The violated properties of section 4 are TLC's counterexamples.

## 6. Plan

In the order in which it is to be done; what is done is marked.

1. [done] `Models`, `Broker`, `DispatchContract`, `MCBroker`: the Broker alone.
2. [done] `Engine`, `TransactionSystem`, `MCTransactionSystem`, `MCLiveness`.
3. [done] `BrokerProofs`: the Broker's invariant.
4. [done] `KeyFile`, `KeyFileProofs`.
5. [done] `Ipc` with `CallContract`: handshake, silent and dying clients, message
   limits, `shutdown`, the socket file that a kill leaves behind.
6. [done] `Mcp`: tools, error categories and the lock.
7. [done] `OperationContract`, implemented where nothing is restored.
8. [done] `SharedLedger`, `TwoBrokers`: two Brokers on one ledger.
9. [done] `SystemProofs`, `RetryProofs`, `IpcProofs`.
10. [done] `AgreementProofs`: journal and ledger under the adapter's lock.
11. [done] `TwoBrokersProofs`; what holds where nothing is restored, up to
    `EffectOncePerOperation`.
12. [done] `OperationProofs`: the system and the adapter implement
    `OperationContract`; nothing is dispatched for a VERIFIED operation.

## 7. Not modelled

- The policy's checks and the hashes as such: except for the existence of a file
  to be read, the verdict on a request does not change. Some of it looks at the
  file system (the parent directory, policy.py:72-75; a regular file and its
  size, policy.py:94-97) and could change between two calls.
- Truncation of a read by `max_chars`; the transition history tables, timestamps
  and error texts, which nothing reads back to decide.
- Wrong keys: a client with another key ends the server loop by an
  AuthenticationError out of `listener.accept()` (ipc.py:59). `Ipc` knows one way
  for that call to raise, a client that goes away in the handshake.
- SQLite itself: a transaction is atomic and durable (`synchronous=FULL`,
  `BEGIN IMMEDIATE`); `busy_timeout` is not modelled.
- `reconcile` and `status` beside a second Broker: `TwoBrokers` serves only
  submissions, which suffices for what it shows. The default address excludes a
  second Broker, `--pipe` with another address does not.
- Temporary files left behind by a kill inside `_write_file_atomic`: no code
  looks at them.
- Rows from before the `request_hash` column (broker.py:55), which no code of the
  repository writes.
- `client_config`, which renders configuration texts, and argument parsing.
