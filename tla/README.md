# Panel Assistant in TLA+

A verification project for the Home Assistant integration `panel_assistant`
(`src/custom_components/panel_assistant`), which installs the ha-paneld app on
Android wall panels, keeps a live session with each panel, and updates them.
The modules are translated from the code and checked by TLC on small instances;
for the receipt manager and its stores, the install executor, the artifact and the
key, the identity rules, the sessions with their commands, speech and relays, and the
operations on a panel, the safety properties are also proved by TLAPS for every value
of the constants.

## 1. The system

Everything in the integration runs on Home Assistant's single event loop: a
handler runs to its next `await` without interruption, and anything else may run
at each `await`. There are no locks between components other than the few
`asyncio.Lock`s named below, so most of the hard behaviour is state that was
read before an `await` and is used after it, and a process that may stop between
any two file writes.

| component | state it keeps | operations | talks to |
|---|---|---|---|
| install receipts (`install_receipt.py`) | none: the phase machine and its invariants | next phases, validation | the manager |
| install job manager (`install_jobs.py`) | the durable document, a cache of it, the claims of this process | create, request cancel, claim, transition, read | receipt store; flows, executor, finalizer |
| receipt store (`install_jobs.py`) | a primary file and a detail file | read and join, three-step save | the file system |
| install executor (`install_executor.py`) | one task per job, the jobs stopped in this process | ensure, resume, the worker's phases, cancellation, recovery | the manager, the panel over ADB, local custody |
| install finalizer (`install_executor.py`, `config_flow.py`, `__init__.py`) | one lease per receipt | verify, consume, release, reconcile | the manager, config entries, the panel over HTTP |
| panel sessions (`transport.py`, `transport_sessions.py`, `transport_binding.py`) | the session of each entry, session tokens, subscription slots, the account bound to each entry | hello, admission, teardown, bind, unbind | config entries, accounts, identity |
| session commands (`transport_sessions.py`, `transport.py`, `ui_relay.py`) | pending and late commands of a session, the sync and event counters | send, answer, interim answer, time out, cancel, end | callers everywhere |
| installation identity (`identity.py`) | the identity and link in the entry, the identity inside every entity id | accept health, confirm, adopt, reconcile | registries, sessions |
| coordinator and address recovery (`coordinator.py`, `address.py`) | the last snapshot, reachability, where the panel last said it was | poll, probe, recover, follow | client, sessions, identity |
| discovery (`discovery.py`, `foreign_ha.py`) | offers per panel | offer, follow up, close | flows, identity |
| panel operations and updates (`panel_operations.py`, `update*.py`) | one claim per entry, the attempt in progress | install, observe, hold through restart | session carrier, ADB, feed |
| local ADB recovery (`local_adb*.py`) | the proved recovery route of a session | bootstrap, recover, hand back | session |
| install artifacts and network (`install_artifacts.py`, `install_network.py`, `install_plan.py`) | files in custody | fetch, verify, clean | the executor |
| install device protocol (`install_adb.py`, `adb_protocol.py`) | a connection | stage, install, launch, clean | the panel |
| ADB credentials (`adb_credentials.py`) | the key and its record | create, load, discard | executor, updates |
| releases and builds (`release*.py`, `build_feed.py`, `feed_coordinator.py`, `app_identity.py`) | the last catalogue | refresh, choose | executor, updates |
| browser delivery (`browser_*.py`) | tickets and cached releases | offer, serve, expire | browser installer |
| voice (`voice*.py`, `assist_satellite.py`, `duck.py`, `wake_words.py`) | the run in progress, what was ducked | start, stream, end, restore | sessions |
| relays and embedding (`ui_relay.py`, `embed.py`, `blob.py`) | relayed subscriptions, lent blobs | relay, lend, return | session commands |
| removal (`removal.py`, `removed_panels.py`) | the panels removed | hand back, remember | operations |
| provisioning and vendor recovery (`provisioning.py`, `vendor_*.py`, `display_provisioning.py`, `previous_home.py`, `home_chooser.py`) | retry times | apply and read back | ADB |
| config flow and Repairs (`config_flow.py`, `repairs*.py`) | one form each | confirm | all of the above |
| native entities | none | project observations | session |
| browser installer (`frontend/src/*.mjs`) | a journal in the browser | install over USB, resume | delivery |

What is hard, component by component, is in `PROJECT.json` under `hazards`, each
at its line. The properties below are stated for those.

How the components interact:

- A setup flow approves a plan (manager: create), asks the executor to ensure the
  job, and polls its receipt. The executor's worker claims the receipt, moves it
  through its phases, each by one manager call, and touches the panel between
  calls. The manager is the only writer of the receipt store.
- A healthy receipt waits for a config entry. The flow that showed it verifies it
  under a lease, Home Assistant adds the entry, and the entry's own setup
  reconciles the receipt.
- A loaded entry has a coordinator, which reads the panel's health over HTTP or
  over the session, hands every health line to the identity rules, and moves the
  entry's address when the panel has moved.
- The panel opens a session by a hello on Home Assistant's WebSocket. Admission
  checks the entry, the bound account, the identity and the address; the session
  then carries observations, events and commands both ways.
- An update, a removal, an adoption of a reinstalled panel and a vendor recovery
  exclude each other by one claim per entry.

## 2. The modules

| module | models | composed from |
|---|---|---|
| `InstallReceipt` | `install_receipt.py`: the phase relation, what a valid receipt is, and the receipt that each manager operation produces, as operators | |
| `InstallJobs` | `install_jobs.py`, `InstallJobManager`: durable document, cache, claims | `InstallReceipt` |
| `InstallJobs_proofs` | theorems about it | `InstallJobs` |
| `ReceiptStore` | the save of the document across two files, a file operation a step | `InstallReceipt`; instantiates `InstallJobs` |
| `InstallExecutor` | `install_executor.py`: workers, cancellation, resume, with the panel and the local custody | `InstallJobs` |
| `InstallExecutor_proofs` | theorems about it | `InstallExecutor`, `InstallJobs_proofs` |
| `InstallFinalizer` | lease, flows and entry setup around one healthy receipt | `InstallJobs` |
| `InstallDevice` | `install_adb.py`, `previous_home.py`, `home_chooser.py`: what the executor's calls do on the panel | |
| `ArtifactCustody` | `install_artifacts.py`: the download, a thread and a file operation a step | |
| `AdbCredentials` | `adb_credentials.py`: the one key | |
| `Stores_proofs` | theorems about the three | `ReceiptStore`, `ArtifactCustody`, `AdbCredentials` |
| `AddPanelFlow` | the setup flow by address: `config_flow.py`, with `install_plan.py`, `install_network.py`, `provisioning.py` as it calls them | |
| `DiscoveryCards` | `discovery.py`: the cards of every channel and their flows | |
| `Flows_proofs` | theorems about four of them | `InstallFinalizer`, `InstallDevice`, `AddPanelFlow`, `DiscoveryCards` |
| `PanelSessions` | `transport.py`, `transport_sessions.py`, `transport_binding.py`: hello to teardown | |
| `PanelSessions_proofs` | theorems about it | `PanelSessions` |
| `SessionCommands` | `transport_sessions.py`, `transport.py`, `ui_relay.py`: commands and reports of one session | |
| `UiRelay` | `ui_relay.py`, `repairs_failure.py`: subscriptions relayed over one session | |
| `VoiceStream` | `voice_stream.py`, `voice.py`, `assist_satellite.py`: the streams panels play | |
| `RoomDuck` | `duck.py`: a room turned down while somebody speaks | |
| `Traffic_proofs` | theorems about the four | `SessionCommands`, `UiRelay`, `VoiceStream`, `RoomDuck` |
| `PanelAddress` | `coordinator.py`, `address.py`, with the flows that move an entry | |
| `PanelIdentity` | `identity.py` with the steps that call it | |
| `PanelIdentity_proofs` | theorems about the two | `PanelIdentity`, `PanelAddress` |
| `ManagedPanel` | one panel as every operation on it sees it, its reservation (`panel_operations.py`) and its entry | |
| `PanelUpdates` | `update*.py`, `repairs_failure.py`: an update, the observer, the report | `ManagedPanel` |
| `PanelRemoval` | `removal.py`, `repairs_removal.py` | `ManagedPanel` |
| `VendorRecovery` | `vendor_recovery.py` | `ManagedPanel` |
| `PanelOperations` | the three over one panel and one reservation, with restarts | `PanelUpdates`, `PanelRemoval`, `VendorRecovery` |
| `PanelOperations_proofs` | theorems about it | `PanelOperations` |

Each module's header says what its variables are in the code. An `MC` module
gives the constants of one instance. Six of them hold several components that
share no state: a variable `part`, chosen at the start, says which of them a
behaviour explores, the others stay as they began, and a hosted component keeps
its own fairness, within its part. `MCInstallJobs` has two parts (receipts,
panel), `MCFlows` three (install, cards, add), `MCWorkersAndPolls` three (install, address, room), `MCStores` three
(receipts, artifact, key), `MCSessionTraffic` two (commands, speech) and
`MCPanelOperations` two (operations, relays). Definitions that a comment calls a *faulty
variant* are not part of any specification: they are the plausible mistakes that
the properties are known to catch, listed in `PROJECT.json` under `mutants`.

**One action per operation, and what an action is.** The integration runs on one
event loop, so code between two `await`s is one action. `InstallJobManager` holds
one `asyncio.Lock` from the read to the verified write of every operation, so in
`InstallJobs` an operation is one action (`Create`, `RequestCancel`, `Claim`,
`Transition`; `Refresh` for every call that ends up only reading, `LoseCache` for
a failed or cancelled one and for the end of the process). The write inside it is
`Save`, which may also be refused or stay unverified, with the old or the new
document on disk. `ReceiptStore` takes that write apart.

**InstallExecutor.** A worker (`_async_run`) is a record with a program counter:
one step is one manager call, one call to the panel or one file operation, in the
order of the code, with the worker's own copy of the receipt kept across steps, as
the code's local variable is. `AskCancel` is the user, `ReaderFails` any other
reader of the manager whose read fails or is cancelled, `ResumeQuarantines` the
scan that a loading entry starts, `Restart` the end of the process. The panel is
two facts (the staging slot holds the job's bytes, the app is the job's), and a
call to it may succeed, fail, or end unknown after having had its effect or not.

**InstallFinalizer.** One receipt, several flows that show it, and the entries
they add. It starts from the document `InstallExecutor` ends with
(`healthy_unclaimed`).

**InstallDevice.** The executor and the updates call one operation at a time. An
operation opens a connection, proves on it which panel answers, and sends shell
programs, which the panel runs a step at a time. When the connection is lost, or
Home Assistant stops waiting, the program may stop or run on unheard; a second
abandoned program is taken to have stopped the first. HOME as the package manager
sees it, and whether Android forgets it on an install, are external.

**ArtifactCustody.** Each file operation is a thread (queued, running, done, its
future cancelled) with its caller waiting; the caller may be cancelled at every
await, Home Assistant may cancel the future of a queued thread, and the machine may
stop between two writes or return other bytes than it was given.

**AdbCredentials.** Callers queue for the manager's lock; the drained save, the
read-back and the reload are steps, any of which fails or is cancelled. `Store`'s
atomic replacement of its file is external.

**AddPanelFlow.** The flow keeps one memory (`pending`, `listed`, `waiter`) for all
the steps that run on it; a step (`run`) is a person's dialog, with the locals it
carries across its awaits. `form` is what Core shows. Between any two awaits panels
may change places (`UnitMoves`), apps come and go, names resolve elsewhere, and other
flows add entries. A name resolves to a set of addresses, is pinned to one of them and
checked again before the plan. What an install then does, and its verification, are
single steps here; `InstallExecutor` and `InstallFinalizer` take them apart.

**DiscoveryCards.** An offer is a channel and an address. Core's part (one flow for an
identity, the adding of an entry, the end of the other flows with its identity, the
replacement of an Ignore) is external. A flow's unique id is the panel's identity once a
step has accepted the panel, and for the app's own channel from its announcement on
(`identity`); Core ends every listed flow that has the identity of a new entry, whether
a step of it runs or not (`OthersEnd`), while the integration only asks a running card to
close.

**ReceiptStore.** A save writes the detail file with the old and the new details,
then the primary, then compacts the detail file, and reads each back. The model
may stop after each of these steps. `Refines` maps it to `InstallJobs`: `durable`
is the join of the two files a reader would compute, `cache`, `claimed` and
`issued` are those of the save in progress once its primary is on disk.

**PanelSessions.** `Hello` runs the whole handler `ws_hello`; a hello that offers
local ADB and management is deferred, reads the install receipts, and is admitted
or refused by `AdmitLocal` in the state of that later moment. The session table,
the subscription slot of each connection and the bound account are separate
variables, since the code keeps them apart and clears them at different times.
Accounts, sockets and entry loading are external actions.

**SessionCommands.** One session. A command is a caller, a future, a timer and a
table entry; the panel may answer anything, any number of times; a timer that
expires and a future that resolves only schedule the caller, which resumes later.

**UiRelay.** A subscription of a browser and the log snapshot of a failed update's
report are *relays* on one session. The panel (external) takes requests in the order
they were sent, gives a second subscribe of one origin and family the subscription it
already has, and answers when it likes, or never. A relay knows its panel subscription
by the command it sent until the answer names another; `LeaveRelay` and `Unsubscribes`
are `_leave` and `_unsubscribe`.

**VoiceStream.** A panel plays one stream at a time; announcements with one key in one
short window form a batch and share it. Calls, the batch's task, the pump and the
resets each advance a step at a time under the module's locks; taking a turn at a lock
and getting it are two steps. How a clip ends (played, failed, withdrawn) is kept, what
it says is not. Each announcement waits on a future of its own (`pending`), which a link
that ends fails while it is under way; the next announcement begins with a new one.

**RoomDuck.** A volume is its own level, one set by hand, or a lowered one (lowered twice
where a player was turned down at a level that was lowered already). A call to
a player, whether it turns the player down or sets it back, applies at once, later, or
never, and may fail; a turn's restore is a task of its own. A turning down that was given
up on may show when its record is gone: nothing in the code knows of it then (`strayed`),
and `TurnedDownIsRemembered` makes no promise about that player any more.

**PanelIdentity.** A step is one health line accepted or refused. Which panel
answers at an entry's address is left open. The entry store and the entity
registry are saved by separate steps, and a restart takes the state from both.

**PanelAddress.** A poll is a record with what it read before its wait: the address it
asks, the session beside which it began. Sessions come, go and take each other's place,
refused hellos leave an address, flows move the entry or remove it, and two panels move.

**PanelOperations.** The panel (`panel`: its build, whether the app runs, its HOME, its
own installer) is the state that all operations share; `claim` is the one reservation of
`panel_operations.py`. `PanelUpdates` follows `async_install` over its three routes and
the wait for the build; `PanelRemoval` the owner's Repair from the proof of the device
to the removal of the entry; `VendorRecovery` the coordinator's arming and recovery, with
the reservation given back only after the connection is closed (`closing`), also by a
recovery that its successor cancelled.

## 3. What is checked

| run | question | result |
|---|---|---|
| `install_jobs` | Over every order of the manager's callers, failing writes and restarts: is the document always one the reader accepts (`StoreReadable`), is the process's view the durable one (`AuthorityIsDurable`), does a cancellation precede the install (`CancelPrecedesInstall`), is a finished receipt final (`TerminalIsFinal`), is an interrupted change quarantined (`InterruptedMutationIsQuarantined`)? Does a job told to have failed never install (`FailedJobNeverInstalls`), does the HOME before the dashboard stay on record (`PreviousHomeIsKept`)? | holds |
| `receipt_store` (`MCStores`) | Does the save in steps implement the atomic one (`Refines`)? Is a published artifact the release, and there for whoever was given it (`ReadyIsTheRelease`), does an ended download leave nothing (`EndedLeavesNothing`), does every one end (`TransferEnds`)? Do panels ever meet a second key (`OneKey`)? | holds |
| `install_executor` (`MCWorkersAndPolls`) | Does the package manager run at most once per job (`InstallAtMostOnce`), is local custody empty at the end (`FinishedJobIsClean`), does the phase never claim more than the panel shows (`PhaseMatchesPanel`), does every worker end, and every approved job settle that is picked up when it has none (`EveryJobSettles`)? Does an older finding ever replace a newer address (`NewerAddressStands`), is a connected panel polled where it is in the end (`ConnectedPanelIsFound`)? Has a player that is still turned down its level on record, unless a call given up on showed after its record (`TurnedDownIsRemembered`), is every room set back (`RoomIsSetBack`)? | holds |
| `install_claim_lost` | "An active same-manager worker retains its claim" (`install_executor.py:371`) | violated |
| `install_finalizer` (`MCFlows`) | One entry per install (`OneEntryPerInstall`)? No card beside the entry that ended it (`EntryEndsItsCards`), none with a running step taken away but by Home Assistant for the entry of its own panel (`RunningCardIsLeft`)? Is what becomes durable what the question showed when it was pressed (`ApprovedIsShown`)? | holds |
| `panel_sessions` | Is a session always one its entry would admit now (`SessionIsAdmitted`), does it end with its socket (`SessionDiesWithSocket`)? | holds |
| `panel_hello_order` | "so they run in arrival order" (`transport.py:170`) | violated |
| `session_commands` (`MCSessionTraffic`) | Is every waiter in the table that answers reach (`WaiterIsReachable`), does every call return (`EveryCallReturns`)? Does a panel hear the end of one stream before the start of the next (`EndPrecedesNext`), does a call that returned leave nothing playing (`ReturnedIsSilent`), does every announcement return (`AnnouncementReturns`)? | holds |
| `session_late_answer` | "neither raised in Home Assistant" (`tests/test_embed.py:1606`) | violated |
| `panel_identity` | Has an identity one entry (`IdentityIsOwned`), has an entry one set of entities (`OneEntitySet`), does it stay with its panel (`EntryKeepsItsPanel`), and can it always read its panel again (`NeverLockedOut`)? | holds |
| `panel_operations` (`MCPanelOperations`) | Do the operations exclude each other and always release the panel (`ClaimHasHolder`), does the app leave only a panel with another launcher (`RemovalIsComplete`), is an unfinished update on record (`UnfinishedIsRecorded`) until its build is seen (`ForgottenOnlyWhenReached`)? Does a panel keep a relayed subscription open only while somebody wants it (`OpenIsWanted`)? | holds |
| `identity_unnamed` | The same as `panel_identity`, for an entry that kept its identity in its entities only: `IdentityIsOwned` | violated |

The four violations are described under `findings` in `PROJECT.json`, with the
line they contradict:

1. A failed read of *any* receipt clears every claim of the process, so the resume
   scan may quarantine a job whose worker is alive.
2. A hello that waits for the install receipts is admitted after a later hello of
   the same panel and ends its session.
3. An interim answer between the timer and the caller's next turn raises in its
   handler, because the timeout scope can no longer be rescheduled.
4. `accept_health` restores a missing unique id from the entities without asking
   whether another entry has it.

Deadlock is checked in `panel_operations` (where the relays, when all is over, are left
to rest). The other systems may rightly stop: all jobs finished, the session over, the
flow at its end, the entry removed, the bound on restarts or troubles used up.

### Bounds, and why they are enough

| bound | value | why |
|---|---|---|
| `Jobs` | 2 (`install_jobs`, `receipt_store`), 1 (executor, finalizer) | Two jobs meet in the panel conflict, in pruning and in the shared detail file. A worker touches only its own receipt and panel; the one effect another job has on it, a failing read that drops all claims, is an action of its own (`ReaderFails`). |
| `Plans` | 3 | The same panel at another address, and a different panel. |
| `MaxActive`, `MaxTerminal` | 2 and 1; the code has larger ones | With one place for finished jobs, pruning happens. The bound on active jobs binds in `receipt_store` (1) only; that it is respected for every value is proved (`StoreIsReadable`). |
| `MaxAttempts` | 2 (executor) | A retry after a first failed attempt, and the end of retries. |
| `MaxRestarts` | 2 (executor), 1 (finalizer) | A restart during the recovery from a restart. |
| `Entries`, `Dids`, `Users`, `Connections` | 2 each | A clone of a panel, an entry's account against another one, two sockets of one panel. |
| `MaxHellos` | 2 | Every hazard is between a pending hello and one other step or session. |
| `Commands`, `MaxLateCommands` | 2 and 1 | The second late command evicts the first. |
| `MaxInstalls`, `MaxReinstalls` | 2 and 3 | A migration followed by a reinstall of one panel, with one installation of another: two rekeys that one of the two stores missed. |
| `Polls`, `Addresses`, `MaxMoves`, `MaxLinks` | 1, 3, 2, 2 (`PanelAddress`) | The stored address, the one the panel moved to and one somebody else chose; a hello names the panel's address and at most one false one beside it, always the same (which of two false ones it is makes no difference); another panel, off at first, takes the place the first one left. A second poll at a time exceeds TLC's reach; the module allows it. |
| `Offers`, `MaxRuns` | 3 and 2 | One device on two channels, another on one; a dialog opened twice. |
| `Size`, one aborted future, one restart | 2 pieces (`ArtifactCustody`) | A file that is partly there. |
| `Getters`, `MaxGenerated`, `MaxStarts` | 2, 3, 1 | A caller waits for another's key; a restart between the write and the first use. |
| `MaxJobs`, `MaxLosses`, `MaxSwaps`, `MaxChoices` | 3, 2, 1, 1 (`InstallDevice`) | A retry after a lost connection, and an update after it. |
| `Dialogs`, `Hosts`, `Units`, `Releases`, `MaxChanges` | 1, 2, 2, 2, 2 (`AddPanelFlow`) | One host with an address at first, two panels that change places, the newest and one chosen release of which one is a test release. With two dialogs `ApprovedIsShown` does not hold (section 6); what it then needs is stated and proved (`WhatIsShownIsApproved`). |
| `Panels`, calls, `MaxTroubles` | 2; two announcements and a reply; 2 with one panel, 0 with two | A stream displaced by another kind and by the same kind; troubles double the states at every step. |
| `Rooms`, `Players`, `MaxTurns`, `MaxChanges` | 2 each; one player can only be muted | Two panels turn one room down, one over the other, while it is changed by hand. |
| `Builds`, `MaxSessions` | 3 (two of one version name), 2 | An update whose build the version does not tell apart. Removals and recoveries are explored on panels that start with the newest build (`Settled`), the others start with the oldest, without the vendor's launcher: all pairs of operations still meet at the reservation. These two limits are in `MCPanelOperations` alone; the theorems of section 4 are about `PanelOperations` without them. |
| `Subscriptions`, `Snapshots`, `MaxUpdates` | 3, 1, 1 (`UiRelay`; a third subscription or the snapshot) | Two share one panel subscription while a third comes or leaves. |

Symmetry is used over jobs, flows, entries, panels and accounts with their sockets,
in runs without liveness properties only; the specifications name none of them.

### Fairness

`InstallExecutor` assumes weak fairness of each worker's step: a task that was created
runs. Nothing is assumed of failures, restarts, readers, the user, or the panel's
results, and nothing of `EnsureJob`: there is no startup hook, and a job without a worker
waits for an entry that loads or for a person who opens a flow
(`install_executor.py:330`). `EveryJobSettles` therefore says two things: every worker
ends, and *if* a job is picked up whenever it is left without one and its pauses end, it
finishes, becomes healthy, or is held for the next process because its outcome became
unknown. A store that fails for ever can keep a job from settling, hence the second
hypothesis.

`SessionCommands` assumes weak fairness of a due timer and of a ready caller, which
asyncio provides; nothing of the panel.

`ArtifactCustody` assumes that threads begin and run, that the caller gets its turns, and
that the download ends at its overall limit of 180 seconds. `PanelAddress` assumes that a
poll begins (Home Assistant's schedule) and that its steps end (each wait is bounded);
nothing of panels, sessions or flows: `ConnectedPanelIsFound` is about a panel that
stays where it says it is, whose session may read it. `VoiceStream` assumes turns of the event loop and the bounds the code
sets on a fetch, a drain, a clip and an announcement (`ANNOUNCE_TIMEOUT`); `RoomDuck` that
tasks run and that a turn has a limit. Everything else (`InstallDevice`, `AddPanelFlow`,
`DiscoveryCards`, `PanelOperations`, `UiRelay`, `PanelSessions`, `PanelIdentity`) is
checked for safety only: what it waits for is a person or a panel.

## 4. What is proved

`InstallJobs_proofs` proves, for every finite set of jobs, any set of entries and
plans and any capacities that meet `JobsAssumption`:

| theorem | property |
|---|---|
| `TypeCorrect` | `TypeOK` |
| `StoreIsReadable` | `StoreReadable` |
| `AuthorityHolds` | `AuthorityIsDurable` |
| `CancellationPrecedesInstall` | `CancelPrecedesInstall` |
| `FinishedIsFinal` | `TerminalIsFinal` |
| `RevisionCounts` | `RevisionIsVersion` |
| `InterruptedIsQuarantined` | `InterruptedMutationIsQuarantined` |

The assumptions are the ones the code's constants meet: finitely many jobs, a
natural number of active places, at least one place for finished jobs, and values
for "nothing" that are not values of something.

The properties are not inductive one by one: that a document stays readable after a
new receipt is added needs that the drawn id had none; that what a failed write
leaves is still claimed rightly needs the cache to be durable; that a cancelled
receipt never gets past staging needs the validity of the receipt it comes from. The
inductive invariant joins them:

    IInv == TypeOK /\ Good(durable) /\ AuthorityIsDurable /\ Issued(durable, issued)

where `Good` says that every stored receipt is *sound* (well formed, valid, and
cancelled only in a phase that allows it), that the document is within its bounds,
and that active jobs are on different panels, and `Issued` that every
receipt has a drawn id, so that a new id is unused.

The argument goes from the receipt outwards:

1. *One receipt.* `ApprovedSound`, `CancelRequestedSound`, `ClaimedSound` and
   `TransitionedSound`: each operation makes a sound receipt of a sound one.
2. *One document.* `PruneFacts` and `PruneGood` (what pruning may drop, and that the
   bound holds after it), `RewriteFacts`, `ReconciledFits` and `PruneFits` (claims
   that survive a rewrite fit the rewritten document).
3. *One operation.* `ReadSucceeds`, `CreateSucceeds`, `CancelSucceeds` and
   `RewriteSucceeds`: what it hands to `Save` is a good document with fitting claims,
   and a lawful change of each receipt (finished ones stay, the revision counts, an
   ambiguous unclaimed one is quarantined).
4. *One step.* `SaveKeeps` for the write that succeeds, fails or stays unverified,
   then `StepKeeps` over the disjuncts of `Next`, with `InitKeeps`, and `SpecKeeps`
   as the temporal step. The action properties come out of the same step lemma.

`InstallExecutor_proofs` proves of the executor, for any jobs, plans and bounds that meet
the same assumptions and `ExecutorAssumption` (the bound on restarts is a natural number),
and for the specification without fairness (`ExecSpec`):

| theorem | property |
|---|---|
| `InstalledAtMostOnce` | `InstallAtMostOnce` |
| `PhaseTellsTheTruth` | `PhaseMatchesPanel` |
| `FinishedJobKeepsNothing` | `FinishedJobIsClean` |
| `ExecutorObeysManager` | `ExecSpec => Spec`: every step is a step of `InstallJobs` or none, so the theorems about the manager hold of the executor |

The invariant `ExecInv` joins the manager's to a fact about each job (`JobFits`) that relates
its receipt, its worker, the package-manager runs made and the app on its panel. The
properties alone are not inductive, because what makes an install happen once is spread
over a worker's local variables:

- the stored receipt is in the phase of the worker's snapshot, or quarantined, or pruned
  (`Follows`), so a worker that believes in "installing" cannot find a receipt that may
  still go back to it;
- a worker on its way to the package manager (`Armed`: in "installing", with bytes staged by
  itself) has made no run and its panel has no app; a transition to "installing" starts from
  "staging", where `RecordFits` says that no run was made;
- a worker that records a refusal (`Declined`) knows that its panel has no app.

All steps of the manager but transitions let a receipt only stay, be quarantined or be pruned
(`Drift`); `QuietKeeps` and `MovesOn` reduce the worker's steps that leave the panel alone
to what becomes of its local variables. Only `Install` and the transition a worker writes
need an argument of their own (`InstallKeeps`, `TransitionKeeps`).

`FinishedJobIsClean` needs a second invariant (`CustodyInv`), since what is in custody is
the work of a worker that the receipt no longer tells of. Whoever is about to record an end
has either cleaned, and nothing filled custody again before it wrote (`HasCleaned`), or
starts from a phase in which there is nothing yet (`BarePhases`). The danger is the worker
that still fetches while somebody else quarantines its job: a worker's receipt in a
fetching phase is one that nobody has quarantined, because the fetch would then have no
owner to clean after it.

`PanelIdentity_proofs` proves first, for any entries, panels, legacy identities and bounds
that meet `IdentityAssumption`, and for the specification that starts from an entry
with its identity recorded (`IdSpec`):

| theorem | property |
|---|---|
| `TypeCorrect` | `IdTypeOK` |
| `IdentityHasOneOwner` | `IdentityIsOwned` |
| `LoadedEntryHasOneSet` | `OneEntitySet` |
| `EntryStaysWithItsPanel` | `EntryKeepsItsPanel` |
| `LinkedPanelIsAccepted` | `NeverLockedOut` |

The assumptions are that the bounds are natural numbers, that "no identity" and "no
entry" are none of the identities and entries, and that no legacy identity is the
identity of an installation. For the first three, the inductive invariant says of `ha`
that it is *sane*, and of what a restart would take from `disk` as much as survives:

    IInv == types /\ Sane(ha) /\ Owned(disk.entry)

`Owned` is `IdentityIsOwned` together with every saved entry having an identity. The
second part is needed because an entry without one may take the identity in its
entities unasked (`Restored`), which is how the run `identity_unnamed` breaks the
property. `Sane` adds that a loaded entry is saved and has one set of entities. Nothing
is needed here of the entities on disk: after a restart no entry is loaded, and
`ReconciledSane` shows that an entry is only loaded once its entities are its own. The
functions of `identity.py` come first (`CommittedSane`, `LinkClaimedSane`,
`AcceptedSane`, `AcceptHealthSane`, `ReconciledSane`), then one lemma per action, and
`StepKeeps` joins them.

The last two are about a panel whose legacy identity is its own. They need, of the record
and the entities of every entry, each as it runs and as it was last saved, that all four
combinations a restart can bring together are of one panel (`KinInv == IInv /\ AllFit`):

- every identity is the panel's or not, and so is every entry, for good; a link is to the
  entry's own panel (`RecordFits`), so that following it never leaves the panel;
- entities of before a migration go with a record that remembers it, or with a linked one
  (`PairFits`), so that a registry file that is behind is rekeyed and never refused;
- entities that carry an identity their record never had are those of the registry's file
  (`AheadFits`): the entry store is the one that is behind, and the record follows.

A link is dropped only when another entry is of the same panel, so an entry that is alone
with its panel keeps what `accept_health` needs. `NeverLockedOut` then follows, since
nothing stands against the rekey.

Of the address an entry is polled at (`PanelAddress`), for any polls, addresses, sessions and
bounds that meet `AddressAssumption` (the bound on moves is a natural number, "nothing" is
none of the values, the first address is one), and without fairness (`AddrSpec`):

| theorem | property |
|---|---|
| `NewerAddressStays` | `NewerAddressStands` |

A poll reads the address it starts from, waits for panels several times, and writes what it
found, while flows move the entry. The invariant `AddrInv` adds to the types that a poll
which somebody overtook started from another address than the entry has now (`Fenced`): the
code compares only those two addresses before it writes (`Current`). That is enough: a move
back to the address a poll started from leaves that poll nothing newer to overwrite, and a
poll that starts over reads the entry's address anew.

`Stores_proofs` proves of what is kept on disk, for any callers of the key, any size and
kind of files, and any jobs, entries, plans and capacities:

| theorem | property |
|---|---|
| `EveryCallerGetsOneKey` | `OneKey` |
| `ReadyArtifactIsTheRelease` | `ReadyIsTheRelease` |
| `EndedDownloadLeavesNothing` | `EndedLeavesNothing` |
| `SavesAreAtomic` | `Refines`: the save in steps implements the specification of `InstallJobs`, so what is proved of the manager holds of the two files, under the manager's assumptions |

The assumptions (`KeyAssumption`, `CustodyAssumption`, `StoreAssumption`) only keep "nothing"
apart from the values.

- *The key* (`KeyInv`): a caller that makes a key is alone in the lock, and none was ever
  given out before: one that was is in the file, or the file was set aside and its copy
  refuses every caller from then on (`HandedIsStored`).
- *The artifact* (`CustodyInv`): one thread is at work at a time, the one its caller waits
  for, although callers may be cancelled. Where the caller is says what the files can be,
  who owns the part file (`PartIsOwned`) and the descriptor (`HandleIsOwned`); what is
  published was flushed, so a power cut keeps it (`ReadyIsWhole`).
- *The document* (`StoreInv`): a save that has not written the primary file holds what an
  operation of the manager offered for the document on disk (`Offers`), also once the
  claims are reconciled with the read that began it (`OffersAgain`). The detail file
  then has the details of both documents. No detail is read with the wrong record, because
  where the two have different receipts of one job, their revisions differ (`Apart`), and a
  receipt has a detail exactly when it failed (`Staged`). So a reader sees the old document
  until the primary file is written and the new one from then on.

`PanelSessions_proofs` proves of sessions, for any entries, identities, accounts, sockets
and number of hellos (`SessionsAssumption`: a socket has one account, and values for
"nothing" are none of the values):

| theorem | property |
|---|---|
| `SessionsTyped` | `SessTypeOK` |
| `AdmittedStaysAdmitted` | `SessionIsAdmitted` |
| `SessionEndsWithSocket` | `SessionDiesWithSocket` |
| `TablesHoldTheSame` | the table by token holds the sessions of the table by entry |

Neither of the two properties is inductive alone. A hello that waits for the install
receipts opens a session later, so its socket must still be open and its place among the
subscriptions its own (`Pending`); and ending the sessions of one entry must leave those of
the others alone, so a session belongs to one entry (`Seated`). `CloseKeeps`, `OpenKeeps`,
`TearDownKeeps` and `WaitKeeps` are what a step does to the tables; one lemma per action
says which of them it does, in the order of the code.

`Traffic_proofs` proves of what travels on a session, for any commands, event ids, panels,
calls, subscriptions, snapshots, rooms and players:

| theorem | property |
|---|---|
| `WaitsAreReachable` | `WaiterIsReachable` |
| `EndsPrecedeStarts` | `EndPrecedesNext` |
| `ReturnedCallsAreSilent` | `ReturnedIsSilent` |
| `RelaysTyped` | `RelayTypeOK` |
| `OpenSubscriptionsAreWanted` | `OpenIsWanted` |
| `DuckedIsRemembered` | `TurnedDownIsRemembered` |

`CommandsAssumption` says that event ids are natural numbers and that there is room for a
late command, `VoiceAssumption` that announcements and replies are different calls, each for
one panel, `RelayAssumption` that snapshots are no subscriptions and share no feed, and
`DuckAssumption` that the bounds are natural numbers and the players that can only be muted
are players.

- *Commands* (`CommandInv`): a waiter without an answer is in the table of a live session.
  Settling a command for the ui relay keeps its caller and its future (`SameWaits`), and a
  full list of late commands evicts late ones only.
- *Speech* (`VoiceInv`): the hazard is a stream started for a call that has left meanwhile.
  A member of a stream is on a panel that plays that stream (`MembersPlay`), who is in a
  batch still gathers (`MembersGather`), a panel that the holder of the lock has been to
  is free or being freed (`VisitedAreFree`), and a stream gets its members by its one start
  (`StartsOnce`). `CallsKeep`, `SameMembersKeep`, `PartLeavesKeeps` and `ShrinkingKeeps`
  reduce the steps to four kinds; only the start itself (`FormsKeeps`) adds members. That
  a panel hears the end first is `ToldAreMembers`: what a link was told to play has that
  panel as a member, and `EachTellsInTurn` shows that no step takes it out untold.
- *Relays* (`RelayInv`): each relay sends its subscribe once, and it is taken before it is
  answered (`AsksOnce`). What the panel has open, and what it is yet to take from the queue
  and open, has a listener in the table or its unsubscribe behind it (`AllWanted`).
  `LeavingIsLawful` is the argument for the last listener, `AppliesKeeps` for the answer
  that names a subscription of another relay.
- *Rooms* (`DuckInv`): a player is low exactly while ducking set it and nobody else has since
  (`LevelKnown`). The last call of a record that nobody holds any more is a restore
  (`Ordered`), so the record is dropped only once the player is back. A turning down that
  shows late either lowers the player to the level its record knows, or has strayed
  (`Strays`). `CallDoneFacts` says what the end of a call does to the queue of calls,
  `SeenFacts` what a change by hand does to the record.

`PanelOperations_proofs` proves all that is checked of the operations on a panel, for
any set of builds, any version names and any number of sessions, and without the limits
of `MCPanelOperations`:

| theorem | property |
|---|---|
| `OperationsTyped` | `TypeOK`, and that an install or a busy slot has a build |
| `OneHolder` | `ClaimHasHolder` |
| `RemovalCompletes` | `RemovalIsComplete` |
| `UnfinishedStays` | `UnfinishedIsRecorded` |
| `WithdrawnWhenReached` | `ForgottenOnlyWhenReached` |

The assumptions are that builds are natural numbers, that "nothing" is neither a build nor
a report and "nobody" none of the holders, and that `MaxSessions` is a natural number
(`DeviceAssumption`, `ReportAssumption`, `SessionsBounded`). That Android never replaces an
app by an older build is part of the model (`SlotEnds`, `AdbInstall`), and the last two
theorems rest on it.

- `ClaimHasHolder` is inductive beside the types. `UpdateHolds`, `RemovalHolds` and
  `RecoveryHolds` reduce the steps of each operation to three: it reserves, it ends, or it
  goes on with the reservation as it is. A recovery that ended keeps it while it closes, and
  no other works meanwhile, which is a conjunct of the property because it is needed.
- `RemovalIsComplete` needs what the phases of a removal have achieved, although somebody at
  the panel may make the app HOME again at any time (`HandedBack`): a setting is owed only
  on the vendor's panels; where the shell is about to set the launcher, the app is HOME and
  owes nothing; and from there on it owes something only while it is HOME, which is
  what the shell tests when it uninstalls. `UndisturbedKeeps` disposes of the other
  operations.
- The two properties of the record need that what was seen, and what a poll still holds, is
  never ahead of what the panel runs (`SeenIsRun`, with `BuildGrows`), and that the install
  under way is the one begun last (`BegunIsTarget`). Then a begun install is on record, for
  its build or a later one, until a build as new has been seen (`BegunIsKept`). `RecordMoves`
  lists the ways a record changes: for a build that has been seen, or to the report of the
  install, or from none.

`Flows_proofs` proves of how a panel gets its app and its entry, for any flows, entries,
offers, hosts, addresses, panels, releases and bounds:

| theorem | property |
|---|---|
| `InstallMakesOneEntry` | `OneEntryPerInstall` |
| `EntryEndsCards` | `EntryEndsItsCards` |
| `RunningCardStays` | `RunningCardIsLeft` |
| `FailedNeverInstalls` | `FailedJobNeverInstalls` |
| `HomeIsKept` | `PreviousHomeIsKept` |
| `AddFlowTyped` | `AddTypeOK`, for any number of dialogs |
| `WhatIsShownIsApproved` | `ApprovedIsShown`, for any number of dialogs, as long as no other step changes the flow's memory or form while a step awaits (`Undisturbed`) |

`FinalizerAssumption` says that the receipt is a valid one of a healthy job, and that a flow
is no entry and "no lease" no lease; `CardAssumption` that a dialog is opened at least once
and "nothing" is no value; `HomeAssumption` that there are two panels and that the
launcher's name is not one the code uses for something else; `ChangesBounded` that the bound
on changes of the world is a natural number.

- *The install* (`FinInv`): a flow that has not been removed holds the lease from its check
  that there is no entry until it adds one (`FlowFits`). A flow may be removed at any step,
  and a restart forgets the lease, but it ends the flows as well.
- *The cards* (`CardInv`): the mark in a card's title tells whether a step of its flow runs,
  also when the dialog was opened twice, and a card of an address that has got its entry
  closes when its step ends (`CardFits`). Every step treats the flows that run tamely
  (`Tame`): whoever closes cards reads the mark first, and only Home Assistant does not ask. A
  step that waits with an accepted panel (`Expecting`) never waits for one that has an entry
  (`Unclaimed`): its flow has that panel's identity, so Home Assistant ended it.
- *What a failed job may still do* (`TellInv`): the connection may break with a program of the
  job's running on at the panel, and the retry finds it there. The user is told of a failure
  only in a phase where no program of the job can still install the app (`Undecided`,
  `MayInstall`): where the job saw no answer it stays open.
- *The previous HOME* (`KeptInv`): one program is under way at a time while custody lasts, and a
  program that drops the record runs where there is no app yet, so that HOME is still the
  launcher, or where the app has the record already (`Kept`, `Suits`). What a job believes of
  the panel (`NoAppYet`, `Starting`) is what the panel is.
- *The setup flow* (`AddInv`): the flow remembers several things that steps of their own read,
  prove and use after awaits. What it remembers is of one host, its pinned target and its job
  included (`Linked`), so the press, which takes the host from the target, and the question,
  which takes it from the address, mean the same; a question that is open says what is
  remembered now (`Question`), since whatever changes that ends the question; and a press
  carries the question along until the job is asked for (`Fits`). That the panel is the one
  shown is `_same_install_target`, without which the invariant does not hold. The shape of
  the state (`AddTyped`) comes first, since a step must know its host and a remembered job
  must exist. A second dialog's step may change the memory under a step that awaits, and then
  `Linked` and `Fits` fail (section 6), hence the hypothesis `Undisturbed`: `StepFits` is what
  a step achieves for its own dialog, and `FitTogether` that it leaves the others alone. The
  run, with one dialog, checks the property without it.

## 5. Only model-checked

- No safety property that a run checks. `ApprovedIsShown` is checked with one dialog, and
  proved for any number where the steps of others leave a waiting step's memory alone.
- Liveness (`EveryJobSettles`, `EveryCallReturns`, `TransferEnds`, `ConnectedPanelIsFound`,
  `RoomIsSetBack`, `AnnouncementReturns`): TLAPS does not handle fairness
  and `ENABLED`.
- Nothing here is computed by recursion over data. What such a definition returns for
  every input would be out of the prover's reach as well: the induction theorems of
  its library take an operator as a parameter, and a module that declares a RECURSIVE
  operator loses the SMT backend.

## 6. Abstractions and what is not modelled

- Digests are injective, random ids do not repeat, one `os.replace` is atomic.
- A plan is a record of model values (addresses, serial); versions, artifact and
  signer fields travel with it.
- Timestamps only order pruning: any admissible set of finished jobs may be dropped.
- The wording of failures (subcodes) is left out; result codes and stages are kept.
- `PanelSessions`: restart notices, the voice stream, Repairs records, and the memory
  of removed panels. An identity decision is an action that closes sessions.
- `PanelIdentity`: the MQTT evidence is a choice (it proves a migration or not); a
  set of entities is the set of identities inside its ids; a flow's check of the
  unique id and its creation of the entry are one step; the removal of an entry and
  panels that report no identity are left out; `identity_pending` is only set within
  one step and is not kept.
- `InstallDevice`: of the permissions only HOME, no root modes, no pending setup.
  `PreviousHomeIsKept` is about panels that came without the app, and about jobs that begin
  after the last one's program has ended.
- `ArtifactCustody`: names that come back after a power cut, and directories replaced
  under the process. A finish whose queued thread is aborted leaves its descriptor
  open until the process ends (`EndedLeavesNothing` says where).
- `AdbCredentials`: the owner's deletion of the store.
- `DiscoveryCards`: titles and what they are built from; what the registries of other
  integrations hold.
- `AddPanelFlow`: the USB installer's dialog, migration, the options flow, the removal of
  a flow while a step runs. A release list is loaded once and offers at most the newest
  and one other.
- `PanelAddress`: the entry's identity is fixed, so is the entry's loading; a port change
  found by discovery is one of the moves by hand.
- `PanelUpdates` and the others over `ManagedPanel`: stable targets compared by version,
  the retry of an offer that turns out up to date, permission and route Repairs, another
  device at the address of a removal, and the other holders of the reservation (device
  admin, root, the adoption of an identity; the WebView's retry is modelled).
- `UiRelay`: other requests, blobs (when a lent one is returned is in `SessionCommands`)
  and page bundles. The panel's sharing of a subscription is what `ui_relay.py:341` says of it.
- `VoiceStream`: `media_player` playback, the panel's keys and pairing, decoding, inbox
  overflow (it is a link that closes), timers, pipeline events, the stop of Home
  Assistant. `ReturnedIsSilent` excepts a call cancelled inside its own withdrawal.
- `RoomDuck`: the lookup of an area is any set of players; levels are compared exactly,
  not within half a step; a player that can only be muted is tried once.
- I/O, parsing and presentation (`not_modelled` in `PROJECT.json`, with the reason
  for each component).

Seen while modelling, where no line of the repository says otherwise, and so neither a
finding nor a property:

- `config_flow.py:843`: two steps of one flow at a time (a version submitted twice, a
  dialog open in two browsers) share its memory, and the press of one installs what
  only the other showed.
- `discovery.py:296`: "so a person's press never meets a vanished flow" is true of
  `close_offers`, but Home Assistant itself ends a card with a running step when the panel
  whose identity its flow has gets an entry (`discovery.py:594`, `config_flow.py:1541`).
- `duck.py:274`: a turning down that is not answered within `CALL_LIMIT` may show after the
  restore behind it has closed the record; the player then stays low.
- `config_flow.py:779`: connecting a found panel takes whichever panel answers by then.
- `config_flow.py:1361`, `:1554`: the address and identity are found free before the
  wizard's wait, so two waits may end in two entries for one address.
- `coordinator.py:657`: a status read for an address that a flow has just replaced is
  reported of the new one; `:678`: a poll over HTTP that meets a stranger looks nowhere
  else.
- `update.py:501`: an observer that ends while an install shows its own progress ends that
  progress too.
- `install_adb.py:771`: the removal of what an earlier job left discards the record
  of the previous HOME, while that job's abandoned program may still complete.
- `voice_stream.py:702`: a reply cancelled as its stream drains leaves its member until
  the next play or withdrawal.
- `duck.py:261`: a mute that fails to be undone on a player without volume is not retried.
- `ui_relay.py:388`: the last listener to leave a shared subscription ends it, also when
  another's subscribe, already sent, is about to be told that it shares it: that page then
  shows a feed that sends nothing. `:351`: held updates follow an answer that failed.

## 7. Plan

Done: the install path from the dialog to the entry, with its stores and its effect on the
panel; sessions, commands, relays and speech; identity, address and discovery; the
operations on a panel; the proofs of every safety property that a run checks.
What is left, in this order:

1. `InstallPromise`: the abstract specification of the executor (a job is approved, runs
   at most once on the panel, and ends), with `InstallExecutor` shown to implement it.
2. `BrowserDelivery` and the browser installer's journal (`frontend/src/transaction.mjs`,
   `job-store.mjs`), with the USB dialog of the flow.
3. The blobs and page bundles of the sidebar (`blob.py`, `embed.py`), and the panel's voice
   keys and pairing.
4. Pure functions: the choice of a build (`release_catalog.py`, `build_feed.py`), against a
   reference definition over bounded catalogues.
