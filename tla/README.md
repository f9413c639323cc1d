# Formal model of the Zilliqa core (`src/cw`)

TLA+ modules, TLC runs and TLAPS proofs about the consensus core of the
Zilliqa node: the two-round collective-signing protocol, the locking of its
commit window, the view change of the directory service (DS) committee, the
transactions of a shard's microblock with the pools they come from, and what a
shard node writes to disk and recovers from it after a crash.

## 1. The system and its parts

A network of nodes runs in *DS epochs*. At the start of an epoch nodes submit
proofs of work; the DS committee agrees on a DS block that rotates the
committee and assigns the shards. Each *transaction epoch* then has every shard
agree on a microblock and the DS committee on a final block that collects them.
All of these agreements (DS block, microblock, final block, view change block,
fallback block) are instances of one collective-signing protocol.

| Part (`src/cw/...`) | State | Operations | What makes it correct | Here |
|---|---|---|---|---|
| `libConsensus` | per instance: `m_state`, commit/response maps, subsets, `m_CS1/B1`, `m_CS2/B2`, `m_messageToCosign`, `m_commitSecret` | StartConsensus, ProcessMessage (11 message types), commit window thread | only a quorum signs; all who finish have the same signatures; an instance is aborted or completed, never both; delay never makes a backup reject the leader | `Consensus`, `CoSigning`, `CommitWindow` |
| `libDirectoryService` view change | `m_viewChangeCounter`, `m_candidateLeaderIndex`, `m_cumulativeFaultyLeaders`, `m_viewChangestate`, `m_mode`, `m_consensusLeaderID`, timers | RunConsensusOnViewChange, ViewChangeValidator, ProcessViewChangeConsensus(WhenDone), precheck | the committee stays a permutation; members with the same blocks have the same leader; no second block for an epoch; the epoch ends | `ViewChange` |
| `libDirectoryService` final block | `m_finalBlock`, `m_state`, consensus buffer, `m_txBlockChain` | RunConsensusOnFinalBlock, FinalBlockValidator, ProcessFinalBlockConsensus(WhenDone) | one block per epoch; late and early messages do no harm | `ViewChange` (control only) |
| `libDirectoryService` DS block, PoW, microblock intake, coinbase, gas price | `m_allPoWs`, `m_microBlocks`, `m_shards`, ... | submissions, DS block consensus, rewards | every valid submission counts once; committee rotation keeps its size; sums are kept | not modelled |
| `libNode` microblock | `m_state`, `m_createdTxns`/`t_createdTxns`, `m_txnPacketBuffer`, `m_TxnOrder`, `m_gasUsedTotal`, `m_microblock`, `m_lastMicroBlockCoSig` | packets from lookups and gossip, selection by leader and backup, validation, fetch of missing transactions, update by the final block | what is agreed can be executed; no transaction is lost or left behind; the gas limit | `MicroBlockTxns` |
| `libNode` blocks and recovery | chains, epoch number, accounts, committee | ProcessFinalBlock, ProcessVCDSBlocksMessage, StartRetrieveHistory, RejoinAsNormal | a follower ends with the committee's chain, at every crash | `Persistence`; followers of VC and final blocks in `ViewChange`; PoW and fallback not modelled |
| `libLookup` | sync type, seed nodes, buffers | fetch and synchronise, rejoin | a lagging node ends up in sync | the fetch of a recovering node in `Persistence`; re-joining not modelled |
| `libNetwork`, `libRumorSpreading` | rumors, raw messages and their expiry, blacklist, reputation | gossip rounds, send, punish/award | every rumor reaches everybody; bans are lifted | spreading of finished blocks only; gossip not modelled |
| `libData` | accounts (permanent, temporary, revertible), transaction pool, circular chains, block links | commit, revert, delta, insert/find | indexes agree; revert restores | `TxnPool`; deltas and roots in `Persistence`, nonces in `MicroBlockTxns` |
| `libPersistence` | stored blocks, deltas, accounts, links, metadata | put/get, retrieve on start | what is retrieved is a prefix of what was agreed | `Persistence` |
| `libUtils`, `libMediator`, `libValidator` | thread pool, epoch number | — | — | `CheckWhetherBlockIsLatest` in `ViewChange` |
| `libServer`, `libMessage`, `libCrypto`, `libPOW` | — | RPC, encoding, curves, hashing | — | what a signature binds is in `Consensus`; the rest is outside a model checker's reach |

How they interact: messages are dispatched to `DirectoryService::Execute` or
`Node::Execute`, whose handlers call the consensus object under
`m_mutexConsensus`; detached threads (`DetachedFunction`) run the commit window,
the view change timers and the next consensus; blocks that are DONE are handed
to `DataSender`, which sends them to shards and lookup nodes.

What is hard: the commit window thread works beside the handlers; a view change
timer may expire while the consensus it watches ends; leaders crash while a
block is being completed; messages are gossiped, so they are reordered and
repeated; every member computes the next leader by itself. At a shard node,
leader and backup select from pools that differ, detached threads select again
or write the accounts after the epoch has moved on, and a crash falls between
any two of the writes that belong together.

## 2. Modules

* **`Consensus`** — one instance of `libConsensus`, leader and backups. A
  variable per field of `ConsensusLeader`/`ConsensusBackup` that control depends
  on, an action per handler, a step per wake-up of the commit window thread
  (`TimerWait`, `TimerWake`, `TimerInsufficient`, `TimerStartSubsets`). Messages
  stay in `msgs` for ever: any order, any delay, any repetition. A commit secret
  and its point are a number, a bitmap is the set of nonzero positions, a
  signature is what it binds (message, commit points, responses). The owner of
  the object is there as far as it decides what reaches it: it holds back
  messages out of order (`CanProcessMessage`), waits for missing data with the
  mutex held (`fetching`, `FetchDone`, `FetchTimeout`), and takes nothing more
  once the object is DONE (`OwnerAccepts`).
* **`CoSigning`** — what an instance promises, in five variables. `Consensus`
  implements it (`ImplementsCoSigning`); `ViewChange` uses instances by it.
* **`CommitWindow`** — the commit handler and the commit window thread with
  `m_mutex`, `m_mutexAnnounceSubsetConsensus` and the condition variable, one
  step per lock operation. `Consensus` takes each of these handlers as one step.
* **`ViewChange`** — a DS committee over the transaction epochs of one DS epoch:
  the final block consensus, its timer, the view change with precheck,
  candidate, validation, ejection and new leader, members that crash, and a node
  outside the committee. `Spec` lets timers expire at any moment. `TimelySpec`
  is the same system with timeouts that are long enough (below).
* **`TxnPool`** — the pool of `TxnPool.h`: the indexes by hash, gas price and
  (sender, nonce) as three fields of a record, and its operations as operators.
  `GasIndex` keeps its empty entries, as `insert` leaves them.
* **`MicroBlockTxns`** — two members of a shard over its transaction epochs, on
  top of `TxnPool`. A selection (`ProcessTransactionWhenShardLeader/Backup`) is
  the loop of the code, iteration by iteration, inside one action: it holds
  `m_mutexCreatedTransactions` from beginning to end. Actions: packets
  (`ProcessTxnPacketFromLookup`, `CommitTxnPacketBuffer`), the run of an epoch
  (`RunConsensusOnMicroBlock...`), the backup's check (`MicroBlockValidator`), the
  fetch (`OnNodeMissingTxns`, `WaitMissingTxn`, `ProcessSubmitMissingTxn`,
  `MissingTxnTimeout`, `ReprocessConsensus`), the end (`MicroBlockDone`,
  `BackupDone`), the final block (`MakeFinalBlock`, `ProcessFinalBlock`). State
  delta and receipts stand for the set of executed transactions, accounts for
  their nonces. The other members of the shard are environment: they may cosign
  any microblock that can be executed.
* **`Persistence`** — a shard node and its disk. A state says how often the
  delta of each block has been applied, so that roots are equal exactly when
  they should be. Final blocks take two writes, DS blocks six, a recovery one per
  block link, deleted block and delta; each is a step, `Crash` may follow any of
  them and `Fails` is a write that reports an error. `WriteStateToDisk` is the
  detached thread of a vacuous block, which runs when it likes. The recovery is
  `StartRetrieveHistory` with the `Retriever` and the fetch from a lookup. `Rejoin`
  and a failed recovery end the history: what follows is a download of the
  whole persistence.
* **`ConsensusProofs`**, **`ConsensusSigningProofs`**, **`CommitWindowProofs`**,
  **`ViewChangeProofs`**, **`TxnPoolProofs`**, **`MicroBlockTxnsProofs`**,
  **`PersistenceProofs`** — the theorems of section 4, each module about the one it
  is named after; **`OrderLemmas`** — lemmas that several of them use.
* **`MCConsensus`, `MCViewChange`, `MCMicroBlockTxns`** — the modules the runs
  start from.

`PROJECT.json` maps each definition to its lines. Definitions whose comment
begins "Mutation of" are variants of the definition after them, with a
plausible mistake; no specification uses them. For each property of a passing
run one of them is known to violate it.

## 3. Runs

| Run | Instance | Checks |
|---|---|---|
| `consensus` | 4 nodes, quorum 3, 1 subset, backups accept, miss data or stay silent | type; signatures come from a quorum that answered that challenge; agreement; no rejection of the leader; refinement of `CoSigning` |
| `subsets` | 4 nodes, quorum 2, 2 subsets, a backup with invalid responses, commit window | abort and completion exclude each other; counter and commit map agree; a secret is used for one message only, also after a consensus failure; the leader never goes back; the inductive invariant |
| `all_done` | 4 nodes, fairness | everybody ends DONE |
| `commit_window` | 6 commits, quorum 5, sufficient 6 | no commit is counted while subsets are built; a quorum leads to the challenge, to the error, or to the deadlock |
| `commit_window_deadlock` | same | **violated**: the deadlock of section 5 |
| `view_change` | 3 members, quorum 2, one view change, any timing | type; mode and leader index agree; a stale view change is never signed; the new leader differs |
| `view_change_twice` | 5 members, quorum 3, 2 crashes, 2 view changes | permutation; same blocks, same view, also outside; one chain of final blocks inside and outside |
| `epoch_ends` | 4 members, quorum 3, 1 crash, fairness | the epoch ends |
| `faulty_leader` | 5 members, quorum 3, 2 crashes | **violated**: the wrong member is ejected (section 5) |
| `persistence` | 3 tx blocks per DS epoch, blocks 0 to 7, 2 crashes, 1 failed write | type; no gap on disk; committee and DS block current; recoverable at rest; `DSINCOMPLETED` tells the truth; a block is added, or a recovery ends, only with the accounts of that block; finished epochs are kept; an intact recovery gets past the fetch |
| `recovery_stuck` | same, 1 crash | **violated**: a recovery that never ends (section 5) |
| `microblock_txns` | 2 nodes, 2 epochs and the vacuous one, 4 transactions, 2 packets, 1 cut selection, 1 reply | type; indexes agree; what is selected and what is accepted can be executed; gas; nothing executable is left behind; nothing is lost; fetched transactions are there |

Bounds and why they are enough. `MaxCommits` bounds the secrets of a backup: with
2, a backup draws one for each round, or one before and one after a restart. With 4 nodes and 1 subset a quorum of 3
leaves one backup out, so that a backup outside the subset, an abort (one
failure is enough) and a late commit all happen. More than one subset needs more
than `Quorum` other commits; quorum 2 of 4 is the smallest such instance, which
is why that run lowers the tolerance. In `ViewChange`, `MaxCounter` bounds the
view changes of an epoch, `MaxCrashes` the members that stop; two crashes of
five with quorum 3 are the largest number the quorum survives. The hash that
selects a candidate is a constant operator; the one of the runs depends on block,
counter and attempt and hits the present leader at first, so that the second
attempt of `CalculateNewLeaderIndex` happens. Deadlock is not checked: an instance that is
DONE, aborted or given up stops, and so does the bounded epoch.

`Persistence`: N = 3 is the smallest DS epoch with a first, a middle and a
vacuous block; blocks 0 to 7 reach the third DS epoch, so that a node recovers in
the second (in the first one it re-joins by rule) and the network can leave it
behind there. Two crashes let the second one hit a recovery. Block 6 has an
empty delta, for which a delta applied twice goes unnoticed. `INCRDB` = 2 makes the
recovery keep the deltas at one DS boundary and clear them at another.

`MicroBlockTxns`: transactions 1 and 2 compete for a nonce, 3 follows them and may
pass the gas limit, 4 is a cheap one of another sender; this is enough for
replacement, the empty index entry, a wait for a nonce, a return to the pool and a
microblock above the limit. `Cuts` names after how many iterations a timer may
cut a selection, `until` the epochs in which a packet travels; each packet
reaches a node once, from the lookup if the node is in `to`, otherwise by gossip.
Two epochs with alternating leaders let a handler and a thread of the first run
in the second; the third is vacuous and clears the pools.

Fairness. `Consensus!FairSpec`: weak fairness of the leader's steps and of each
backup's. Handlers never block for ever in that run (the missing-data wait ends
by timeout), and sends are retried or gossiped. `CommitWindow!FairSpec`: both
threads run when they can, and `wait_for` has a timeout. `TimelySpec`: weak
fairness of the steps that the running members can take, and of the common
timeout. `Persistence!FairSpec`: a node that is down is started again, the steps of
a recovery are taken, and a lookup that is asked every `RECOVERY_SYNC_TIMEOUT`
seconds answers, in the end with the state deltas; final and DS blocks, writer
threads and crashes have no fairness.

Exemptions. Some properties of the new modules name a case that the code does
not exclude, with a history variable that records only that case:

* `late`: `writeStateToDisk` ran after the next final block changed the accounts, or
  cleared `DSINCOMPLETED` after the next DS block set it.
* `torn`: a crash or failed write hit the DS block's handler between the block
  and `PutDSCommittee`, or a recovery between clearing and rewriting the links. The
  node then runs with an old committee or an old DS block and takes no final block.
* `lost`: a transaction came into `m_createdTxns` between a selection and the final
  block, which replaces the pool by the selection's copy.
* `stale`: a thread selected again for an announcement of an earlier epoch, and
  left its effects in `AccountStoreTemp`. `SelectionExecutable` and
  `AcceptedExecutable` are about the other nodes; the leader of an accepted
  microblock may be one of these.

`TxnsKept` speaks of histories whose final blocks can be executed (section 5 says why
that is not a matter of course).

The timing assumption of `TimelySpec`. `VIEWCHANGE_TIME` is the only thing that
keeps an old final block consensus and a view change apart: there is no lock on
an accepted block that survives into the next view. In the untimed `Spec` two
different final blocks for one epoch are reachable, when timers expire while a
block is being completed and a member that has it is not asked for it. So
`RoundTimeout` fires only when no running member has a step left, for all
members at once, and drops what was not delivered; a message of a member that
crashed may or may not arrive. Within that, crashes happen at any moment, also
between the completion of a block by its leader and its receipt by the others;
there the precheck (`NodeVCPrecheck`) carries the argument, as its mutation shows.

Limits met on the way: with `N = 4`, quorum 2 and two crashes a member that
missed a VC block cannot come back (the precheck asks for DS and final blocks
only), so `EpochEnds` is claimed for one crash and quorum 3. What a rejoining
member does is not modelled, so runs have one transaction epoch.

## 4. Proofs

Every theorem below is about all values of the constants: any committee, number of
commits, length of a DS epoch, set of transactions, and any number of crashes,
timeouts, losses and repetitions. The assumptions are the named ones of the
modules (sizes are positive, leaders are members, sets of transactions are
finite); what goes beyond that is named with the theorem.

**`ConsensusProofs`** (one instance of the collective signing)

* `Invariance`: `Spec => []IInv`
* `TypeCorrect`, `AgreementHolds`, `OutcomeExclusiveHolds`,
  `LeaderNeverRejectedHolds`: the properties of these names, in every state

None of the properties is inductive by itself. A backup's DONE follows from a
message, so the invariant says what the leader's messages carry and in which states
of the leader they can exist (`MessageInv`): a signature of round 1 or a challenge of
round 2 is the leader's present `m_CS1`, which needs that the leader never returns to
the first round once it was sent. A backup compares with its own
`m_messageToCosign`, so `BackupInv` says which message that is in each state. The
commit window thread sets `m_state` without looking at it, so `LeaderInv` says that it
is pending only before a challenge or after an abort. The run `subsets` checks
`IInv` on an instance.

**`ConsensusSigningProofs`** (what the signatures stand for)

* `SigningInvariance`, `CosignedByQuorumHolds`, `CommitsCountedHolds`,
  `SecretPerMessageHolds`
* `LeaderAdvancesHolds`, an action property
* `ImplementsCoSigningHolds`: `Spec => ImplementsCoSigning`, the refinement of
  `CoSigning` step by step

`SigningInv` adds to `IInv` that the commit counter is the cardinality of the commit
map for as long as the handler or the window thread may still use it (`CommitInv`),
that the responses a subset has counted are answers to its own challenge
(`SubsetInv`, `ResponseInv`), and in which order a backup draws and uses its secrets
(`SecretInv`): a restart from INITIAL takes a new one, so no secret of the first
round answers in the second.

**`CommitWindowProofs`** (the two mutexes)

* `Invariance`, `TypeCorrect`, `StartExcludesHandlerHolds`
* `OnlyDeadlock`: if both threads are blocked, the handler has just counted the
  sufficient commit and waits for `m_mutexAnnounceSubsetConsensus`, and the window
  thread has found a quorum and waits for `m_mutex`. The deadlock of section 5 is
  the only one.

`MutexInv` says who holds which mutex at which line; `CountInv` and `WindowInv` tie the
counter and the state to the two program counters.

**`ViewChangeProofs`** (`Spec` and `TimelySpec`)

* `Invariance`, `TypeCorrect`, `CommitteePermutationHolds`,
  `LeaderIndexConsistentHolds`, `SameChainSameViewHolds`,
  `StaleViewChangeRejectedHolds`
* `NewLeaderDiffersHolds`, an action property

They assume that a quorum is at least two and, as a hypothesis of each theorem
(`HashIsNumber`), that the hash of a candidate is a natural number; guard mode may be
on or off. `CommitteeInv` says that committees are permutations, `ObjectInv` that the
VC block of a view change in progress was made for the member's present
committee and names another leader, and `ViewInv` that committee and leader are
what the last VC block makes of them, which is what makes equal chains give equal
views. A VC block that is signed was accepted by a member other than its proposer
(`AcceptInv`); there the quorum of two is needed.

**`PersistenceProofs`** (the disk and the recovery)

* `Invariance`, `TypeCorrect`, `DiskChainContiguousHolds`,
  `FlagTellsUnfinishedHolds`, `DirectoryCurrentHolds`
* `BlockMatchesStateHolds`, `FinishedEpochsKeptHolds`, two action properties
* `DiskInvariance`, `RecoverableAtRestHolds`

The invariant says for each point between two writes what is on disk already
(`RunInv`, `DSInv`), for each phase of a recovery what it deletes, applies and
commits next (`ExtraInv`, `FetchInv`), that links are rewritten from the first one
upwards and never ahead of the DS blocks (`LinkInv`), what a cleared
`DSINCOMPLETED` implies (`FlagInv`), and which DS block is the newest one that blocks,
links and committee agree on (`DirInv`).

That a node can be recovered from what is on its disk is not a consequence of that
invariant, which says nothing about the accounts on disk. `DiskInv` is a second one,
on top of it: a running node has on disk the deltas of the DS epoch that has not
ended, and the root they start from unless its writer thread has still to move it
(`RunDisk`); a stopped node has those deltas wherever its recovery keeps deltas
(`StopDisk`); and the accounts of a recovery are the root it has read with the deltas
it has applied so far (`ReadInv`, `SourceInv`, `MatchInv`), until it is ahead of the
chain or the next block is a vacuous one, which the rules of re-joining refuse. Two
facts carry it. A vacuous block comes with rewards (`RewardsAssumption`), so the root of a writer
that ran late differs from the root before it and is told apart; and a delta that is
applied twice does no harm only if its block changed nothing (`Quiet`). TLC
checked `DiskInv` on four small instances before the proof.

**`TxnPoolProofs`** (the pool's operations)

* `InsertConsistent`, `EraseConsistent`: both keep the three indexes consistent

`Consistent` speaks of unions of the gas index; the proofs work with an equivalent
form, element by element (`Indexed`). Further lemmas say that an insertion leaves
every transaction covered that was covered before, by itself or by a better one of
its sender and nonce (`InsertMerged`), and what `findOne` finds and misses
(`FindOneFacts`, `NothingFound`).

**`MicroBlockTxnsProofs`** (the shard's microblock)

* `Invariance`, `TypeCorrect`, `PoolsConsistentHolds`,
  `GasOvershootBoundedHolds`, `NothingExecutableLeftHolds`,
  `SelectionExecutableHolds`, `AcceptedExecutableHolds`,
  `FetchedOrSupersededHolds`
* `KeptInvariance`, `TxnsKeptHolds`

Three arguments meet. (1) A packet is inserted by a fold, and a selection is a loop of
any number of iterations; `LoopKeeps` shows what every iteration preserves
(`SelInv`: the order executed so far carries on from the nonces at the start, the
gas before its last transaction is below the limit, a transaction that waits has a
later nonce, one set aside exceeds the limit), and that the measure
`2 * |pool| + |waiting|` falls, so a selection that nobody cuts off ends within
`MaxIterations`. `SelectionOutcome` is what the protocol needs of it. (2) `NonceInv` says
when `AccountStoreTemp` holds the accounts of the last final block: a node that is
past its first selection and has no result is one that waits for missing
transactions, and it has been reverted, unless a thread of an earlier epoch has
run. It needs that nothing is about an epoch its node is not yet in (`EpochInv`) and
how far a node has come (`BeginInv`). (3) A backup compares only the order within a
tolerance, the gas and the set of executed transactions. That the announced order can
be executed follows since both orders carry on from *some* nonces (`MicroInv`,
`SelectedInv`) and hold the same transactions (`FromSame`). `FetchInv` says that what a
backup did not ask for it had, and that its pool keeps covering it whatever
comes in.

`TxnsKept`, no transaction disappears without having been executed, replaced or
failed, has an invariant of its own, `KeptInv`. Within one selection every
transaction of the starting pool is still in the pool, waits, was set aside, has failed, or
has a nonce that the selection's accounts have passed (`SelectionKept`); since a pool
has one transaction for a sender and nonce, putting back what waited replaces nothing.
`LeftInv` carries that from the selection to the final block. A node that stands for the
microblock (a backup that accepted it, the leader that announced it) and is not
`stale` has selected exactly its transactions (`RelyInv`), and the final block it has still
to process is the one of that microblock (`LinkInv`). When the chain can be executed its
blocks use consecutive nonces (`ChainSettled`), so the nonces after the final block
are at least those the selection ended with, and what `UpdateProcessedTransactions`
drops was executed. TLC checked `KeptInv` on the instance of the run.

**`OrderLemmas`** holds what replaces induction over data: least and greatest elements of
sets of numbers, and `Stepwise`, induction up to a bound for a *set* of numbers. Recursive
functions, folds and loops are handled through the function that computes them:
such a function exists (built step by step), so `CHOOSE` picks one, and what holds
along it holds at its end.

Only model-checked: liveness (`AllDone` and the other properties under fairness: the
prover has no rules for it), and two invariants of `TimelySpec`,
`FinalBlockAgreement` and `OutsideFollows`. Without timing they are false, and the timing
assumption is `~ENABLED Prompt` in `RoundTimeout`, which the prover cannot expand.
`FinalBlockAgreement` is not true for every value of the constants either: section 5
describes a behaviour with three crashes. `view_change_twice` checks it with two.

## 5. Findings

* **Commit window deadlock** (`commit_window_deadlock`). The handler of the
  commit that reaches `m_sufficientCommitsNumForSubsets` holds `m_mutex` and
  takes `m_mutexAnnounceSubsetConsensus` (`ConsensusLeader.cpp` 328, 415). The window thread
  that has just timed out holds the latter and takes `m_mutex` (942, 961 and 728, 747). Both
  wait for ever, against the comment at 412.
* **The wrong leader is ejected** (`faulty_leader`). After a completed view
  change `m_candidateLeaderIndex` is 0 and `m_viewChangeCounter` is kept, so a
  second view change of the epoch blames whoever is at index 0
  (`ViewChangePreProcessing.cpp` 300-305); the leader that failed keeps its place.
* **A recovery without end** (`recovery_stuck`). A node that starts again after
  the network has gone on to the next DS epoch gets tx blocks that
  `CheckTxBlocks` reports as `STALEDSINFO`; `ProcessSetTxBlockFromSeed` keeps them in a
  buffer and notifies nobody (`Lookup.cpp` 1884-1891), so the loop at
  `Node.cpp` 596-603 never ends and the re-join announced at 607 is not reached.
  The same happens when a crash fell between a delta and its block: the root
  check at `Lookup.cpp` 1993 fails each time.

Observed on the way, without a line that promises otherwise:

* The precheck protects a completed final block only while the seed nodes keep up.
  When a leader elected by a view change crashes after its VC block reached the
  seed nodes but too few members, the others elect another one from the old
  committee; the seed nodes refuse that VC block and the final blocks after it,
  since the committee differs. If the new leader crashes too, with its final block
  at one member only, no precheck fails, and the members agree on another final
  block of that epoch. It takes three crashes: TLC follows it step by step in
  `TimelySpec` with 16 members and quorum 11, the code's own, which tolerates five.
  It was found when a proof of `FinalBlockAgreement` for all constants was tried.
* `findOne` stops at an empty entry of `GasIndex` that a replacement left; cheaper
  transactions wait until one of that price is inserted and taken again, or the
  vacuous epoch clears the pools.
* `MICROBLOCK_GAS_LIMIT` is passed by the last transaction taken from the pool
  directly; only those that waited for their nonce are compared with it.
* A backup whose pool has a better offer for a nonce refuses the transaction it
  has fetched, and the leader ignores its second commit failure.
* The wait for missing transactions has no predicate: a reply before the wait
  costs the backup the epoch.
* A thread that selects again too late leaves its effects in `AccountStoreTemp`. When
  that happens to a leader and to a backup alike (with three members, so that both
  were backups in the epoch before), the two agree on a microblock that skips
  nonces.

## 6. Not modelled, and the plan

Not modelled inside the modules:

* `ViewChange`: view changes out of the DS block consensus; the rejoin of a member
  after a failed precheck; the contents of blocks; `GUARD_MODE` as a run (it is a
  parameter); `CONSENSUSFAILURE` handling by shards' owners beyond the object.
* `MicroBlockTxns`: packets of another DS epoch or shard and the buffering at the
  DS boundary; `m_unconfirmedTxns` (a report for queries); balances, contracts and
  overflow of the gas sums; a node more than one final block behind; a final
  block that is processed while the node's own thread still waits for packets.
  `Valid` is a parameter that is TRUE throughout the run.
* `Persistence`: the DS node's writes (`FinalBlockPostProcessing.cpp` 42-331),
  `RECOVERY_ALL_SYNC` and `RECOVERY_TRIM_INCOMPLETED_BLOCK`, more than one vacuous
  block, several lookups, VC and fallback blocks among the links, contract storage,
  and what a re-join does.

Parts that are not modelled: PoW and difficulty, fallback, gossip, blacklist and
reputation, coinbase and gas price, thread pool and shard sizes (no promise that
several steps could break was found there beyond what the hazards list); RPC,
message encoding and curve arithmetic are translation and arithmetic.
`src/cw/depends` and the other vendored trees, nearly all of the repository's
lines, are third-party code.

Order of the next steps:

1. Proofs: `FinalBlockAgreement` and `OutsideFollows` for at most two crashes, with
   a guard of `RoundTimeout` written without `ENABLED`.
2. `Rumor`: gossip rounds, expiry of raw messages, pulls.
3. `DSEpoch`: the DS block consensus with its view changes and the rotation; the DS
   node's writes and re-joining.
