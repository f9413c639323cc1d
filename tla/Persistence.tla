----------------------------- MODULE Persistence -----------------------------
(***************************************************************************)
(* What a shard node keeps in memory and on disk while final blocks and DS *)
(* blocks arrive, and how it recovers from its disk after a crash          *)
(* (libNode, libPersistence, and the part of libLookup that recovery       *)
(* uses).                                                                  *)
(*                                                                         *)
(* Tx block n carries a state delta.  A state is the function that tells   *)
(* how often each delta has been applied, so that a state root is equal to *)
(* the one in block n exactly when the state is Prefix(n).  DS block d     *)
(* opens the DS epoch of the tx blocks (d-1)*N .. d*N-1, the last of which *)
(* is vacuous; the DS committee changes with every DS block and is named   *)
(* by the number of that block.  Every write to the disk is a step of its  *)
(* own, so that a crash may happen between any two of them.                *)
(***************************************************************************)
EXTENDS Integers, FiniteSets, FiniteSetsExt

CONSTANTS
    N,            \* NUM_FINAL_BLOCK_PER_POW, with NUM_VACUOUS_EPOCHS = 1
    INCRDB,       \* INCRDB_DSNUMS_WITH_STATEDELTAS
    MaxBlock,     \* bound: the last tx block of the network
    Quiet,        \* the tx blocks whose state delta changes nothing
    MaxCrashes,   \* bound: crashes of the node
    MaxFailures   \* bound: writes that report an error

ASSUME ConstantsAssumption ==
    /\ N \in Nat /\ N > 2 /\ INCRDB \in Nat \ {0}
    /\ MaxBlock \in Nat /\ MaxCrashes \in Nat /\ MaxFailures \in Nat
    /\ Quiet \subseteq 1 .. MaxBlock

VARIABLES
    \* the network: the last tx block and the last DS block of the lookups
    net, netDS,
    \* memory: the node's mode, NodeState, chains, epoch number, accounts,
    \* committee, and m_prevStateRootHashTemp of its Lookup object
    mode, nstate, last, dsLast, epoch, state, committee, prevRoot,
    \* memory: the tx block whose handler is between its two writes, the next
    \* step of the DS block's handler, and the detached threads that run
    \* writeStateToDisk, one per vacuous block
    fb, dsStep, writer,
    \* memory: the step of the recovery and its local variables
    rec,
    \* the disk
    disk,
    \* counters of faults, and history: which data were written too late, or
    \* not at all because of a fault
    crashes, failures, late, torn

memory == <<mode, nstate, last, dsLast, epoch, state, committee, prevRoot,
            fb, dsStep, writer, rec>>
vars == <<net, netDS, memory, disk, crashes, failures, late, torn>>

Blocks   == 0 .. MaxBlock
DSBlocks == 0 .. (MaxBlock \div N) + 1
None     == -1

(* The DS block under which tx block n is made, and the vacuous blocks *)
DSOf(n)  == (n \div N) + 1
Vacuous(n) == (n + 1) % N = 0

(* The last block of a DS epoch pays the rewards (InitCoinbase), so its delta *)
(* changes the accounts                                                       *)
ASSUME RewardsAssumption == \A n \in Quiet : ~ Vacuous(n)

(* The state whose root tx block n carries *)
Prefix(n) == [b \in Blocks |-> IF b <= n /\ b \notin Quiet THEN 1 ELSE 0]

(* AccountStore::DeserializeDelta; 2 stands for twice or more *)
Apply(s, n) == IF n \in Quiet THEN s
               ELSE [s EXCEPT ![n] = IF @ = 2 THEN 2 ELSE @ + 1]

(* The tx blocks on disk that belong to a DS epoch that has not ended *)
Extra(txs) == LET l == Max(txs) IN {n \in txs : n >= l + 1 - ((l + 1) % N)}

DSSteps == {"idle", "shards", "dsblock", "flag", "link", "reset", "committee"}
RecSteps == {"idle", "links", "relink", "states", "txblocks", "trim", "extra",
             "fetch", "commit", "lagging", "delta", "validate"}

(* Nothing is being recovered *)
NoRec == [step |-> "idle", links |-> {}, states |-> FALSE, extra |-> {}, old |-> None,
          high |-> None]

Empty == [tx |-> {}, delta |-> {}, root |-> Prefix(None), ds |-> {}, link |-> {},
          flag |-> 0, shards |-> 0, committee |-> 0]

(* A node in its first DS epoch, before the first final block: the accounts *)
(* have not been written to disk yet                                        *)
Init ==
    /\ net = 0 /\ netDS = 1
    /\ mode = "running" /\ nstate = "WAITING_FINALBLOCK"
    /\ last = 0 /\ dsLast = 1 /\ epoch = 1 /\ committee = 1
    /\ state = Prefix(0) /\ prevRoot = Prefix(None)
    /\ fb = None /\ dsStep = "idle" /\ writer = [n \in Blocks |-> "none"]
    /\ rec = NoRec
    /\ disk = [tx |-> {0}, delta |-> {}, root |-> Prefix(None), ds |-> {0, 1},
               link |-> {0, 1}, flag |-> 1, shards |-> 1, committee |-> 1]
    /\ crashes = 0 /\ failures = 0 /\ late = {} /\ torn = {}

-----------------------------------------------------------------------------
(* The network makes its next block *)

NetTxBlock ==
    /\ net < MaxBlock
    /\ DSOf(net + 1) = netDS
    /\ net' = net + 1
    /\ UNCHANGED <<netDS, memory, disk, crashes, failures, late, torn>>

NetDSBlock ==
    /\ net < MaxBlock
    /\ DSOf(net + 1) = netDS + 1
    /\ netDS' = netDS + 1
    /\ UNCHANGED <<net, memory, disk, crashes, failures, late, torn>>

-----------------------------------------------------------------------------
(* Final blocks *)

(* RejoinAsNormal: the persistence is downloaded and the node starts again *)
(* from it, which ends its history here                                    *)
Rejoin ==
    /\ mode' = "rejoin"
    /\ fb' = None /\ dsStep' = "idle" /\ rec' = NoRec
    /\ writer' = [n \in Blocks |-> "none"]
    /\ UNCHANGED <<nstate, last, dsLast, epoch, state, committee, prevRoot>>

(* A write may report an error *)
Fails == failures < MaxFailures /\ failures' = failures + 1

CheckWhetherBlockIsLatest(ds, n) == ds = dsLast + 1 /\ n = epoch

(* The first half of ProcessFinalBlockCore, up to PutStateDelta.  A block of *)
(* another committee is dropped before its number is looked at.              *)
ProcessFinalBlock(n) ==
    /\ mode = "running" /\ fb = None /\ n <= net
    /\ committee = DSOf(n)
    /\ \/ /\ CheckWhetherBlockIsLatest(DSOf(n) + 1, n)
          /\ nstate = "WAITING_FINALBLOCK"
          /\ state' = Apply(state, n)
          /\ \/ /\ disk' = [disk EXCEPT !.delta = @ \cup {n}]
                /\ fb' = n
                /\ UNCHANGED failures
             \/ /\ Fails
                /\ UNCHANGED <<disk, fb>>
          /\ UNCHANGED <<mode, nstate, last, dsLast, epoch, committee, prevRoot,
                         dsStep, writer, rec>>
       \/ /\ n > epoch
          /\ Rejoin
          /\ UNCHANGED <<disk, failures>>
    /\ UNCHANGED <<net, netDS, crashes, late, torn>>

\* Mutation of CheckStateRoot: the root is not compared.
NoCheckStateRoot(n) == n \in Blocks

CheckStateRoot(n) == state = Prefix(n)

(* The second half: the root is checked, LoadUnavailableMicroBlockHashes may *)
(* find another microblock than the node's own and end the handler, and      *)
(* StoreFinalBlock adds the block to the chain before it writes it           *)
StoreFinalBlock ==
    /\ mode = "running" /\ fb # None
    /\ \/ /\ CheckStateRoot(fb)
          /\ last' = fb
          /\ \/ /\ disk' = [disk EXCEPT !.tx = @ \cup {fb}]
                /\ epoch' = epoch + 1
                /\ IF Vacuous(fb)
                   THEN /\ nstate' = "WAITING_DSBLOCK"
                        /\ writer' = [writer EXCEPT ![fb] = "move"]
                   ELSE UNCHANGED <<nstate, writer>>
                /\ UNCHANGED failures
             \/ /\ Fails
                /\ UNCHANGED <<disk, epoch, nstate, writer>>
          /\ fb' = None
          /\ UNCHANGED <<mode, dsLast, state, committee, prevRoot, dsStep, rec>>
       \/ /\ CheckStateRoot(fb)
          /\ fb' = None
          /\ UNCHANGED <<mode, nstate, last, dsLast, epoch, state, committee,
                         prevRoot, dsStep, writer, rec, disk, failures>>
       \/ /\ ~ CheckStateRoot(fb)
          /\ Rejoin
          /\ UNCHANGED <<disk, failures>>
    /\ UNCHANGED <<net, netDS, crashes, late, torn>>

(* The detached thread of the vacuous block n: MoveUpdatesToDisk commits the *)
(* accounts as they are when it runs, then DSINCOMPLETED is cleared          *)
WriteStateToDisk(n) ==
    /\ mode = "running"
    /\ \/ /\ writer[n] = "move"
          /\ disk' = [disk EXCEPT !.root = state]
          /\ writer' = [writer EXCEPT ![n] = "flag"]
          /\ late' = IF state = Prefix(n) THEN late \ {"root"} ELSE late \cup {"root"}
       \/ /\ writer[n] = "flag"
          /\ disk' = [disk EXCEPT !.flag = 0]
          /\ writer' = [writer EXCEPT ![n] = "none"]
          /\ late' = IF dsLast = DSOf(n) THEN late ELSE late \cup {"flag"}
    /\ UNCHANGED <<net, netDS, mode, nstate, last, dsLast, epoch, state, committee,
                   prevRoot, fb, dsStep, rec, crashes, failures, torn>>

-----------------------------------------------------------------------------
(* DS blocks *)

(* ProcessVCDSBlocksMessage accepts the next DS block *)
ProcessDSBlock ==
    /\ mode = "running" /\ dsStep = "idle"
    /\ nstate = "WAITING_DSBLOCK"
    /\ netDS = dsLast + 1 /\ epoch = (netDS - 1) * N
    /\ committee = dsLast
    /\ dsStep' = "shards"
    /\ UNCHANGED <<net, netDS, mode, nstate, last, dsLast, epoch, state, committee,
                   prevRoot, fb, writer, rec, disk, crashes, failures, late, torn>>

\* Mutations of NextDSStep: the handler starts over, forgets PutDSCommittee, or
\* forgets DSINCOMPLETED.
NextDSStepAgain == [shards |-> "dsblock", dsblock |-> "flag", flag |-> "link",
                    link |-> "reset", reset |-> "committee", committee |-> "shards"]
NextDSStepNoCommittee == [shards |-> "dsblock", dsblock |-> "flag", flag |-> "link",
                          link |-> "reset", reset |-> "idle"]
NextDSStepNoFlag == [shards |-> "dsblock", dsblock |-> "link", link |-> "reset",
                     reset |-> "committee", committee |-> "idle"]

(* Its writes, in their order: PutShardStructure; StoreDSBlockToDisk, which *)
(* puts the block, sets DSINCOMPLETED and adds the block link; ResetDB of   *)
(* the state deltas; and, after the first tx epoch has been started,        *)
(* PutDSCommittee.  d is the number of the block.                           *)
NextDSStep == [shards |-> "dsblock", dsblock |-> "flag", flag |-> "link",
               link |-> "reset", reset |-> "committee", committee |-> "idle"]

DSWrite(d) ==
    disk' = CASE dsStep = "shards"    -> [disk EXCEPT !.shards = d]
              [] dsStep = "dsblock"   -> [disk EXCEPT !.ds = @ \cup {d}]
              [] dsStep = "flag"      -> [disk EXCEPT !.flag = 1]
              [] dsStep = "link"      -> [disk EXCEPT !.link = @ \cup {d}]
              [] dsStep = "reset"     -> [disk EXCEPT !.delta = {}]
              [] dsStep = "committee" -> [disk EXCEPT !.committee = d]

(* What follows a write that fails: StoreDSBlockToDisk returns nothing, and *)
(* its caller goes on; the other failures end the handler                   *)
DSFailure == IF dsStep \in {"dsblock", "flag", "link"} THEN "reset" ELSE "idle"

DSBlockStep ==
    LET d == IF dsStep \in {"shards", "dsblock"} THEN dsLast + 1 ELSE dsLast IN
    /\ mode = "running" /\ dsStep # "idle"
    /\ dsLast' = IF dsStep = "dsblock" THEN d ELSE dsLast
    /\ \/ /\ DSWrite(d)
          /\ dsStep' = NextDSStep[dsStep]
          /\ IF dsStep = "reset"
             THEN committee' = dsLast /\ nstate' = "WAITING_FINALBLOCK"
             ELSE UNCHANGED <<committee, nstate>>
          /\ late' = IF dsStep = "flag" THEN late \ {"flag"} ELSE late
          /\ torn' = IF dsStep = "committee" THEN torn \ {"committee"} ELSE torn
          /\ UNCHANGED failures
       \/ /\ Fails
          /\ disk' = IF dsStep = "flag" THEN [disk EXCEPT !.ds = @ \ {d}] ELSE disk
          /\ dsStep' = DSFailure
          /\ torn' = torn \cup
                 (CASE dsStep \in {"dsblock", "flag", "link"} -> {"links"}
                    [] dsStep \in {"reset", "committee"}      -> {"committee"}
                    [] OTHER                                  -> {})
          /\ UNCHANGED <<committee, nstate, late>>
    /\ UNCHANGED <<net, netDS, mode, last, epoch, state, prevRoot, fb, writer, rec,
                   crashes>>

-----------------------------------------------------------------------------
(* Crash and recovery *)

(* Whatever is in memory is lost *)
Crash ==
    /\ mode \in {"running", "recovering"}
    /\ crashes < MaxCrashes
    /\ crashes' = crashes + 1
    /\ mode' = "down"
    /\ fb' = None /\ dsStep' = "idle" /\ rec' = NoRec
    /\ writer' = [n \in Blocks |-> "none"]
    /\ last' = None /\ dsLast' = 0 /\ epoch' = 0 /\ committee' = 0
    /\ state' = Prefix(None) /\ prevRoot' = Prefix(None)
    /\ nstate' = "WAITING_FINALBLOCK"
    /\ torn' = torn
           \cup (IF dsStep \in {"reset", "committee"} THEN {"committee"} ELSE {})
           \cup (IF rec.step = "relink" THEN {"links"} ELSE {})
    /\ UNCHANGED <<net, netDS, disk, failures, late>>

(* A recovery step changes the recovery's variables to r *)
RecStep(from, r) ==
    /\ mode = "recovering" /\ rec.step = from /\ rec' = r
    /\ UNCHANGED <<net, netDS, nstate, epoch, fb, dsStep, writer, crashes,
                   failures, late, torn>>

GoTo(step) == [rec EXCEPT !.step = step]

(* The node is started again: Install calls StartRetrieveHistory *)
Restart ==
    /\ mode = "down"
    /\ mode' = "recovering"
    /\ committee' = disk.committee
    /\ rec' = GoTo("links")
    /\ UNCHANGED <<net, netDS, nstate, last, dsLast, epoch, state, prevRoot, fb,
                   dsStep, writer, disk, crashes, failures, late, torn>>

(* RetrieveBlockLink: the block links are read and cleared on disk ... *)
RetrieveBlockLink ==
    /\ RecStep("links", [rec EXCEPT !.step = "relink", !.links = disk.link])
    /\ disk' = [disk EXCEPT !.link = {}]
    /\ UNCHANGED <<mode, last, dsLast, state, committee, prevRoot>>

(* ... and added again one by one, with the DS blocks they point to *)
AddBlockLink ==
    LET left == rec.links \ disk.link IN
    /\ IF left = {}
       THEN /\ RecStep("relink", GoTo("states"))
            /\ UNCHANGED <<disk, dsLast>>
       ELSE /\ RecStep("relink", rec)
            /\ disk' = [disk EXCEPT !.link = @ \cup {Min(left)}]
            /\ dsLast' = Min(left)
    /\ UNCHANGED <<mode, last, state, committee, prevRoot>>

(* AccountStore::RetrieveFromDisk *)
RetrieveStates ==
    /\ RecStep("states", [rec EXCEPT !.step = "txblocks",
                                     !.states = disk.root # Prefix(None)])
    /\ state' = disk.root
    /\ UNCHANGED <<mode, last, dsLast, committee, prevRoot, disk>>

(* Install after a failed recovery: the disk is cleaned and the node joins *)
(* the network as a new one                                                *)
Fail ==
    /\ mode' = "rejoin"
    /\ disk' = Empty

(* RetrieveTxBlocks: a missing delta of a block of the unfinished DS epoch  *)
(* makes it drop all of them; the deltas on disk are cleared unless the     *)
(* number of DS epochs is a multiple of INCRDB (there is no StateDeltaFromS3 *)
(* directory at a node that recovers)                                       *)
RetrieveTxBlocks ==
    \/ /\ disk.tx = {}
       /\ RecStep("txblocks", NoRec)
       /\ Fail
       /\ UNCHANGED <<last, dsLast, state, committee, prevRoot>>
    \/ /\ disk.tx # {}
       /\ LET extra == Extra(disk.tx)
              trim  == \E n \in extra : n \notin disk.delta
              kept  == Max(disk.tx) + 1 - Cardinality(extra)
          IN /\ RecStep("txblocks", [rec EXCEPT !.step = IF trim THEN "trim" ELSE "extra",
                                                !.extra = extra])
             /\ disk' = IF kept % (INCRDB * N) = 0 THEN disk
                        ELSE [disk EXCEPT !.delta = {}]
       /\ UNCHANGED <<mode, last, dsLast, state, committee, prevRoot>>

(* AddBlock for the blocks read from disk *)
AddBlocks(txs) == last' = IF txs = {} THEN None ELSE Max(txs)

\* Mutations of TrimTxBlocks: the blocks are deleted from the first one upwards,
\* or one more than the unfinished DS epoch has.
TrimUpwards ==
    /\ IF rec.extra = {}
       THEN /\ RecStep("trim", [rec EXCEPT !.step = "fetch", !.old = Cardinality(disk.tx)])
            /\ AddBlocks(disk.tx)
            /\ UNCHANGED disk
       ELSE /\ RecStep("trim", [rec EXCEPT !.extra = @ \ {Min(@)}])
            /\ disk' = [disk EXCEPT !.tx = @ \ {Min(rec.extra)}]
            /\ UNCHANGED last
    /\ UNCHANGED <<mode, dsLast, state, committee, prevRoot>>
TrimOneMore ==
    /\ disk' = [disk EXCEPT !.tx = {n \in @ : \E m \in @ : m > n}]
    /\ IF rec.extra = {}
       THEN /\ RecStep("trim", [rec EXCEPT !.step = "fetch", !.old = Cardinality(disk'.tx)])
            /\ AddBlocks(disk'.tx)
       ELSE /\ RecStep("trim", [rec EXCEPT !.extra = @ \ {Max(@)}])
            /\ UNCHANGED last
    /\ UNCHANGED <<mode, dsLast, state, committee, prevRoot>>

(* DeleteTxBlock, from the last block downwards *)
TrimTxBlocks ==
    /\ IF rec.extra = {}
       THEN /\ RecStep("trim", [rec EXCEPT !.step = "fetch", !.old = Cardinality(disk.tx)])
            /\ AddBlocks(disk.tx)
            /\ UNCHANGED disk
       ELSE /\ RecStep("trim", [rec EXCEPT !.extra = @ \ {Max(@)}])
            /\ disk' = [disk EXCEPT !.tx = @ \ {Max(rec.extra)}]
            /\ UNCHANGED last
    /\ UNCHANGED <<mode, dsLast, state, committee, prevRoot>>

\* Mutation of ApplyExtraDeltas: the deltas are not written again.
ApplyExtraDeltasInMemory ==
    /\ IF rec.extra = {}
       THEN /\ RecStep("extra", [rec EXCEPT !.step = "fetch", !.old = Cardinality(disk.tx)])
            /\ AddBlocks(disk.tx)
            /\ UNCHANGED <<disk, state>>
       ELSE /\ RecStep("extra", [rec EXCEPT !.extra = @ \ {Min(@)}])
            /\ state' = Apply(state, Min(rec.extra))
            /\ UNCHANGED <<disk, last>>
    /\ UNCHANGED <<mode, dsLast, committee, prevRoot>>

(* The deltas of the unfinished DS epoch are applied, and written again *)
ApplyExtraDeltas ==
    /\ IF rec.extra = {}
       THEN /\ RecStep("extra", [rec EXCEPT !.step = "fetch", !.old = Cardinality(disk.tx)])
            /\ AddBlocks(disk.tx)
            /\ UNCHANGED <<disk, state>>
       ELSE /\ RecStep("extra", [rec EXCEPT !.extra = @ \ {Min(@)}])
            /\ state' = Apply(state, Min(rec.extra))
            /\ disk' = [disk EXCEPT !.delta = @ \cup {Min(rec.extra)}]
            /\ UNCHANGED last
    /\ UNCHANGED <<mode, dsLast, committee, prevRoot>>

-----------------------------------------------------------------------------
(* Retrieving the lacked tx blocks from a lookup *)

(* Lookup::RetrieveTxBlocks at the lookup: not before its DS epoch *)
LowBlockNum == Max({last + 1, 1, (netDS - 1) * N})

(* The number of blocks of the chain in memory *)
GetBlockCount == last + 1

(* The waiting recovery is notified; what it does depends on the number of *)
(* blocks it has got                                                       *)
Notified(count) ==
    [rec EXCEPT !.step = CASE count > rec.old + 1 -> "lagging"
                           [] count = rec.old + 1 -> "delta"
                           [] OTHER               -> "validate"]

\* Mutation of NoBlocksFromSeed: the recovery is not notified.
NoBlocksNotNotified ==
    /\ LowBlockNum > net
    /\ RecStep("fetch", rec)
    /\ UNCHANGED <<mode, last, dsLast, state, committee, prevRoot, disk>>

(* ProcessSetTxBlockFromSeed when the lookup has nothing to send *)
NoBlocksFromSeed ==
    /\ LowBlockNum > net
    /\ RecStep("fetch", Notified(GetBlockCount))
    /\ UNCHANGED <<mode, last, dsLast, state, committee, prevRoot, disk>>

(* CommitTxBlocks, when no state delta arrives in the time of its retries *)
NoDeltasFromSeed ==
    /\ LowBlockNum <= net /\ DSOf(net) = dsLast
    /\ RecStep("fetch", Notified(GetBlockCount))
    /\ UNCHANGED <<mode, last, dsLast, state, committee, prevRoot, disk>>

(* The state after the deltas of the blocks ns *)
ApplyAll(s, ns) == [b \in Blocks |-> IF b \in ns THEN Apply(s, b)[b] ELSE s[b]]

(* CommitTxBlocks, when the deltas arrive: ProcessSetStateDeltasFromSeed    *)
(* takes the ones that are not on disk and, at the end of a DS epoch, writes *)
(* the accounts; blocks whose last root is not the one reached are dropped,  *)
(* and nobody is notified                                                    *)
ProcessSetStateDeltasFromSeed ==
    LET low   == LowBlockNum
        new   == (low .. net) \ disk.delta
        after == ApplyAll(state, new)
        root  == IF new = {} THEN prevRoot ELSE after
    IN /\ low <= net /\ DSOf(net) = dsLast
       /\ RecStep("fetch", IF root = Prefix(net)
                           THEN [rec EXCEPT !.step = "commit", !.high = net]
                           ELSE rec)
       /\ state' = after
       /\ prevRoot' = root
       /\ disk' = [disk EXCEPT !.delta = @ \cup new,
                               !.root = IF Vacuous(net) THEN after ELSE @]
       /\ UNCHANGED <<mode, last, dsLast, committee>>

(* The rest of CommitTxBlocks: the blocks are added and written *)
CommitTxBlocks ==
    /\ RecStep("commit", Notified(rec.high + 1))
    /\ last' = rec.high
    /\ disk' = [disk EXCEPT !.tx = @ \cup (last + 1 .. rec.high)]
    /\ UNCHANGED <<mode, dsLast, state, committee, prevRoot>>

(* ProcessSetStateDeltaFromSeed: the delta of the last block is applied *)
ProcessSetStateDeltaFromSeed ==
    /\ RecStep("delta", GoTo("validate"))
    /\ state' = Apply(state, last)
    /\ UNCHANGED <<mode, last, dsLast, committee, prevRoot, disk>>

(* "Node recovery lagging behind too much" *)
LaggingTooMuch ==
    /\ RecStep("lagging", NoRec)
    /\ Fail
    /\ UNCHANGED <<last, dsLast, state, committee, prevRoot>>

(* GetOfflineLookups fails *)
NoOfflineLookups ==
    /\ RecStep("fetch", NoRec)
    /\ Fail
    /\ UNCHANGED <<last, dsLast, state, committee, prevRoot>>

(* The end of StartRetrieveHistory, ValidateStates and the end of Install *)
RejoinRules == last # None /\ (last < N \/ Vacuous(last + 1))

ValidateStates == last # None /\ state = Prefix(last)

FinishRecovery ==
    /\ mode = "recovering" /\ rec.step = "validate"
    /\ rec' = NoRec
    /\ IF ~ RejoinRules /\ rec.links # {} /\ rec.states /\ ValidateStates
       THEN /\ mode' = "running"
            /\ epoch' = last + 1
            /\ nstate' = "WAITING_FINALBLOCK"
            /\ UNCHANGED disk
       ELSE /\ Fail
            /\ UNCHANGED <<epoch, nstate>>
    /\ UNCHANGED <<net, netDS, last, dsLast, state, committee, prevRoot, fb, dsStep,
                   writer, crashes, failures, late, torn>>

FetchReply ==
    \/ NoBlocksFromSeed
    \/ ProcessSetStateDeltasFromSeed

Recover ==
    \/ RetrieveBlockLink \/ AddBlockLink \/ RetrieveStates \/ RetrieveTxBlocks
    \/ TrimTxBlocks \/ ApplyExtraDeltas
    \/ FetchReply \/ NoDeltasFromSeed \/ CommitTxBlocks
    \/ ProcessSetStateDeltaFromSeed \/ LaggingTooMuch \/ NoOfflineLookups \/ FinishRecovery

Next ==
    \/ NetTxBlock \/ NetDSBlock
    \/ \E n \in Blocks : ProcessFinalBlock(n) \/ WriteStateToDisk(n)
    \/ StoreFinalBlock \/ ProcessDSBlock \/ DSBlockStep
    \/ Crash \/ Restart \/ Recover

Spec == Init /\ [][Next]_vars

(* A thread that is not stopped goes on, a lookup that is asked again and    *)
(* again answers, and of its two answers (state deltas, or none of them) the *)
(* state deltas come in the end                                              *)
FairSpec ==
    /\ Spec
    /\ WF_vars(Restart)
    /\ WF_vars(RetrieveBlockLink) /\ WF_vars(AddBlockLink) /\ WF_vars(RetrieveStates)
    /\ WF_vars(RetrieveTxBlocks) /\ WF_vars(TrimTxBlocks) /\ WF_vars(ApplyExtraDeltas)
    /\ WF_vars(FetchReply) /\ WF_vars(CommitTxBlocks)
    /\ WF_vars(ProcessSetStateDeltaFromSeed) /\ WF_vars(LaggingTooMuch)
    /\ WF_vars(FinishRecovery)

-----------------------------------------------------------------------------
(* Properties *)

Idle == fb = None /\ dsStep = "idle" /\ \A n \in Blocks : writer[n] = "none"

(* Every variable has its type *)
TypeOK ==
    /\ net \in Blocks /\ netDS \in DSBlocks
    /\ mode \in {"running", "down", "recovering", "rejoin"}
    /\ nstate \in {"WAITING_DSBLOCK", "WAITING_FINALBLOCK"}
    /\ last \in Blocks \cup {None} /\ dsLast \in DSBlocks /\ epoch \in 0 .. MaxBlock + 1
    /\ state \in [Blocks -> 0 .. 2] /\ prevRoot \in [Blocks -> 0 .. 2]
    /\ committee \in DSBlocks
    /\ fb \in Blocks \cup {None} /\ dsStep \in DSSteps
    /\ writer \in [Blocks -> {"none", "move", "flag"}]
    /\ rec \in [step : RecSteps, links : SUBSET DSBlocks, states : BOOLEAN,
                extra : SUBSET Blocks, old : 0 .. MaxBlock + 1 \cup {None},
                high : Blocks \cup {None}]
    /\ disk \in [tx : SUBSET Blocks, delta : SUBSET Blocks, root : [Blocks -> 0 .. 2],
                 ds : SUBSET DSBlocks, link : SUBSET DSBlocks, flag : {0, 1},
                 shards : DSBlocks, committee : DSBlocks]
    /\ crashes \in 0 .. MaxCrashes /\ failures \in 0 .. MaxFailures
    /\ late \subseteq {"root", "flag"} /\ torn \subseteq {"committee", "links"}

(* The tx blocks on disk have no gap, wherever a crash or a failed write    *)
(* stops the handlers and the trimming of a recovery                        *)
(* (Node::StoreFinalBlock, Retriever::RetrieveTxBlocks, Lookup::CommitTxBlocks) *)
DiskChainContiguous == disk.tx = 0 .. Cardinality(disk.tx) - 1

(* Unless a crash or a failure hit the writes of the DS block's handler, or  *)
(* the rewriting of the block links by a recovery, a running node has the    *)
(* committee of its last DS block, and the DS block of its last tx block     *)
(* (Node::ProcessVCDSBlocksMessage, Retriever::RetrieveBlockLink)            *)
DirectoryCurrent ==
    (mode = "running" /\ dsStep = "idle" /\ torn = {}) =>
        committee = dsLast /\ dsLast >= DSOf(last)

(* A running node at rest could be stopped and recovered: the accounts on   *)
(* disk are those of the last vacuous block, and the deltas of the later    *)
(* blocks are there to be applied, unless writeStateToDisk was overtaken by *)
(* the next final block (ProcessFinalBlockCore, RetrieveTxBlocks)           *)
RecoverableAtRest ==
    LET l == Max(disk.tx) IN
    (mode = "running" /\ Idle /\ "root" \notin late /\ l >= N - 1) =>
        /\ disk.root = Prefix(l - Cardinality(Extra(disk.tx)))
        /\ Extra(disk.tx) \subseteq disk.delta

(* DSINCOMPLETED is set on disk as long as the DS epoch of the last block    *)
(* link has not ended, unless a thread of the previous DS epoch cleared it   *)
(* late (BlockStorage::PutDSBlock, writeStateToDisk)                         *)
FlagTellsUnfinished ==
    ("flag" \notin late /\ disk.tx # {} /\ disk.link # {}
        /\ Max(disk.tx) < Max(disk.link) * N - 1) => disk.flag = 1

(* When a block becomes the last of the chain in memory, or a recovery ends, *)
(* the accounts are exactly those of that block, every delta applied once,   *)
(* whatever the node applied in handlers that ended early or in a recovery   *)
(* (CheckStateRoot, ValidateStates); and a recovered chain is the one on disk *)
BlockMatchesState ==
    [][(mode' = "running" /\ (last' # last \/ mode = "recovering")) =>
           /\ state' = Prefix(last')
           /\ mode = "recovering" => last' = Max(disk'.tx)]_vars

(* A recovery that does not fail deletes no tx block of a DS epoch that has *)
(* ended (Retriever::RetrieveTxBlocks)                                      *)
FinishedEpochsKept ==
    [][\A n \in disk.tx \ disk'.tx : mode' = "rejoin" \/ n \in Extra(disk.tx)]_vars

(* A recovery whose disk is intact and whose DS epoch is still the network's *)
(* gets past the fetching of tx blocks (StartRetrieveHistory,                *)
(* ProcessSetTxBlockFromSeed, CommitTxBlocks)                                *)
Intact == ValidateStates /\ (\A n \in disk.delta : n <= last) /\ DSOf(net) = dsLast

FetchEnds == (rec.step = "fetch" /\ Intact) ~> (rec.step # "fetch" \/ ~ Intact)

(* A recovery ends: the node runs again, or re-joins the network, or crashes *)
(* (StartRetrieveHistory)                                                    *)
RecoveryEnds == (mode = "recovering") ~> (mode # "recovering")
==============================================================================
