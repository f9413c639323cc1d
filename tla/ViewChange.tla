------------------------------ MODULE ViewChange ------------------------------
(***************************************************************************)
(* How the directory service (DS) committee replaces its leader.  Within   *)
(* one DS epoch the committee agrees on a final block per transaction      *)
(* epoch.  A DS node whose final block consensus does not end in time      *)
(* starts a view change: it computes a candidate leader and joins a        *)
(* consensus on a view change (VC) block, led by the candidate.  When that *)
(* ends, the faulty leaders go to the back of the committee and the final  *)
(* block consensus is run again.  A node outside the committee (a shard or *)
(* lookup node) follows by the VC blocks and final blocks it is sent.      *)
(*                                                                         *)
(* A consensus instance is used by what module CoSigning promises of it:   *)
(* its leader completes a block that a quorum has signed, and backups that *)
(* accepted the block learn it then.  The handlers run under               *)
(* m_mutexConsensus; every timer and every DetachedFunction is a step of   *)
(* its own, at any later time.                                             *)
(*                                                                         *)
(* A block hash is the block itself; the hash that selects a candidate is  *)
(* the constant Hash.                                                      *)
(***************************************************************************)
EXTENDS Integers, Sequences, FiniteSets, SequencesExt

CONSTANTS
    N,              \* size of the DS committee
    Quorum,         \* ConsensusCommon::NumForConsensus(N)
    Hash(_, _, _),  \* CalculateNewLeaderIndex: (block, VC counter, attempt)
    GUARD_MODE,     \* whether faulty leaders keep their place
    NumOfDSGuard,   \* in guard mode, the members that may become leader
    MaxEpoch,       \* bound on the transaction epochs
    MaxCounter,     \* bound on m_viewChangeCounter
    MaxCrashes      \* bound on the members that stop

ASSUME SizeAssumption == N \in Nat /\ N > 1
ASSUME QuorumAssumption == Quorum \in 2 .. N   \* ceil(0.667 * N), with N > 1
ASSUME GuardAssumption == GUARD_MODE \in BOOLEAN /\ NumOfDSGuard \in 2 .. N
ASSUME BoundsAssumption == /\ MaxEpoch \in Nat \ {0}
                           /\ MaxCounter \in Nat \ {0}
                           /\ MaxCrashes \in Nat

VARIABLES
    crashed,    \* the members that have stopped
    state,      \* m_state
    vcstate,    \* m_viewChangestate
    mode,       \* m_mode
    txChain,    \* m_txBlockChain, the final blocks of this DS epoch
    chain,      \* m_blocklinkchain, the VC blocks of this DS epoch
    committee,  \* m_DSCommittee
    leaderID,   \* m_consensusLeaderID, an index of the committee
    counter,    \* m_viewChangeCounter
    candidate,  \* m_candidateLeaderIndex
    faulty,     \* m_cumulativeFaultyLeaders
    object,     \* m_consensusObject
    fbTimers,   \* threads that wait for cv_viewChangeFinalBlock
    vcTimers,   \* threads that wait for cv_ViewChangeVCBlock
    runVC,      \* RunConsensusOnViewChange threads that have not begun
    prechecks,  \* RunConsensusOnViewChange threads in NodeVCPrecheck
    runFB,      \* ProcessNextConsensus threads that have not begun
    accepts,    \* who announced or accepted which block
    signed,     \* blocks completed by their leader
    outside     \* the view of a node outside the committee

nodeVars == <<crashed, mode, txChain, chain, committee, leaderID>>
vcVars == <<vcstate, counter, candidate, faulty>>
threadVars == <<fbTimers, vcTimers, runVC, prechecks, runFB>>
vars == <<nodeVars, vcVars, threadVars, state, object, accepts, signed, outside>>

Nodes == 1 .. N

Final == {"FINALBLOCK_CONSENSUS_PREP", "FINALBLOCK_CONSENSUS"}

DirStates == Final \cup {"MICROBLOCK_SUBMISSION", "VIEWCHANGE_CONSENSUS_PREP",
                         "VIEWCHANGE_CONSENSUS"}

NoBlock == [kind |-> "none"]

NoObject == [kind |-> "none", id |-> 0, leader |-> 0, block |-> NoBlock]

\* The state in which messages for an object are processed (CheckState)
StateOf(kind) == IF kind = "vc" THEN "VIEWCHANGE_CONSENSUS"
                                ELSE "FINALBLOCK_CONSENSUS"

\* m_currentEpochNum, within the DS epoch
Epoch(n) == Len(txChain[n])

\* A member that runs and has not left to rejoin
Active(n) == n \notin crashed /\ mode[n] # "IDLE"

\* Indexes of the committee start at 0.
Member(n, i) == committee[n][i + 1]

IndexIn(comm, n) == (CHOOSE i \in DOMAIN comm : comm[i] = n) - 1

Init ==
    /\ crashed = {}
    /\ state = [n \in Nodes |-> "MICROBLOCK_SUBMISSION"]
    /\ vcstate = [n \in Nodes |-> "MICROBLOCK_SUBMISSION"]
    /\ mode = [n \in Nodes |-> IF n = 1 THEN "PRIMARY_DS" ELSE "BACKUP_DS"]
    /\ txChain = [n \in Nodes |-> <<>>]
    /\ chain = [n \in Nodes |-> <<>>]
    /\ committee = [n \in Nodes |-> [i \in Nodes |-> i]]
    /\ leaderID = [n \in Nodes |-> 0]
    /\ counter = [n \in Nodes |-> 0]
    /\ candidate = [n \in Nodes |-> 0]
    /\ faulty = [n \in Nodes |-> <<>>]
    /\ object = [n \in Nodes |-> NoObject]
    /\ fbTimers = [n \in Nodes |-> 0]
    /\ vcTimers = [n \in Nodes |-> 0]
    /\ runVC = [n \in Nodes |-> 0]
    /\ prechecks = [n \in Nodes |-> 0]
    /\ runFB = [n \in Nodes |-> 0]
    /\ accepts = {}
    /\ signed = {}
    /\ outside = [txChain |-> <<>>, chain |-> <<>>, committee |-> [i \in Nodes |-> i]]

------------------------------------------------------------------------------
(* The final block consensus *)

\* ComposeFinalBlock
FinalBlock(n) == [kind |-> "final", id |-> Epoch(n), proposer |-> n,
                  epoch |-> Epoch(n), committee |-> committee[n],
                  prev |-> txChain[n]]

Announced == {a.block : a \in accepts}

Announce(n, block) ==
    accepts' = accepts \cup (IF block = NoBlock THEN {}
                             ELSE {[by |-> n, block |-> block]})

\* RunConsensusOnFinalBlock in an allowed state: the primary announces its
\* block, a backup waits for the leader it knows, both with the same timeout.
StartFinalBlock(n) ==
    LET block == IF mode[n] = "PRIMARY_DS" THEN FinalBlock(n) ELSE NoBlock
    IN  /\ state' = [state EXCEPT ![n] = "FINALBLOCK_CONSENSUS"]
        /\ object' = [object EXCEPT ![n] =
                        [kind |-> "final", id |-> Epoch(n),
                         leader |-> leaderID[n], block |-> block]]
        /\ fbTimers' = [fbTimers EXCEPT ![n] = @ + 1]
        /\ Announce(n, block)

\* Mutation of RunAllowed: the state after a view change is forgotten.
RunAllowedFirst(n) == state[n] \in {"VIEWCHANGE_CONSENSUS", "MICROBLOCK_SUBMISSION"}

\* The states in which RunConsensusOnFinalBlock proceeds
RunAllowed(n) == state[n] \in {"VIEWCHANGE_CONSENSUS", "MICROBLOCK_SUBMISSION",
                               "FINALBLOCK_CONSENSUS_PREP"}

\* All microblocks were received, or the wait for them timed out.
RunConsensusOnFinalBlock(n) ==
    /\ Active(n)
    /\ state[n] = "MICROBLOCK_SUBMISSION"
    /\ Epoch(n) < MaxEpoch
    /\ StartFinalBlock(n)
    /\ UNCHANGED <<nodeVars, vcVars, vcTimers, runVC, prechecks, runFB, signed,
                   outside>>

\* ProcessFinalBlockConsensus: a message of the leader reaches a backup in one
\* of the states before its consensus, or in a view change.
EarlyFinalBlock(n) ==
    /\ Active(n)
    /\ mode[n] = "BACKUP_DS"
    /\ RunAllowed(n)
    /\ \E block \in Announced : /\ block.kind = "final"
                                /\ block.id = Epoch(n)
                                /\ block.proposer = Member(n, leaderID[n])
    /\ StartFinalBlock(n)
    /\ UNCHANGED <<nodeVars, vcVars, vcTimers, runVC, prechecks, runFB, signed,
                   outside>>

\* ProcessNextConsensus, after the wait for POST_VIEWCHANGE_BUFFER
ProcessNextConsensus(n) ==
    /\ Active(n)
    /\ runFB[n] > 0
    /\ runFB' = [runFB EXCEPT ![n] = @ - 1]
    /\ \/ RunAllowed(n) /\ Epoch(n) < MaxEpoch /\ StartFinalBlock(n)
       \/ ~RunAllowed(n) /\ UNCHANGED <<state, object, fbTimers, accepts>>
    /\ UNCHANGED <<nodeVars, vcVars, vcTimers, runVC, prechecks, signed, outside>>

------------------------------------------------------------------------------
(* The start of a view change *)

\* A thread that waits for cv_viewChangeFinalBlock times out.
FinalBlockTimeout(n) ==
    /\ Active(n)
    /\ fbTimers[n] > 0
    /\ fbTimers' = [fbTimers EXCEPT ![n] = @ - 1]
    /\ runVC' = [runVC EXCEPT ![n] = @ + 1]
    /\ UNCHANGED <<nodeVars, vcVars, vcTimers, prechecks, runFB, state, object,
                   accepts, signed, outside>>

\* ScheduleViewChangeTimeout
ViewChangeTimeout(n) ==
    /\ Active(n)
    /\ vcTimers[n] > 0
    /\ vcTimers' = [vcTimers EXCEPT ![n] = @ - 1]
    /\ runVC' = [runVC EXCEPT ![n] = @ + 1]
    /\ UNCHANGED <<nodeVars, vcVars, fbTimers, prechecks, runFB, state, object,
                   accepts, signed, outside>>

ViewChangeStates == {"VIEWCHANGE_CONSENSUS_PREP", "VIEWCHANGE_CONSENSUS"}

\* Mutation of LastKnownGoodState: it does not spare the view change states.
LastKnownGoodStateAny(n) == state[n]

\* SetLastKnownGoodState
LastKnownGoodState(n) == IF state[n] \in ViewChangeStates THEN vcstate[n] ELSE state[n]

\* RunConsensusOnViewChange up to the precheck: the last good state is kept and
\* the seed nodes are asked for newer blocks.
BeginViewChange(n) ==
    /\ Active(n)
    /\ runVC[n] > 0
    /\ counter[n] < MaxCounter
    /\ runVC' = [runVC EXCEPT ![n] = @ - 1]
    /\ prechecks' = [prechecks EXCEPT ![n] = @ + 1]
    /\ vcstate' = [vcstate EXCEPT ![n] = LastKnownGoodState(n)]
    /\ state' = [state EXCEPT ![n] = "VIEWCHANGE_CONSENSUS_PREP"]
    /\ UNCHANGED <<nodeVars, counter, candidate, faulty, fbTimers, vcTimers,
                   runFB, object, accepts, signed, outside>>

\* CheckUseVCBlockInsteadOfDSBlock: the candidate is drawn from the last VC
\* block if it is of this epoch and of this kind of consensus, else from the
\* last final block.
UseVCBlock(n) ==
    /\ chain[n] # <<>>
    /\ Last(chain[n]).epoch = Epoch(n)
    /\ vcstate[n] \in Final => Last(chain[n]).state \in Final

HashedBlock(n) == IF UseVCBlock(n) THEN Last(chain[n])
                  ELSE IF txChain[n] # <<>> THEN Last(txChain[n]) ELSE NoBlock

Attempt(n, k, i) ==
    Hash(HashedBlock(n), k, i) % (IF GUARD_MODE THEN NumOfDSGuard ELSE N)

\* Mutation of CalculateNewLeaderIndex: the present leader is not excluded.
CalculateNewLeaderIndexAny(n, k) == Attempt(n, k, 0)

\* CalculateNewLeaderIndex with m_viewChangeCounter = k: hashed again until it
\* is not the present leader
CalculateNewLeaderIndex(n, k) ==
    LET first == CHOOSE i \in 0 .. N :
                    /\ Attempt(n, k, i) # leaderID[n]
                    /\ \A j \in 0 .. (i - 1) : Attempt(n, k, j) = leaderID[n]
    IN  Attempt(n, k, first)

\* The loop of CalculateNewLeaderIndex ends.  The bound on the attempts leaves out
\* no leader: a hash that finds it later acts like one that finds it at once.
LeaderFound(n, k) == \E i \in 0 .. N : Attempt(n, k, i) # leaderID[n]

\* The leader to blame: the present one for the first view change, else the
\* last candidate
FaultyLeaderIndex(n, k) == IF k = 1 THEN leaderID[n] ELSE candidate[n]

\* ComputeNewCandidateLeader
VCBlock(n, k, index, blamed) ==
    [kind |-> "vc", id |-> k, proposer |-> n, epoch |-> Epoch(n),
     committee |-> committee[n], prev |-> chain[n], state |-> vcstate[n],
     leader |-> Member(n, index), counter |-> k, faulty |-> blamed]

\* The rest of RunConsensusOnViewChange, when the seed nodes have no new block
\* or do not answer in time
RunConsensusOnViewChange(n) ==
    /\ Active(n)
    /\ prechecks[n] > 0
    /\ LeaderFound(n, counter[n] + 1)
    /\ prechecks' = [prechecks EXCEPT ![n] = @ - 1]
    /\ LET k == counter[n] + 1
           index == CalculateNewLeaderIndex(n, k)
           blamed == Append(faulty[n], Member(n, FaultyLeaderIndex(n, k)))
           block == IF Member(n, index) = n THEN VCBlock(n, k, index, blamed)
                                            ELSE NoBlock
       IN  /\ counter' = [counter EXCEPT ![n] = k]
           /\ candidate' = [candidate EXCEPT ![n] = index]
           /\ faulty' = [faulty EXCEPT ![n] = blamed]
           /\ object' = [object EXCEPT ![n] = [kind |-> "vc", id |-> k,
                                               leader |-> index, block |-> block]]
           /\ Announce(n, block)
    /\ state' = [state EXCEPT ![n] = "VIEWCHANGE_CONSENSUS"]
    /\ vcTimers' = [vcTimers EXCEPT ![n] = @ + 1]
    /\ UNCHANGED <<nodeVars, vcstate, fbTimers, runVC, runFB, signed, outside>>

\* NodeVCPrecheck fails: the seed nodes have a final block that this one has
\* not.  A backup cleans its variables and rejoins, which is not followed
\* further; RejoinAsDS does nothing for a primary.
PrecheckFails(n) ==
    /\ Active(n)
    /\ prechecks[n] > 0
    /\ Len(outside.txChain) > Epoch(n)
    /\ prechecks' = [prechecks EXCEPT ![n] = @ - 1]
    /\ vcTimers' = [vcTimers EXCEPT ![n] = 0]
    /\ candidate' = [candidate EXCEPT ![n] = 0]
    /\ faulty' = [faulty EXCEPT ![n] = <<>>]
    /\ counter' = [counter EXCEPT ![n] = 0]
    /\ IF mode[n] = "BACKUP_DS"
         THEN /\ mode' = [mode EXCEPT ![n] = "IDLE"]
              /\ object' = [object EXCEPT ![n] = NoObject]
              /\ leaderID' = [leaderID EXCEPT ![n] = 0]
              /\ committee' = [committee EXCEPT ![n] = <<>>]
         ELSE UNCHANGED <<mode, object, leaderID, committee>>
    /\ UNCHANGED <<crashed, txChain, chain, vcstate, fbTimers, runVC, runFB,
                   state, accepts, signed, outside>>

------------------------------------------------------------------------------
(* A consensus instance *)

\* Mutation of ValidateViewChangeState: any state may be proposed.
ValidateViewChangeStateAny(nodeState, proposed) == TRUE

\* ValidateViewChangeState, for the final block consensus
ValidateViewChangeState(nodeState, proposed) == nodeState \in Final /\ proposed \in Final

\* DirectoryService::ViewChangeValidator
ViewChangeValidator(n, block) ==
    /\ block.epoch = Epoch(n)
    /\ block.committee = committee[n]
    /\ block.prev = chain[n]
    /\ LeaderFound(n, counter[n])
    /\ block.leader = Member(n, CalculateNewLeaderIndex(n, counter[n]))
    /\ block.faulty = faulty[n]
    /\ ValidateViewChangeState(vcstate[n], block.state)
    /\ block.counter = counter[n]

\* The parts of FinalBlockValidator about the chain and the committee
FinalBlockValidator(n, block) ==
    /\ block.committee = committee[n]
    /\ block.epoch = Epoch(n)
    /\ block.prev = txChain[n]

\* A backup accepts the announced block and answers the challenges for it.
Accept(n, block) ==
    /\ Active(n)
    /\ object[n].kind = block.kind
    /\ object[n].block = NoBlock
    /\ state[n] = StateOf(block.kind)
    /\ object[n].id = block.id
    /\ Member(n, object[n].leader) = block.proposer
    /\ \/ block.kind = "vc" /\ ViewChangeValidator(n, block)
       \/ block.kind = "final" /\ FinalBlockValidator(n, block)
    /\ object' = [object EXCEPT ![n].block = block]
    /\ accepts' = accepts \cup {[by |-> n, block |-> block]}
    /\ UNCHANGED <<nodeVars, vcVars, threadVars, state, signed, outside>>

\* ProcessFinalBlockConsensusWhenDone with what ProcessFinalBlockConsensusCore
\* does before it
FinalBlockWhenDone(n, block) ==
    /\ txChain' = [txChain EXCEPT ![n] = Append(@, block)]
    /\ counter' = [counter EXCEPT ![n] = 0]
    /\ fbTimers' = [fbTimers EXCEPT ![n] = 0]
    /\ state' = [state EXCEPT ![n] = "MICROBLOCK_SUBMISSION"]
    /\ UNCHANGED <<crashed, mode, chain, committee, leaderID, vcstate, candidate,
                   faulty, vcTimers, runVC, prechecks, runFB>>

\* Mutation of PushToBack: the old entry is not erased.
PushToBackKept(comm, member) == Append(comm, member)

\* A faulty leader is erased from the deque, where it is found first, and
\* emplaced at its back.
PushToBack(comm, member) == Append(RemoveFirst(comm, member), member)

\* One after the other, in the order of the VC block
PushAllToBack(comm, leaders) == FoldLeft(PushToBack, comm, leaders)

\* The new composition in ProcessViewChangeConsensusWhenDone
NewComposition(comm, block) ==
    IF GUARD_MODE THEN comm ELSE PushAllToBack(comm, block.faulty)

\* Mutation of NewLeaderID: the index is taken before the committee changes.
NewLeaderIDOld(comm, block) == IndexIn(block.committee, block.leader)

\* The index of the new leader in the new composition
NewLeaderID(comm, block) == IndexIn(comm, block.leader)

\* CleanUpViewChange(false) and ProcessViewChangeConsensusWhenDone
ViewChangeWhenDone(n, block) ==
    LET comm == NewComposition(committee[n], block)
    IN  /\ vcTimers' = [vcTimers EXCEPT ![n] = 0]
        /\ candidate' = [candidate EXCEPT ![n] = 0]
        /\ faulty' = [faulty EXCEPT ![n] = <<>>]
        /\ mode' = [mode EXCEPT ![n] = IF block.leader = n THEN "PRIMARY_DS"
                                                           ELSE "BACKUP_DS"]
        /\ committee' = [committee EXCEPT ![n] = comm]
        /\ leaderID' = [leaderID EXCEPT ![n] = NewLeaderID(comm, block)]
        /\ IF block.state \in Final
             THEN /\ state' = [state EXCEPT ![n] = "FINALBLOCK_CONSENSUS_PREP"]
                  /\ runFB' = [runFB EXCEPT ![n] = @ + 1]
             ELSE UNCHANGED <<state, runFB>>
        /\ chain' = [chain EXCEPT ![n] = Append(@, block)]
        /\ UNCHANGED <<crashed, txChain, vcstate, counter, fbTimers, runVC, prechecks>>

WhenDone(n, block) ==
    /\ object[n].block = block
    /\ state[n] = StateOf(block.kind)
    /\ \/ block.kind = "vc" /\ ViewChangeWhenDone(n, block)
       \/ block.kind = "final" /\ FinalBlockWhenDone(n, block)
    /\ UNCHANGED <<object, accepts, outside>>

\* The leader has the responses of a quorum, itself included.
LeaderDone(n, block) ==
    /\ Active(n)
    /\ block.proposer = n
    /\ Cardinality({a \in accepts : a.block = block}) >= Quorum
    /\ WhenDone(n, block)
    /\ signed' = signed \cup {block}

\* The final collective signature reaches a backup that accepted the block.
BackupDone(n, block) ==
    /\ Active(n)
    /\ block.proposer # n
    /\ WhenDone(n, block)
    /\ UNCHANGED signed

Crash(n) ==
    /\ n \notin crashed
    /\ Cardinality(crashed) < MaxCrashes
    /\ crashed' = crashed \cup {n}
    /\ UNCHANGED <<mode, txChain, chain, committee, leaderID, vcVars, threadVars,
                   state, object, accepts, signed, outside>>

------------------------------------------------------------------------------
(* A node outside the committee *)

\* Mutation of UpdateDSCommiteeCompositionAfterVC: only the first faulty leader
\* goes to the back.
UpdateDSCommiteeCompositionFirst(comm, block) ==
    IF GUARD_MODE THEN comm ELSE PushToBack(comm, Head(block.faulty))

\* Node::UpdateDSCommiteeCompositionAfterVC
UpdateDSCommiteeCompositionAfterVC(comm, block) ==
    IF GUARD_MODE THEN comm ELSE PushAllToBack(comm, block.faulty)

\* Node::ProcessVCBlockCore
ProcessVCBlock(block) ==
    /\ block.kind = "vc"
    /\ block.epoch = Len(outside.txChain)
    /\ ~Contains(outside.chain, block)
    /\ block.committee = outside.committee
    /\ outside' = [outside EXCEPT
                     !.chain = Append(@, block),
                     !.committee = UpdateDSCommiteeCompositionAfterVC(@, block)]
    /\ UNCHANGED <<nodeVars, vcVars, threadVars, state, object, accepts, signed>>

\* Node::ProcessFinalBlockCore
ProcessFinalBlock(block) ==
    /\ block.kind = "final"
    /\ block.committee = outside.committee
    /\ block.epoch = Len(outside.txChain)
    /\ outside' = [outside EXCEPT !.txChain = Append(@, block)]
    /\ UNCHANGED <<nodeVars, vcVars, threadVars, state, object, accepts, signed>>

------------------------------------------------------------------------------
\* Every step but the expiry of a timer and the end of a precheck
Step ==
    \/ \E n \in Nodes : \/ RunConsensusOnFinalBlock(n)
                        \/ EarlyFinalBlock(n)
                        \/ ProcessNextConsensus(n)
                        \/ BeginViewChange(n)
                        \/ PrecheckFails(n)
    \/ \E n \in Nodes, block \in Announced : Accept(n, block) \/ LeaderDone(n, block)
    \/ \E n \in Nodes, block \in signed : BackupDone(n, block)
    \/ \E block \in signed : ProcessVCBlock(block) \/ ProcessFinalBlock(block)

Next ==
    \/ Step
    \/ \E n \in Nodes : \/ FinalBlockTimeout(n)
                        \/ ViewChangeTimeout(n)
                        \/ RunConsensusOnViewChange(n)
                        \/ Crash(n)

Spec == Init /\ [][Next]_vars

------------------------------------------------------------------------------
(* The same system when the timeouts are long enough: everything that the     *)
(* members which run can do is done before a timer expires, VIEWCHANGE_TIME   *)
(* is the same for all, and no message is delivered a timeout after it was    *)
(* sent.  A message of a member that crashed may or may not arrive.           *)

Arrives(block) == block.proposer \notin crashed

\* The members that hold a block send it to the other nodes too (DataSender).
Spread(block) ==
    \/ Arrives(block)
    \/ \E n \in Nodes \ crashed : Contains(txChain[n] \o chain[n], block)

\* Mutation of PrecheckPasses: newer final blocks are not asked for.
PrecheckPassesAlways(n) == RunConsensusOnViewChange(n)

\* The seed nodes answer the precheck in time, with no newer block.
PrecheckPasses(n) ==
    /\ Len(outside.txChain) <= Epoch(n)
    /\ RunConsensusOnViewChange(n)

Prompt ==
    \/ \E n \in Nodes : \/ RunConsensusOnFinalBlock(n)
                        \/ ProcessNextConsensus(n)
                        \/ BeginViewChange(n)
                        \/ PrecheckFails(n)
                        \/ PrecheckPasses(n)
    \/ \E n \in Nodes, block \in Announced :
         Arrives(block) /\ (Accept(n, block) \/ LeaderDone(n, block))
    \/ \E n \in Nodes, block \in signed : Arrives(block) /\ BackupDone(n, block)
    \/ \E block \in signed :
         Spread(block) /\ (ProcessVCBlock(block) \/ ProcessFinalBlock(block))

\* Every thread that waits times out.
RoundTimeout ==
    /\ \E n \in Nodes : Active(n) /\ fbTimers[n] + vcTimers[n] > 0
    /\ ~ENABLED Prompt
    /\ runVC' = [n \in Nodes |-> IF Active(n) THEN runVC[n] + fbTimers[n] + vcTimers[n]
                                              ELSE runVC[n]]
    /\ fbTimers' = [n \in Nodes |-> 0]
    /\ vcTimers' = [n \in Nodes |-> 0]
    /\ accepts' = {}
    /\ signed' = {block \in signed : Spread(block)}
    /\ UNCHANGED <<nodeVars, vcVars, prechecks, runFB, state, object, outside>>

TimelyNext ==
    \/ Step
    \/ \E n \in Nodes : PrecheckPasses(n) \/ Crash(n)
    \/ RoundTimeout

TimelySpec == Init /\ [][TimelyNext]_vars /\ WF_vars(Prompt \/ RoundTimeout)

------------------------------------------------------------------------------
(* Properties *)

\* Every variable keeps its type; the state a view change goes back to is never
\* one of the view change itself.
TypeOK ==
    /\ crashed \subseteq Nodes
    /\ state \in [Nodes -> DirStates]
    /\ vcstate \in [Nodes -> DirStates \ ViewChangeStates]
    /\ mode \in [Nodes -> {"PRIMARY_DS", "BACKUP_DS", "IDLE"}]
    /\ committee \in [Nodes -> Seq(Nodes)]
    /\ leaderID \in [Nodes -> 0 .. (N - 1)]
    /\ candidate \in [Nodes -> 0 .. (N - 1)]
    /\ counter \in [Nodes -> Nat]
    /\ \A n \in Nodes : faulty[n] \in Seq(Nodes)
    /\ \A thread \in {fbTimers, vcTimers, runVC, prechecks, runFB} :
         thread \in [Nodes -> Nat]
    /\ accepts \subseteq [by : Nodes, block : Announced]
    /\ outside.committee \in Seq(Nodes)

\* However often leaders are pushed to the back (ProcessViewChangeConsensusWhenDone),
\* in the committee of a member every member stays exactly once: bitmaps and
\* indexes of the co-signatures keep their meaning.
CommitteePermutation ==
    \A n \in Nodes : mode[n] # "IDLE" =>
        Len(committee[n]) = N /\ ToSet(committee[n]) = Nodes

\* A member acts as primary exactly when its leader index points to itself, over
\* all view changes: the mode is set from the VC block and the index is searched
\* in the changed committee.
LeaderIndexConsistent ==
    \A n \in Nodes : mode[n] # "IDLE" =>
        (mode[n] = "PRIMARY_DS" <=> Member(n, leaderID[n]) = n)

\* Members with the same VC blocks have the same committee order and the same
\* leader, and so has a node outside the committee, which applies the blocks with
\* code of its own (UpdateDSCommiteeCompositionAfterVC).
SameChainSameView ==
    /\ \A n, m \in Nodes :
         (mode[n] # "IDLE" /\ mode[m] # "IDLE" /\ chain[n] = chain[m]) =>
             committee[n] = committee[m] /\ leaderID[n] = leaderID[m]
    /\ \A n \in Nodes : (mode[n] # "IDLE" /\ chain[n] = outside.chain) =>
             outside.committee = committee[n]

\* A view change thread that starts after its member has finished the epoch (the
\* timer expired just before the final block was done) never leads to a signed
\* VC block: every signed one replaces the leader of a final block consensus.
StaleViewChangeRejected ==
    \A block \in signed : block.kind = "vc" => block.state \in Final

\* With timeouts that are long enough and at most two crashes, members that have not
\* crashed agree on the final blocks, also when a leader crashes while its block is
\* being completed.  (After three crashes the seed nodes may be left behind with a VC
\* block that the committee has given up, and NodeVCPrecheck finds nothing new there.)
FinalBlockAgreement ==
    \A n, m \in Nodes \ crashed : \/ IsPrefix(txChain[n], txChain[m])
                                  \/ IsPrefix(txChain[m], txChain[n])

\* Under the same assumption a node outside the committee has the final blocks of
\* the members, whatever the order in which it gets VC blocks and final blocks.
OutsideFollows ==
    \A n \in Nodes \ crashed : \/ IsPrefix(txChain[n], outside.txChain)
                               \/ IsPrefix(outside.txChain, txChain[n])

\* When no more members crash than the quorum tolerates, every other member ends
\* the epoch with a final block, or leaves to fetch it from the seed nodes.
EpochEnds == <>(\A n \in Nodes \ crashed :
                   \/ Epoch(n) = MaxEpoch
                   \/ mode[n] = "IDLE" /\ Len(outside.txChain) = MaxEpoch)

\* A completed view change never elects the leader that it replaces.
NewLeaderDiffers ==
    [][\A n \in Nodes : chain'[n] # chain[n] =>
         committee'[n][leaderID'[n] + 1] # Member(n, leaderID[n])]_vars

\* "Pushing faulty leader to back of the deque": the leader that a view change
\* replaces is among the faulty leaders of its VC block.
FaultyLeaderEjected ==
    \A n \in Nodes : \A i \in 2 .. Len(chain[n]) :
        chain[n][i].epoch = chain[n][i - 1].epoch =>
            Contains(chain[n][i].faulty, chain[n][i - 1].leader)
==============================================================================
