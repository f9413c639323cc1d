---------------------------- MODULE MicroBlockTxns ----------------------------
(***************************************************************************)
(* The transactions of a shard's microblock: how packets of transactions   *)
(* get into the pools of the shard's nodes, how the leader and the backups *)
(* of an epoch each select and execute transactions of their own pool, how *)
(* a backup compares its selection with the leader's, fetches what it      *)
(* lacks, and what the final block of the epoch does to the pools          *)
(* (libNode/MicroBlockPreProcessing.cpp, MicroBlockPostProcessing.cpp,     *)
(* FinalBlockProcessing.cpp and Node.cpp).                                 *)
(*                                                                         *)
(* A selection holds m_mutexCreatedTransactions from beginning to end, so  *)
(* it is one step here, cut off by its timer after any number of           *)
(* iterations.  The members of the shard that are not in Nodes are part of *)
(* the environment: they may cosign a microblock that can be executed.     *)
(***************************************************************************)
EXTENDS TxnPool, Sequences, SequencesExt

CONSTANTS
    Nodes,        \* the modelled members of the shard
    Leader,       \* the leader of each epoch: a sequence of Nodes
    Limit, Used,  \* the gas a transaction may use, and the gas it does use
    Valid,        \* whether CheckCreatedTransaction accepts it at its nonce
    Packets,      \* the packets: a set of [epoch, until, txns, to], where to
                  \* are the nodes that get it from the lookup (the others by
                  \* gossip) and until bounds the epochs in which it travels
    LateAllow,    \* PACKET_EPOCH_LATE_ALLOW
    GasLimit,     \* MICROBLOCK_GAS_LIMIT
    Tolerance,    \* TXN_MISORDER_TOLERANCE_IN_PERCENT
    MaxTimeouts,  \* bound: selections that are cut off
    Cuts,         \* bound: per node, the numbers of iterations after which
                  \* its selection may be cut off
    MaxReplies    \* bound: replies with missing transactions; others get lost

MaxEpoch == Len(Leader)     \* the last epoch, which is the vacuous one
Epochs   == 1 .. MaxEpoch
Senders  == {Sender[t] : t \in Txns}

ASSUME ConstantsAssumption ==
    /\ Leader \in Seq(Nodes) /\ Leader # <<>>
    /\ {Limit, Used} \subseteq [Txns -> Nat] /\ Valid \in [Txns -> BOOLEAN]
    /\ \A p \in Packets : /\ {p.epoch, p.until} \subseteq Nat /\ p.txns \in Seq(Txns)
                         /\ p.to \subseteq Nodes
    /\ {LateAllow, GasLimit, Tolerance, MaxTimeouts, MaxReplies} \subseteq Nat
    /\ Cuts \in [Nodes -> SUBSET Nat]

VARIABLES
    \* per node: m_currentEpochNum, m_state, m_txn_distribute_window_open, and
    \* what BeginNextConsensusRound has started and not yet done
    epoch, state, window, begin,
    \* per node: m_createdTxns, t_createdTxns, m_txnPacketBuffer, the packets
    \* that have arrived, and the nonces of AccountStoreTemp
    created, temp, buffer, arrived, nonceTemp,
    \* per node: the result of the last selection (m_TxnOrder or
    \* m_expectedTranOrdering, m_gasUsedTotal, and why the loop ended)
    order, gasUsed, stop,
    \* per node: whether it has accepted the microblock of its epoch, the
    \* handler of an announcement that lacks transactions, the epochs whose
    \* announcement a detached thread is to process again, and whether
    \* m_lastMicroBlockCoSig is of its epoch
    accepted, handler, rerun, cosig,
    \* the announced microblocks, the requests for missing transactions, those
    \* the leaders have in m_commitFailureMap, the replies on their way, the
    \* cosigned microblocks, and the final blocks
    micro, request, answered, reply, signed, chain,
    \* counters of cut off selections and replies, and history per node: the transactions
    \* its pool accepted, the ones it held at the last selection, the ones a
    \* final block lost, whether the full reply of its epoch was inserted, and
    \* whether AccountStoreTemp holds the effects of a selection for an earlier
    \* epoch
    timeouts, replies, known, copied, lost, fetched, stale

nodeVars == <<epoch, state, window, begin, created, temp, buffer, arrived,
              nonceTemp, order, gasUsed, stop, accepted, handler, rerun,
              cosig, known, copied, lost, fetched, stale>>
vars == <<nodeVars, micro, request, answered, reply, signed, chain, timeouts,
          replies>>

TypeOK ==
    /\ epoch \in [Nodes -> Epochs]
    /\ state \in [Nodes -> {"WAITING_FINALBLOCK", "MICROBLOCK_CONSENSUS_PREP",
                            "MICROBLOCK_CONSENSUS"}]
    /\ window \in [Nodes -> BOOLEAN] /\ begin \in [Nodes -> SUBSET {"run", "prep", "commit"}]
    /\ \A n \in Nodes : /\ created[n].hash \subseteq Txns
                        /\ temp[n].hash \subseteq Txns
                        /\ buffer[n] \in Seq(Packets)
                        /\ order[n] \in Seq(Txns)
    /\ arrived \in [Nodes -> SUBSET Packets]
    /\ nonceTemp \in [Nodes -> [Senders -> Nat]]
    /\ gasUsed \in [Nodes -> Nat]
    /\ stop \in [Nodes -> {"none", "timeout", "gas", "exhausted"}]
    /\ accepted \in [Nodes -> BOOLEAN] /\ cosig \in [Nodes -> BOOLEAN]
    /\ handler \in [Nodes -> [epoch : 0 .. MaxEpoch,
                              phase : {"none", "missing", "waiting"}]]
    /\ rerun \in [Nodes -> SUBSET Epochs]
    /\ DOMAIN micro \subseteq Epochs
    /\ request \subseteq [from : Nodes, epoch : Epochs, txns : SUBSET Txns]
    /\ answered \subseteq Nodes \X Epochs
    /\ reply \subseteq [to : Nodes, epoch : Epochs, txns : SUBSET Txns]
    /\ signed \subseteq Epochs
    /\ chain \in Seq([included : BOOLEAN, txns : Seq(Txns)])
    /\ Len(chain) < MaxEpoch
    /\ timeouts \in 0 .. MaxTimeouts /\ replies \in 0 .. MaxReplies
    /\ known \in [Nodes -> SUBSET Txns] /\ copied \in [Nodes -> SUBSET Txns]
    /\ lost \in [Nodes -> SUBSET Txns] /\ stale \in [Nodes -> BOOLEAN]
    /\ fetched \in [Nodes -> BOOLEAN]

------------------------------------------------------------------------------
(* Accounts: the nonces after the final blocks before epoch e *)

NonceAfter(e) ==
    LET done == UNION {ToSet(chain[i].txns) : i \in 1 .. e - 1}
    IN  [s \in Senders |-> Cardinality({t \in done : Sender[t] = s})]

\* Mutation of Vacuous: the comparison is off by one.
VacuousLate(e) == e > MaxEpoch

Vacuous(e) == e >= MaxEpoch

NoHandler == [epoch |-> 0, phase |-> "none"]

InsertAll(pool, txns) == FoldLeft(Insert, pool, txns)

Init ==
    /\ epoch = [n \in Nodes |-> 1]
    /\ state = [n \in Nodes |-> "MICROBLOCK_CONSENSUS_PREP"]
    /\ window = [n \in Nodes |-> TRUE]
    /\ begin = [n \in Nodes |-> {"prep"}]
    /\ created = [n \in Nodes |-> EmptyPool]
    /\ temp = [n \in Nodes |-> EmptyPool]
    /\ buffer = [n \in Nodes |-> <<>>]
    /\ arrived = [n \in Nodes |-> {}]
    /\ nonceTemp = [n \in Nodes |-> [s \in Senders |-> 0]]
    /\ order = [n \in Nodes |-> <<>>]
    /\ gasUsed = [n \in Nodes |-> 0]
    /\ stop = [n \in Nodes |-> "none"]
    /\ accepted = [n \in Nodes |-> FALSE]
    /\ handler = [n \in Nodes |-> NoHandler]
    /\ rerun = [n \in Nodes |-> {}]
    /\ cosig = [n \in Nodes |-> FALSE]
    /\ micro = <<>> /\ request = {} /\ answered = {} /\ reply = {}
    /\ signed = {} /\ chain = <<>> /\ timeouts = 0 /\ replies = 0
    /\ known = [n \in Nodes |-> {}] /\ copied = [n \in Nodes |-> {}]
    /\ lost = [n \in Nodes |-> {}] /\ stale = [n \in Nodes |-> FALSE]
    /\ fetched = [n \in Nodes |-> FALSE]

------------------------------------------------------------------------------
(* One selection: ProcessTransactionWhenShardLeader and ...WhenShardBackup.  *)
(* Its state: the copied pool, t_addrNonceTxnMap, the transactions executed, *)
(* the gas they used, the nonces of AccountStoreTemp and the transactions    *)
(* set aside for lack of gas.                                                *)

Next1(st, t) == st.nonce[Sender[t]] + 1

Execute(st, t) ==
    IF Valid[t] THEN [st EXCEPT !.order = Append(@, t), !.gas = @ + Used[t],
                            !.nonce[Sender[t]] = @ + 1]
            ELSE st

\* The waiting transactions that findOneFromAddrNonceTxnMap may return: the
\* first of a sender, if it has the sender's next nonce
Ready(st) ==
    {t \in st.waiting : /\ Nonce[t] = Next1(st, t)
                        /\ \A u \in st.waiting :
                              Sender[u] = Sender[t] => Nonce[t] <= Nonce[u]}

FromWaiting(st, t) ==
    LET best == IF HasHigherGas(st.pool, t) THEN st.pool.nonce[Key(t)] ELSE t
        rest == [st EXCEPT !.waiting = @ \ {t},
                           !.pool = IF best = t THEN @ ELSE EraseTxn(@, best)]
    IN  IF st.gas + Limit[best] > GasLimit
        THEN [rest EXCEPT !.exceeded = Append(@, best)]
        ELSE Execute(rest, best)

FromPool(st, t) ==
    LET rest == [st EXCEPT !.pool = EraseTxn(@, t)]
        same == {u \in st.waiting : Key(u) = Key(t)}
    IN  IF Nonce[t] > Next1(st, t)
        THEN IF \E u \in same : Price[u] >= Price[t]
             THEN rest
             ELSE [rest EXCEPT !.waiting = (@ \ same) \cup {t}]
        ELSE IF Nonce[t] < Next1(st, t) THEN rest
        ELSE Execute(rest, t)

\* Mutation of GasLeft: a full microblock takes one transaction more.
GasLeftAtLimit(st) == st.gas <= GasLimit

GasLeft(st) == st.gas < GasLimit

Iteration(st) ==
    IF ~GasLeft(st) THEN [st EXCEPT !.stop = "gas"]
    ELSE IF Ready(st) # {}
    THEN FromWaiting(st, CHOOSE t \in Ready(st) :
                            \A u \in Ready(st) : Sender[t] <= Sender[u])
    ELSE IF CanFindOne(st.pool) THEN FromPool(st, FindOne(st.pool))
    ELSE [st EXCEPT !.stop = "exhausted"]

\* Every transaction is taken from the pool once and from t_addrNonceTxnMap
\* once; the last iteration ends the loop.
MaxIterations == 2 * Cardinality(Txns) + 1

\* How many iterations the timer may allow
TimerStops(n) ==
    {MaxIterations} \cup IF timeouts < MaxTimeouts THEN Cuts[n] ELSE {}

\* The loop, cut off by the timer before iteration k + 1
Selection(pool, nonces, k) ==
    LET start == [pool |-> pool, waiting |-> {}, order |-> <<>>, gas |-> 0,
                  nonce |-> nonces, exceeded |-> <<>>, stop |-> "none"]
        loop[i \in 0 .. k] ==
            IF i = 0 THEN start
            ELSE LET st == loop[i - 1]
                 IN  IF st.stop = "none" THEN Iteration(st) ELSE st
        end == loop[k]
    IN  IF end.stop = "none" THEN [end EXCEPT !.stop = "timeout"] ELSE end

\* Mutation of ReinstateMemPool: the transactions that exceeded the gas limit
\* are forgotten.
ReinstateMemPoolWaiting(st) == InsertAll(st.pool, SetToSeq(st.waiting))

\* The transactions with a high nonce and those that exceeded the gas limit
\* return to the pool.
ReinstateMemPool(st) ==
    InsertAll(InsertAll(st.pool, SetToSeq(st.waiting)), st.exceeded)

\* The selection of node n: k is the number of iterations its timer allows.
ProcessTransaction(n, k) ==
    LET st == Selection(created[n], nonceTemp[n], k)
    IN  /\ temp' = [temp EXCEPT ![n] = ReinstateMemPool(st)]
        /\ nonceTemp' = [nonceTemp EXCEPT ![n] = st.nonce]
        /\ order' = [order EXCEPT ![n] = st.order]
        /\ gasUsed' = [gasUsed EXCEPT ![n] = st.gas]
        /\ stop' = [stop EXCEPT ![n] = st.stop]
        /\ copied' = [copied EXCEPT ![n] = created[n].hash]
        /\ timeouts' = timeouts + (IF st.stop = "timeout" THEN 1 ELSE 0)

consensus == <<accepted, handler, rerun, cosig, micro, request, answered, reply,
               replies, signed, chain, fetched>>
selection == <<temp, nonceTemp, order, gasUsed, stop, copied, timeouts>>

------------------------------------------------------------------------------
(* Packets of transactions *)

\* ProcessTxnPacketFromLookupCore for a sequence of packets
PoolAfter(n, packets) ==
    FoldLeft(LAMBDA pool, p :
                IF p.epoch + LateAllow < epoch[n] \/ Vacuous(epoch[n])
                THEN pool ELSE InsertAll(pool, p.txns),
             created[n], packets)

InsertPackets(n, packets) ==
    /\ created' = [created EXCEPT ![n] = PoolAfter(n, packets)]
    /\ known' = [known EXCEPT ![n] = @ \cup created'[n].hash]

ProperState(n) ==
    window[n] /\ state[n] \in {"MICROBLOCK_CONSENSUS_PREP",
                               "MICROBLOCK_CONSENSUS"}

\* A packet from a lookup, or from a gossip neighbour
ProcessTxnPacketFromLookup(n, p) ==
    LET isLookup == n \in p.to
    IN  /\ p \notin arrived[n] /\ Len(chain) + 1 \in p.epoch .. p.until
        /\ arrived' = [arrived EXCEPT ![n] = @ \cup {p}]
        /\ ~Vacuous(epoch[n])
        /\ \/ /\ isLookup \/ ~ProperState(n)
              /\ buffer' = IF p.epoch + (IF isLookup THEN 0 ELSE 1) < epoch[n]
                           THEN buffer
                           ELSE [buffer EXCEPT ![n] = Append(@, p)]
              /\ UNCHANGED <<created, known>>
           \/ /\ ~isLookup /\ ProperState(n)
              /\ InsertPackets(n, <<p>>)
              /\ UNCHANGED buffer
        /\ UNCHANGED <<epoch, state, window, begin, selection, consensus, lost,
                       stale>>

\* The second part of BeginNextConsensusRound, beside the thread it started
CommitTxnPacketBuffer(n) ==
    /\ "commit" \in begin[n]
    /\ begin' = [begin EXCEPT ![n] = @ \ {"commit"}]
    /\ InsertPackets(n, buffer[n])
    /\ buffer' = [buffer EXCEPT ![n] = <<>>]
    /\ UNCHANGED <<epoch, state, window, arrived, selection, consensus, lost,
                   stale>>

------------------------------------------------------------------------------
(* The leader's microblock and the backup's checks *)

\* A microblock, as far as its transactions go.  The state delta and the
\* receipts stand for the set of executed transactions.
Block(n) == [order |-> order[n], gas |-> gasUsed[n], delta |-> ToSet(order[n])]

\* AccountStore::InitTemp: AccountStoreTemp starts again from the accounts.
InitTemp(n, e) ==
    /\ nonceTemp' = [nonceTemp EXCEPT ![n] = NonceAfter(e)]
    /\ stop' = [stop EXCEPT ![n] = "none"]
    /\ stale' = [stale EXCEPT ![n] = FALSE]

\* Mutation of RevertTemp: what the first selection executed stays executed.
RevertTempNot(n) == UNCHANGED <<nonceTemp, stop, stale>>

\* Before missing transactions are fetched
RevertTemp(n) == InitTemp(n, epoch[n])

CleanCreatedTransaction(n) ==
    /\ created' = [created EXCEPT ![n] = EmptyPool]
    /\ temp' = [temp EXCEPT ![n] = EmptyPool]
    /\ buffer' = [buffer EXCEPT ![n] = <<>>]
    /\ order' = [order EXCEPT ![n] = <<>>]
    /\ gasUsed' = [gasUsed EXCEPT ![n] = 0]
    /\ known' = [known EXCEPT ![n] = {}]

\* RunConsensusOnMicroBlock until the node waits for packets
RunConsensusOnMicroBlock(n) ==
    /\ "run" \in begin[n]
    /\ begin' = [begin EXCEPT ![n] = (@ \ {"run"}) \cup
                                     IF Vacuous(epoch[n]) THEN {} ELSE {"prep"}]
    /\ state' = [state EXCEPT ![n] = "MICROBLOCK_CONSENSUS_PREP"]
    /\ window' = [window EXCEPT ![n] = TRUE]
    /\ IF Vacuous(epoch[n])
       THEN CleanCreatedTransaction(n)
       ELSE UNCHANGED <<created, temp, buffer, order, gasUsed, known>>
    /\ UNCHANGED <<epoch, arrived, nonceTemp, stop, copied, timeouts,
                   consensus, lost, stale>>

\* The rest of RunConsensusOnMicroBlock: selection and, by the leader, the
\* announcement
FinishPrep(n, k) ==
    /\ "prep" \in begin[n]
    /\ begin' = [begin EXCEPT ![n] = @ \ {"prep"}]
    /\ ProcessTransaction(n, k)
    /\ state' = [state EXCEPT ![n] = "MICROBLOCK_CONSENSUS"]
    /\ UNCHANGED <<epoch, created, buffer, arrived, accepted, handler, rerun,
                   cosig, request, answered, reply, replies, signed, chain, known,
                   lost, fetched, stale>>

RunConsensusOnMicroBlockWhenShardLeader(n, k) ==
    /\ n = Leader[epoch[n]]
    /\ FinishPrep(n, k)
    /\ window' = [window EXCEPT ![n] = FALSE]
    /\ micro' = Put(micro, epoch[n], Block(n)')

RunConsensusOnMicroBlockWhenShardBackup(n, k) ==
    /\ n # Leader[epoch[n]]
    /\ FinishPrep(n, k)
    /\ UNCHANGED <<window, micro>>

\* The indexes of the received order that the expected order matches, in turn
MatchedIndexes(expected, received) ==
    LET index(t) == IndexFirstSubSeq(<<t>>, received) - 1
        match(done, t) ==
            IF /\ t \in ToSet(received)
               /\ done = <<>> \/ index(t) > Last(done)
               /\ index(t) < ((Tolerance * Len(received)) \div 100) + Len(done)
            THEN Append(done, index(t)) ELSE done
    IN  FoldLeft(match, <<>>, expected)

VerifyTxnOrderWTolerance(expected, received) ==
    IF expected = <<>> THEN received = <<>>
    ELSE 100 * Len(MatchedIndexes(expected, received))
            >= (100 - Tolerance) * Len(expected)

Missing(n, block) == ToSet(block.order) \ created[n].hash

\* Mutation of CheckMicroBlockValidity: only the order is compared.
CheckMicroBlockValidityOrder(n, block) ==
    VerifyTxnOrderWTolerance(order[n], block.order)

\* Order, gas used, state delta hash and receipt hash
CheckMicroBlockValidity(n, block) ==
    /\ VerifyTxnOrderWTolerance(order[n], block.order)
    /\ gasUsed[n] = block.gas
    /\ ToSet(order[n]) = block.delta

\* A backup processes the leader's announcement, unless a handler or a thread
\* that will process it again is still busy.  The commit failure of a backup
\* that lacks transactions asks the leader for them.
MicroBlockValidator(n) ==
    LET e == epoch[n]
        lacks == Missing(n, micro[e])
    IN  /\ state[n] = "MICROBLOCK_CONSENSUS" /\ n # Leader[e]
        /\ e \in DOMAIN micro /\ ~accepted[n]
        /\ handler[n].phase = "none" /\ e \notin rerun[n]
        /\ window' = [window EXCEPT ![n] = FALSE]
        /\ \/ /\ lacks # {}
              /\ RevertTemp(n)
              /\ handler' = [handler EXCEPT
                                ![n] = [epoch |-> e, phase |-> "missing"]]
              /\ request' = request \cup
                               {[from |-> n, epoch |-> e, txns |-> lacks]}
              /\ UNCHANGED <<accepted, state>>
           \/ /\ lacks = {} /\ CheckMicroBlockValidity(n, micro[e])
              /\ accepted' = [accepted EXCEPT ![n] = TRUE]
              /\ UNCHANGED <<nonceTemp, stop, stale, handler, request, state>>
           \/ /\ lacks = {} /\ ~CheckMicroBlockValidity(n, micro[e])
              /\ state' = [state EXCEPT ![n] = "WAITING_FINALBLOCK"]
              /\ UNCHANGED <<nonceTemp, stop, stale, handler, request, accepted>>
        /\ UNCHANGED <<epoch, begin, created, temp, buffer, arrived, order,
                       gasUsed, copied, timeouts, rerun, cosig, micro, answered,
                       reply, replies, signed, chain, known, lost, fetched>>

------------------------------------------------------------------------------
(* Fetching missing transactions *)

fetching == <<epoch, window, begin, buffer, arrived, accepted, cosig, micro,
              signed, chain, lost>>

\* The leader answers the first commit failure of a backup in a consensus.
OnNodeMissingTxns(n, r) ==
    /\ state[n] = "MICROBLOCK_CONSENSUS" /\ n = Leader[epoch[n]]
    /\ r.epoch = epoch[n] /\ <<r.from, r.epoch>> \notin answered
    /\ answered' = answered \cup {<<r.from, r.epoch>>}
    /\ replies < MaxReplies /\ replies' = replies + 1
    /\ reply' = reply \cup {[to |-> r.from, epoch |-> r.epoch,
                             txns |-> r.txns \cap ToSet(order[n])]}
    /\ UNCHANGED <<fetching, selection, state, stale, handler, rerun, created,
                   known, request, fetched>>

\* The handler of the announcement blocks on cv_MicroBlockMissingTxn.
WaitMissingTxn(n) ==
    /\ handler[n].phase = "missing"
    /\ handler' = [handler EXCEPT ![n].phase = "waiting"]
    /\ UNCHANGED <<fetching, selection, state, stale, rerun, created, known,
                   request, answered, reply, replies, fetched>>

\* Mutation of SubmittedTxns: the transactions of the reply are not inserted.
SubmittedTxnsNone(r) == <<>>

SubmittedTxns(r) == SetToSeq(r.txns)

\* The reply.  It wakes the handler, if that is waiting already: a detached
\* thread will then process the announcement again.
ProcessSubmitMissingTxn(n, r) ==
    /\ r.to = n
    /\ reply' = reply \ {r}
    /\ IF state[n] # "MICROBLOCK_CONSENSUS"
       THEN UNCHANGED <<created, known, fetched, handler, rerun>>
       ELSE /\ created' = [created EXCEPT ![n] = InsertAll(@, SubmittedTxns(r))]
            /\ known' = [known EXCEPT ![n] = @ \cup created'[n].hash]
            /\ fetched' = [fetched EXCEPT ![n] = @ \/
                  (r.epoch = epoch[n] /\ \A q \in request :
                      q.from = n /\ q.epoch = r.epoch => q.txns \subseteq r.txns)]
            /\ IF handler[n].phase = "waiting"
               THEN /\ handler' = [handler EXCEPT ![n] = NoHandler]
                    /\ rerun' = [rerun EXCEPT ![n] = @ \cup {handler[n].epoch}]
               ELSE UNCHANGED <<handler, rerun>>
    /\ UNCHANGED <<fetching, selection, state, stale, request, answered,
                   replies>>

\* The wait ends by its timeout: also when the reply came before the wait, or
\* when the epoch has changed meanwhile.
MissingTxnTimeout(n) ==
    /\ handler[n].phase = "waiting"
    /\ handler' = [handler EXCEPT ![n] = NoHandler]
    /\ state' = [state EXCEPT ![n] = "WAITING_FINALBLOCK"]
    /\ UNCHANGED <<fetching, selection, stale, rerun, created, known, request,
                   answered, reply, replies, fetched>>

\* The detached thread selects again; the announcement is then processed
\* again, unless the epoch has ended.
ReprocessConsensus(n, e, k) ==
    /\ ProcessTransaction(n, k)
    /\ stale' = [stale EXCEPT ![n] = @ \/ e # epoch[n]]
    /\ rerun' = [rerun EXCEPT ![n] = @ \ {e}]
    /\ UNCHANGED <<fetching, state, handler, created, known, request, answered,
                   reply, replies, fetched>>

------------------------------------------------------------------------------
(* The end of the consensus and the final block *)

\* A sequence of transactions that can be executed from the nonces of epoch e
Executable(txns, e) ==
    LET base == NonceAfter(e)
    IN  \A i \in DOMAIN txns :
            Nonce[txns[i]] = base[Sender[txns[i]]] + 1 +
               Cardinality({j \in 1 .. i - 1 : Sender[txns[j]] = Sender[txns[i]]})

pools == <<window, created, buffer, arrived, selection, known, lost, stale>>

\* The collective signature, at the leader: with the modelled backup, or with
\* enough of the other members
MicroBlockDone(n) ==
    LET e == epoch[n]
    IN  /\ state[n] = "MICROBLOCK_CONSENSUS" /\ n = Leader[e]
        /\ \/ \E b \in Nodes : epoch[b] = e /\ accepted[b]
           \/ Executable(micro[e].order, e)
        /\ signed' = signed \cup {e}
        /\ cosig' = [cosig EXCEPT ![n] = TRUE]
        /\ state' = [state EXCEPT ![n] = "WAITING_FINALBLOCK"]
        /\ UNCHANGED <<pools, epoch, begin, accepted, handler, rerun, micro,
                       request, answered, reply, replies, chain, fetched>>

\* ... and at a backup that has accepted
BackupDone(n) ==
    /\ state[n] = "MICROBLOCK_CONSENSUS"
    /\ accepted[n] /\ epoch[n] \in signed
    /\ cosig' = [cosig EXCEPT ![n] = TRUE]
    /\ state' = [state EXCEPT ![n] = "WAITING_FINALBLOCK"]
    /\ UNCHANGED <<pools, epoch, begin, accepted, handler, rerun, micro,
                   request, answered, reply, replies, signed, chain, fetched>>

\* The DS committee makes the final block, with the shard's microblock or,
\* after its timeout, without it.  Bound: no node is more than one final block
\* behind.
MakeFinalBlock ==
    LET e == Len(chain) + 1
    IN  /\ ~Vacuous(e) /\ \A n \in Nodes : epoch[n] = e
        /\ \/ /\ e \in signed
              /\ chain' = Append(chain, [included |-> TRUE,
                                         txns |-> micro[e].order])
           \/ chain' = Append(chain, [included |-> FALSE, txns |-> <<>>])
        /\ UNCHANGED <<nodeVars, micro, request, answered, reply, replies,
                       signed, timeouts>>

\* m_createdTxns becomes what the selection left, without the transactions
\* that came in after it.
UpdateProcessedTransactions(n) ==
    /\ created' = [created EXCEPT ![n] = temp[n]]
    /\ lost' = [lost EXCEPT ![n] = @ \cup
                   {t \in created[n].hash \ temp[n].hash :
                        t \notin copied[n] \/ stale[n]}]

\* LoadUnavailableMicroBlockHashes
MustUpdate(n, e) == chain[e].included /\ cosig[n]

\* The final block of the node's epoch.  The node takes it in every state, but
\* its thread is not still waiting for packets of this epoch.  The results of
\* the last selection are not read again before the next one, and the messages
\* of an epoch that no node is in are refused by everyone.  In the vacuous epoch
\* the packet buffer commits nothing and is cleared with the pools.
ProcessFinalBlock(n) ==
    LET e == epoch[n]
    IN  /\ e <= Len(chain) /\ begin[n] \cap {"run", "prep"} = {}
        /\ IF MustUpdate(n, e)
           THEN UpdateProcessedTransactions(n)
           ELSE UNCHANGED <<created, lost>>
        /\ temp' = [temp EXCEPT ![n] = EmptyPool]
        /\ order' = [order EXCEPT ![n] = <<>>]
        /\ gasUsed' = [gasUsed EXCEPT ![n] = 0]
        /\ copied' = [copied EXCEPT ![n] = {}]
        /\ InitTemp(n, e + 1)
        /\ epoch' = [epoch EXCEPT ![n] = e + 1]
        /\ state' = [state EXCEPT ![n] = "WAITING_FINALBLOCK"]
        /\ begin' = [begin EXCEPT ![n] = IF Vacuous(e + 1) THEN {"run"}
                                         ELSE {"run", "commit"}]
        /\ accepted' = [accepted EXCEPT ![n] = FALSE]
        /\ cosig' = [cosig EXCEPT ![n] = FALSE]
        /\ fetched' = [fetched EXCEPT ![n] = FALSE]
        /\ LET live(x) == \E m \in Nodes : epoch'[m] = x
           IN  /\ micro' = [x \in {y \in DOMAIN micro : live(y)} |-> micro[x]]
               /\ request' = {q \in request : live(q.epoch)}
               /\ answered' = {a \in answered : live(a[2])}
               /\ signed' = {x \in signed : live(x)}
        /\ UNCHANGED <<window, buffer, arrived, timeouts, handler, rerun, reply,
                       replies, chain, known>>

Next ==
    \/ \E n \in Nodes :
         \/ \E p \in Packets : ProcessTxnPacketFromLookup(n, p)
         \/ CommitTxnPacketBuffer(n)
         \/ RunConsensusOnMicroBlock(n)
         \/ \E k \in TimerStops(n) :
              \/ RunConsensusOnMicroBlockWhenShardLeader(n, k)
              \/ RunConsensusOnMicroBlockWhenShardBackup(n, k)
              \/ \E e \in rerun[n] : ReprocessConsensus(n, e, k)
         \/ MicroBlockValidator(n)
         \/ \E r \in request : OnNodeMissingTxns(n, r)
         \/ WaitMissingTxn(n)
         \/ \E r \in reply : ProcessSubmitMissingTxn(n, r)
         \/ MissingTxnTimeout(n)
         \/ MicroBlockDone(n)
         \/ BackupDone(n)
         \/ ProcessFinalBlock(n)
    \/ MakeFinalBlock

Spec == Init /\ [][Next]_vars

------------------------------------------------------------------------------
(* Properties *)

\* The three indexes of both pools agree at every moment: a transaction that
\* TxnPool::exist reports can be selected, and one that is gone is gone from
\* all of them.
PoolsConsistent ==
    \A n \in Nodes : Consistent(created[n]) /\ Consistent(temp[n])

\* What a node selects can be executed: every sender's transactions carry on
\* from the nonce of the last final block, also in a selection repeated after
\* missing transactions were fetched.  A selection on top of one that ran too
\* late, for the announcement of an earlier epoch, is exempt: that thread
\* leaves its effects in AccountStoreTemp.
SelectionExecutable ==
    \A n \in Nodes :
        stop[n] # "none" /\ ~stale[n] => Executable(order[n], epoch[n])

\* The gas of a microblock passes MICROBLOCK_GAS_LIMIT by its last transaction
\* at most.  (The limit itself is not kept: only transactions that waited for
\* their nonce are compared with it.)
GasOvershootBounded ==
    \A n \in Nodes :
        order[n] # <<>> => gasUsed[n] - Used[Last(order[n])] < GasLimit

\* When a selection ends because findOne finds nothing, no transaction that
\* could be executed within the gas limit is left in the pool, except behind
\* an empty entry of the index by gas price.
NothingExecutableLeft ==
    \A n \in Nodes : stop[n] = "exhausted" =>
        \A t \in temp[n].hash :
            \/ Nonce[t] # nonceTemp[n][Sender[t]] + 1
            \/ gasUsed[n] + Limit[t] > GasLimit
            \/ \E g \in DOMAIN temp[n].gas : g > Price[t] /\ temp[n].gas[g] = {}

\* As long as the final blocks can be executed, a transaction the pool has taken
\* stays there until its nonce is used up, a better one of the same sender and
\* nonce comes, or it fails.  Exempt are the transactions that come in between a
\* selection and the final block that makes its result the pool.
TxnsKept ==
    (\A e \in DOMAIN chain : Executable(chain[e].txns, e)) =>
        \A n \in Nodes : \A t \in known[n] \ (created[n].hash \cup lost[n]) :
            \/ ~Valid[t]
            \/ Nonce[t] <= NonceAfter(epoch[n])[Sender[t]]
            \/ \E u \in known[n] : Key(u) = Key(t) /\ Supersedes(u, t)

\* A backup whose AccountStoreTemp is clean accepts only a microblock that can be
\* executed from the last final block, even when the leader's holds the effects
\* of a late thread.
AcceptedExecutable ==
    \A n \in Nodes : accepted[n] /\ ~stale[n] =>
        Executable(micro[epoch[n]].order, epoch[n])

\* Once the leader's reply is in, the backup lacks a transaction of the
\* announcement only if its pool has a better one of that sender and nonce.
FetchedOrSuperseded ==
    \A n \in Nodes : fetched[n] =>
        \A t \in Missing(n, micro[epoch[n]]) :
            /\ Key(t) \in DOMAIN created[n].nonce
            /\ Supersedes(created[n].nonce[Key(t)], t)
==============================================================================
