-------------------------- MODULE PersistenceProofs --------------------------
(***************************************************************************)
(* Proofs about Persistence: the invariant that the handlers of final      *)
(* blocks and DS blocks, the crashes between their writes, and the steps   *)
(* of a recovery preserve, and the properties that follow from it, for     *)
(* every length N of a DS epoch, every network and any number of crashes   *)
(* and failed writes.                                                      *)
(*                                                                         *)
(* The invariant has six parts: the types, the chain of tx blocks          *)
(* (ChainInv), the steps of the DS block's handler (DSInv), the block      *)
(* links and their rewriting (LinkInv), the flag DSINCOMPLETED (FlagInv)   *)
(* and the newest DS block that the disk knows (DirInv).  On top of it a   *)
(* second invariant (DiskInv) follows the accounts and the state deltas,   *)
(* on disk and through the steps of a recovery.                            *)
(***************************************************************************)
EXTENDS Persistence, OrderLemmas, FiniteSetTheorems, TLAPS

(* The number of tx blocks on disk *)
Height == Cardinality(disk.tx)

(* The block links: a recovery clears them on disk after it has read them *)
Links == disk.link \cup rec.links

(* The steps of a recovery whose chain in memory is the one on disk *)
ChainSteps == {"fetch", "commit", "lagging", "delta", "validate"}

(* The blocks on disk have no gap *)
Contiguous == disk.tx = 0 .. Height - 1

(* A running node has stored the blocks before its epoch, and a handler that *)
(* is between its two writes is at the block of this epoch                   *)
RunInv ==
    mode = "running" =>
        /\ epoch = Height /\ epoch >= 1
        /\ last \in {epoch - 1, epoch}
        /\ fb # None => /\ fb = epoch /\ fb < dsLast * N
                        /\ nstate = "WAITING_FINALBLOCK"
                        /\ dsStep \in {"idle", "committee"}

(* No handler is active unless the node runs, no recovery unless it recovers *)
RestInv ==
    /\ mode # "running" =>
         fb = None /\ dsStep = "idle" /\ \A n \in Blocks : writer[n] = "none"
    /\ mode = "recovering" <=> rec.step # "idle"
    /\ mode # "recovering" => rec = NoRec

(* What a recovery deletes is the end of the chain, from the first block of *)
(* a DS epoch on; what it applies is on disk                                *)
ExtraInv ==
    /\ rec.step = "trim" => \E q \in 0 .. MaxBlock + 1 :
                                /\ q * N <= Height /\ Height < q * N + N
                                /\ rec.extra = q * N .. Height - 1
    /\ rec.step = "extra" => rec.extra \subseteq disk.tx

(* Once the blocks are read the chain in memory is the one on disk, and what *)
(* is about to be committed continues it                                     *)
FetchInv ==
    /\ rec.step \in ChainSteps => last = Height - 1
    /\ rec.step = "commit" => rec.high > last /\ rec.high < dsLast * N

ChainInv == Contiguous /\ RunInv /\ RestInv /\ ExtraInv /\ FetchInv

(* Before its block is the last one, the DS block's handler is at the first  *)
(* epoch of the block and has the old committee; a thread of                 *)
(* writeStateToDisk belongs to a vacuous block on disk                       *)
DSInv ==
    /\ dsStep \in {"shards", "dsblock"} =>
         /\ nstate = "WAITING_DSBLOCK" /\ committee = dsLast
         /\ epoch = dsLast * N /\ dsLast < netDS
    /\ dsStep \in {"flag", "link", "reset"} =>
         /\ nstate = "WAITING_DSBLOCK" /\ committee = dsLast - 1
         /\ epoch = (dsLast - 1) * N
    /\ dsStep = "committee" => committee = dsLast
    /\ \A n \in Blocks : writer[n] # "none" => Vacuous(n) /\ n < Height

(* No block link is ahead of the chain of DS blocks, and a recovery adds the *)
(* links again from the first one upwards, all of them before it goes on     *)
LinkInv ==
    /\ (mode = "running" \/ rec.step \notin {"idle", "links"}) =>
         \A d \in disk.link : d <= dsLast
    /\ rec.step = "links" => rec.links = {}
    /\ rec.step = "relink" => /\ disk.link \subseteq rec.links
                              /\ \A d \in disk.link, e \in rec.links \ disk.link : d <= e
                              /\ disk.link # {} => dsLast \in disk.link
    /\ rec.step \notin {"idle", "links", "relink"} => rec.links = disk.link

(* Once DSINCOMPLETED is cleared in time, the DS epochs of all block links   *)
(* have ended                                                                *)
FlagInv ==
    (disk.flag = 0 /\ "flag" \notin late) =>
        dsStep # "link" /\ \A d \in Links : d * N <= Height

(* d is the last DS block that the disk knows, and no tx block on disk       *)
(* belongs to a later one                                                    *)
Newest(d) ==
    /\ d \in Links /\ \A e \in Links : e <= d
    /\ Height <= d * N
    /\ mode = "running" => d = IF dsStep \in {"flag", "link"} THEN dsLast - 1 ELSE dsLast
    /\ rec.step \notin {"idle", "links", "relink"} => d = dsLast
    /\ "committee" \notin torn =>
         disk.committee = IF dsStep \in {"reset", "committee"} THEN d - 1 ELSE d

(* As long as no fault tore the block links the disk has a newest DS block,  *)
(* and the committee in memory and on disk is the one of that block          *)
DirInv ==
    /\ mode = "recovering" => committee = disk.committee
    /\ ("links" \notin torn /\ mode # "rejoin") => \E d \in DSBlocks : Newest(d)
    /\ (mode = "running" /\ dsStep = "idle" /\ torn = {}) => committee = dsLast
    /\ (mode = "running" /\ "links" \notin torn) => last < dsLast * N

(* The first block of the DS epoch that has not ended when h blocks are on *)
(* disk, and the blocks of that epoch                                      *)
Base(h) == (h \div N) * N
Tail(h) == Base(h) .. h - 1

(* The root on disk is the one of the last vacuous block, and the accounts of *)
(* a recovery are the ones on disk after the deltas of the blocks ns          *)
RootCurrent == disk.root = Prefix(Base(Height) - 1)
Derived(ns) == state = ApplyAll(disk.root, ns)

(* A running node: the deltas of the unfinished DS epoch are on disk, but no   *)
(* delta of a vacuous block to come; every delta of the chain is in the        *)
(* accounts; and the accounts on disk are those of the last vacuous block,     *)
(* unless its writeStateToDisk has not run yet or an earlier one ran after it  *)
RunDisk ==
    /\ fb # None => fb \in disk.delta
    /\ Height >= N => Tail(Height) \subseteq disk.delta
    /\ \A v \in disk.delta : v > Height => ~ Vacuous(v)
    /\ Height < N => disk.root[0] = 0
    /\ \A n \in 0 .. Height - 1 : n \notin Quiet => state[n] >= 1
    /\ (Height >= N /\ "root" \notin late) =>
         RootCurrent \/ writer[Base(Height) - 1] = "move"

(* The disk of a node that is stopped or recovers: where the recovery keeps   *)
(* the deltas they are complete; the delta of a vacuous block beyond the next *)
(* one came together with the accounts; and a node without a finished DS      *)
(* epoch has no accounts on disk                                              *)
StopDisk ==
    /\ (Height >= N /\ Base(Height) % (INCRDB * N) = 0) => Tail(Height) \subseteq disk.delta
    /\ Height >= N => \A v \in disk.delta : v > Height /\ Vacuous(v) => disk.root[v] >= 1
    /\ Height < N => disk.root[0] = 0
    /\ rec.step \notin ChainSteps => prevRoot = Prefix(None)

(* A recovery that has read the accounts: a node without a finished DS epoch *)
(* gets no further than to ask for blocks                                    *)
ReadInv ==
    rec.step \notin {"idle", "links", "relink", "states"} =>
        /\ Height < N => /\ state[0] = 0
                         /\ rec.step \notin {"extra", "commit", "lagging", "delta"}
        /\ Height >= N => \A v \in disk.delta : v > Height /\ Vacuous(v) => state[v] >= 1

(* How the accounts of a recovery come from those on disk, until it accepts *)
(* fetched blocks or applies a delta that is not of its own chain           *)
SourceInv ==
    /\ rec.step \in {"txblocks", "trim"} => state = disk.root
    /\ (rec.step = "trim" /\ Height >= N) => disk.delta = {}
    /\ rec.step = "extra" => /\ rec.extra \subseteq Tail(Height)
                             /\ Tail(Height) \ rec.extra \subseteq disk.delta
                             /\ Derived(Tail(Height) \ rec.extra)

(* A recovery that has its chain in memory: when its accounts are those of   *)
(* the last block and the next one is not vacuous, the accounts on disk are  *)
(* those of the last vacuous block, even if they were written by this or an  *)
(* earlier recovery                                                          *)
MatchInv ==
    /\ (rec.step \in ChainSteps /\ Height >= N) => Tail(Height) \subseteq disk.delta
    /\ rec.step \in {"fetch", "commit"} => rec.old = Height
    /\ rec.step = "fetch" => prevRoot \in {Prefix(None), state}
    /\ (rec.step = "fetch" /\ Height >= N) =>
         \/ Derived(Tail(Height))
         \/ \E n \in Blocks : n >= Height /\ state[n] >= 1
         \/ Vacuous(Height)
    /\ rec.step = "commit" =>
         /\ state = Prefix(rec.high) /\ Tail(rec.high + 1) \subseteq disk.delta
         /\ (rec.high = Height /\ rec.high \in Quiet) => RootCurrent
    /\ rec.step = "delta" => state = Prefix(last) /\ (last \in Quiet => RootCurrent)
    /\ (rec.step = "validate" /\ Height >= N /\ ValidateStates /\ ~ Vacuous(Height)) =>
         RootCurrent

DiskInv ==
    /\ netDS >= DSOf(net) /\ 0 \notin disk.delta
    /\ mode = "running" => RunDisk
    /\ mode \in {"down", "recovering"} => StopDisk
    /\ ReadInv /\ SourceInv /\ MatchInv

(* The types of the accounts, of the recovery's variables, of the disk and *)
(* of the other variables                                                  *)
States == [Blocks -> 0 .. 2]
RecType == [step : RecSteps, links : SUBSET DSBlocks, states : BOOLEAN,
            extra : SUBSET Blocks, old : 0 .. MaxBlock + 1 \cup {None},
            high : Blocks \cup {None}]
DiskType == [tx : SUBSET Blocks, delta : SUBSET Blocks, root : States,
             ds : SUBSET DSBlocks, link : SUBSET DSBlocks, flag : {0, 1},
             shards : DSBlocks, committee : DSBlocks]
MemType ==
    /\ net \in Blocks /\ netDS \in DSBlocks
    /\ mode \in {"running", "down", "recovering", "rejoin"}
    /\ nstate \in {"WAITING_DSBLOCK", "WAITING_FINALBLOCK"}
    /\ last \in Blocks \cup {None} /\ dsLast \in DSBlocks /\ epoch \in 0 .. MaxBlock + 1
    /\ state \in States /\ prevRoot \in States
    /\ committee \in DSBlocks
    /\ fb \in Blocks \cup {None} /\ dsStep \in DSSteps
    /\ writer \in [Blocks -> {"none", "move", "flag"}]
    /\ crashes \in 0 .. MaxCrashes /\ failures \in 0 .. MaxFailures
    /\ late \subseteq {"root", "flag"} /\ torn \subseteq {"committee", "links"}

-----------------------------------------------------------------------------
(* Numbers, sets of numbers, and the constants *)

\* Division by the length of a DS epoch
LEMMA DivFacts ==
    ASSUME NEW n \in Nat
    PROVE  /\ n \div N \in Nat
           /\ n % N \in 0 .. N - 1
           /\ n = (n \div N) * N + (n % N)
  <1>1. n \div N \in Int /\ n % N \in 0 .. N - 1
    BY ConstantsAssumption
  <1>2. n = (n \div N) * N + (n % N)
    BY ConstantsAssumption
  <1>3. n \div N >= 0
    BY ConstantsAssumption
  <1> QED
    BY <1>1, <1>2, <1>3

\* The DS epoch of a tx block, from its number
LEMMA DSOfFacts ==
    ASSUME NEW n \in Nat, NEW d \in Nat
    PROVE  DSOf(n) <= d <=> n < d * N
  BY ConstantsAssumption, DivFacts DEF DSOf

\* Every tx block of the network belongs to a DS block
LEMMA DSOfType ==
    ASSUME NEW n \in Blocks
    PROVE  DSOf(n) \in DSBlocks
  <1>1. n \div N \in Nat /\ MaxBlock \div N \in Nat /\ DSOf(n) \in Nat
    BY ConstantsAssumption, DivFacts DEF Blocks, DSOf
  <1>2. MaxBlock < (MaxBlock \div N + 1) * N
    BY ConstantsAssumption, DSOfFacts, <1>1 DEF DSOf
  <1>3. DSOf(n) <= MaxBlock \div N + 1
    BY ConstantsAssumption, DSOfFacts, <1>1, <1>2 DEF Blocks
  <1> QED
    BY <1>1, <1>3 DEF DSBlocks

\* Prefixes, and accounts to which deltas are applied, are accounts
LEMMA StateTypes ==
    /\ \A n : Prefix(n) \in States
    /\ \A s \in States : \A n : Apply(s, n) \in States
    /\ \A s \in States : \A ns : ApplyAll(s, ns) \in States
  <1>1. \A n : Prefix(n) \in States
    BY DEF Prefix, States
  <1>2. ASSUME NEW s \in States, NEW n PROVE Apply(s, n) \in States
    <2>1. PICK v : v = IF s[n] = 2 THEN 2 ELSE s[n] + 1
      OBVIOUS
    <2>2. n \in Blocks => v \in 0 .. 2
      BY <2>1 DEF States
    <2>3. [s EXCEPT ![n] = v] \in States
      BY <2>2 DEF States
    <2> QED
      BY <2>1, <2>3 DEF Apply
  <1>3. ASSUME NEW s \in States, NEW ns PROVE ApplyAll(s, ns) \in States
    <2>1. \A b \in Blocks : Apply(s, b)[b] \in 0 .. 2
      BY <1>2 DEF States
    <2> QED
      BY <2>1 DEF ApplyAll, States
  <1> QED
    BY <1>1, <1>2, <1>3

\* A set of tx blocks is finite
LEMMA HeightType ==
    ASSUME NEW S \in SUBSET Blocks
    PROVE  IsFiniteSet(S) /\ Cardinality(S) \in 0 .. MaxBlock + 1
  <1>1. IsFiniteSet(Blocks) /\ Cardinality(Blocks) = MaxBlock + 1
    BY ConstantsAssumption, FS_Interval DEF Blocks
  <1>2. IsFiniteSet(S) /\ Cardinality(S) <= MaxBlock + 1
    BY <1>1, FS_Subset
  <1> QED
    BY <1>2, FS_CardinalityType, ConstantsAssumption

\* The number of blocks of a chain without a gap
LEMMA HeightFacts ==
    ASSUME NEW c \in Nat
    PROVE  Cardinality(0 .. c - 1) = c
  BY FS_Interval

\* Notified, the updates of a recovery and GoTo keep the recovery's type
LEMMA NotifiedType ==
    ASSUME rec \in RecType, NEW c
    PROVE  Notified(c) \in RecType
  BY DEF RecType, Notified, RecSteps

\* A recovery that has read its blocks, or has handled one of them
LEMMA RecUpdates ==
    ASSUME rec \in RecType
    PROVE  /\ \A c \in 0 .. MaxBlock + 1 :
                [rec EXCEPT !.step = "fetch", !.old = c] \in RecType
           /\ \A b : [rec EXCEPT !.extra = @ \ {b}] \in RecType
  BY DEF RecType, RecSteps

\* A recovery that goes to its next step
LEMMA GoToType ==
    ASSUME rec \in RecType, NEW s \in RecSteps
    PROVE  GoTo(s) \in RecType
  BY DEF RecType, GoTo

\* TypeOK, in parts
LEMMA TypeParts == TypeOK <=> MemType /\ rec \in RecType /\ disk \in DiskType
  BY DEF TypeOK, MemType, RecType, DiskType, States

\* TypeOK after a step, in parts
LEMMA TypeParts2 == TypeOK' <=> MemType' /\ rec' \in RecType /\ disk' \in DiskType
  BY DEF TypeOK, MemType, RecType, DiskType, States

\* A lookup sends the blocks after the last one of the node
LEMMA LowFacts ==
    ASSUME TypeOK
    PROVE  LowBlockNum \in Nat /\ LowBlockNum >= last + 1 /\ LowBlockNum >= 1
  <1>1. last + 1 \in Int /\ (netDS - 1) * N \in Int
    BY ConstantsAssumption DEF TypeOK, Blocks, DSBlocks, None
  <1>2. PICK a \in Int, b \in Int, c \in Int :
           a = last + 1 /\ b = 1 /\ c = (netDS - 1) * N
    BY <1>1
  <1>3. Max({a, b, c}) \in {a, b, c} /\ Max({a, b, c}) >= a /\ Max({a, b, c}) >= b
    BY MaxOfThree, Zenon
  <1>4. Max({a, b, c}) \in Nat
    BY <1>2, <1>3
  <1> QED
    BY <1>2, <1>3, <1>4 DEF LowBlockNum

-----------------------------------------------------------------------------
(* The types, and the chain of tx blocks *)

\* Every step keeps the types; a committed block and a DS block are in range by
\* ChainInv and DSInv
LEMMA TypeStep ==
    ASSUME TypeOK, ChainInv, DSInv, Next
    PROVE  TypeOK'
  <1>1. MemType /\ rec \in RecType /\ disk \in DiskType
    BY TypeParts
  <1>2. NoRec \in RecType /\ Empty \in DiskType
    BY ConstantsAssumption, StateTypes
       DEF NoRec, Empty, RecType, DiskType, RecSteps, DSBlocks, None
  <1>3. /\ Prefix(None) \in States /\ MaxCrashes \in Nat /\ MaxFailures \in Nat
        /\ MaxBlock \in Nat /\ (MaxBlock \div N) + 1 \in Nat
    BY StateTypes, ConstantsAssumption, DivFacts
  <1> SUFFICES MemType' /\ rec' \in RecType /\ disk' \in DiskType
    BY TypeParts2
  <1>5. CASE NetTxBlock
    BY <1>1, <1>3, <1>5 DEF NetTxBlock, MemType, memory, Blocks
  <1>6. CASE NetDSBlock
    <2>1. DSOf(net + 1) \in DSBlocks
      BY <1>1, <1>3, <1>6, DSOfType DEF NetDSBlock, MemType, Blocks
    <2> QED
      BY <1>1, <1>6, <2>1 DEF NetDSBlock, MemType, memory
  <1>7. CASE StoreFinalBlock
    <2>1. fb # None => fb = epoch /\ fb \in Blocks
      BY <1>1, <1>7 DEF MemType, ChainInv, RunInv, StoreFinalBlock
    <2>2. rec' \in RecType /\ disk' \in DiskType
      BY <1>1, <1>2, <1>7, <2>1 DEF StoreFinalBlock, Rejoin, DiskType
    <2>3. MemType'
      BY <1>1, <1>3, <1>7, <2>1 DEF StoreFinalBlock, MemType, Rejoin, Fails, Blocks, DSSteps
    <2> QED
      BY <2>2, <2>3
  <1>8. CASE ProcessDSBlock
    BY <1>1, <1>8 DEF ProcessDSBlock, MemType, DSSteps
  <1>9. CASE DSBlockStep
    <2>1. dsLast \in DSBlocks /\ (dsStep \in {"shards", "dsblock"} => dsLast + 1 \in DSBlocks)
      BY <1>1, <1>3 DEF MemType, DSInv, DSBlocks
    <2>2. dsLast' \in DSBlocks
      BY <1>9, <2>1 DEF DSBlockStep
    <2>3. dsStep' \in DSSteps
      BY <1>1, <1>9 DEF DSBlockStep, DSFailure, NextDSStep, DSSteps, MemType
    <2>4. disk' \in DiskType
      BY <1>1, <1>9, <2>1 DEF DSBlockStep, DSWrite, DiskType, MemType, DSSteps
    <2>5. /\ committee' \in DSBlocks /\ nstate' \in {"WAITING_DSBLOCK", "WAITING_FINALBLOCK"}
          /\ failures' \in 0 .. MaxFailures
          /\ late' \subseteq {"root", "flag"} /\ torn' \subseteq {"committee", "links"}
      BY <1>1, <1>3, <1>9 DEF DSBlockStep, Fails, MemType
    <2> QED
      BY <1>1, <1>9, <2>2, <2>3, <2>4, <2>5 DEF DSBlockStep, MemType
  <1>10. CASE Crash
    BY <1>1, <1>2, <1>3, <1>10, ConstantsAssumption DEF Crash, MemType, DSSteps, DSBlocks
  <1>11. CASE Restart
    BY <1>1, <1>11, GoToType DEF Restart, MemType, DiskType, RecSteps
  <1>12. CASE RetrieveBlockLink
    BY <1>1, <1>12 DEF RetrieveBlockLink, RecStep, MemType, DiskType, RecType, RecSteps
  <1>13. CASE AddBlockLink
    <2> DEFINE left == rec.links \ disk.link
    <2>1. left \in SUBSET Nat /\ left \subseteq DSBlocks
      BY <1>1, <1>3 DEF RecType, DSBlocks
    <2>2. left # {} => Min(left) \in DSBlocks
      BY <2>1, MinFacts
    <2> HIDE DEF left
    <2>3. disk' \in DiskType
      BY <1>1, <1>13, <2>2 DEF AddBlockLink, left, DiskType
    <2>4. rec' \in RecType /\ dsLast' \in DSBlocks
      BY <1>1, <1>13, <2>2, GoToType DEF AddBlockLink, left, RecStep, RecSteps, MemType
    <2> QED
      BY <1>1, <1>13, <2>3, <2>4 DEF AddBlockLink, RecStep, MemType
  <1>14. CASE RetrieveStates
    BY <1>1, <1>14 DEF RetrieveStates, RecStep, MemType, DiskType, RecType, RecSteps
  <1>15. CASE RetrieveTxBlocks
    <2>1. disk' \in DiskType
      BY <1>1, <1>2, <1>15 DEF RetrieveTxBlocks, Fail, DiskType
    <2>2. Extra(disk.tx) \subseteq Blocks
      BY <1>1 DEF Extra, DiskType
    <2>3. rec' \in RecType
      BY <1>1, <1>2, <1>15, <2>2 DEF RetrieveTxBlocks, RecStep, RecType, RecSteps
    <2> QED
      BY <1>1, <1>15, <2>1, <2>3 DEF RetrieveTxBlocks, RecStep, MemType, Fail
  <1>16. ASSUME NEW txs \in SUBSET Blocks
         PROVE  (IF txs = {} THEN None ELSE Max(txs)) \in Blocks \cup {None}
    BY GreatestElement, <1>3 DEF Blocks
  <1>17. disk.tx \in SUBSET Blocks /\ Cardinality(disk.tx) \in 0 .. MaxBlock + 1
    BY <1>1, HeightType DEF DiskType
  <1>18. CASE TrimTxBlocks
    <2>1. disk' \in DiskType
      BY <1>1, <1>18 DEF TrimTxBlocks, DiskType
    <2>2. rec' \in RecType
      BY <1>1, <1>17, <1>18, RecUpdates DEF TrimTxBlocks, RecStep
    <2>3. last' \in Blocks \cup {None}
      BY <1>1, <1>16, <1>17, <1>18 DEF TrimTxBlocks, AddBlocks, MemType
    <2> QED
      BY <1>1, <1>18, <2>1, <2>2, <2>3 DEF TrimTxBlocks, RecStep, MemType
  <1>19. CASE ApplyExtraDeltas
    <2>1. rec.extra # {} => Min(rec.extra) \in Blocks
      BY <1>1, <1>3, MinFacts DEF RecType, Blocks
    <2>2. disk' \in DiskType
      BY <1>1, <1>19, <2>1 DEF ApplyExtraDeltas, DiskType
    <2>3. rec' \in RecType
      BY <1>1, <1>17, <1>19, RecUpdates DEF ApplyExtraDeltas, RecStep
    <2>4. last' \in Blocks \cup {None} /\ state' \in States
      BY <1>1, <1>16, <1>17, <1>19, StateTypes DEF ApplyExtraDeltas, AddBlocks, MemType
    <2> QED
      BY <1>1, <1>19, <2>2, <2>3, <2>4 DEF ApplyExtraDeltas, RecStep, MemType
  <1>20. CASE NoBlocksFromSeed
    BY <1>1, <1>20, NotifiedType DEF NoBlocksFromSeed, RecStep, MemType
  <1>21. CASE NoDeltasFromSeed
    BY <1>1, <1>21, NotifiedType DEF NoDeltasFromSeed, RecStep, MemType
  <1>22. CASE ProcessSetStateDeltasFromSeed
    <2> DEFINE new == (LowBlockNum .. net) \ disk.delta
               after == ApplyAll(state, new)
    <2>1. after \in States
      BY <1>1, StateTypes DEF MemType
    <2>2. new \subseteq Blocks
      <3>1. LowBlockNum \in Nat
        BY LowFacts
      <3> QED
        BY <1>1, <1>3, <3>1 DEF MemType, Blocks
    <2> HIDE DEF new, after
    <2>3. disk' \in DiskType
      BY <1>1, <1>22, <2>1, <2>2 DEF ProcessSetStateDeltasFromSeed, new, after, DiskType
    <2>4. rec' \in RecType
      BY <1>1, <1>22 DEF ProcessSetStateDeltasFromSeed, RecStep, RecType, RecSteps, MemType
    <2>5. state' \in States /\ prevRoot' \in States
      BY <1>1, <1>22, <2>1 DEF ProcessSetStateDeltasFromSeed, new, after, MemType
    <2> QED
      BY <1>1, <1>22, <2>3, <2>4, <2>5 DEF ProcessSetStateDeltasFromSeed, RecStep, MemType
  <1>23. CASE CommitTxBlocks
    <2>1. rec.high \in Blocks /\ last + 1 \in Nat
      BY <1>1, <1>3, <1>23
         DEF ChainInv, FetchInv, CommitTxBlocks, RecStep, MemType, RecType, None, Blocks
    <2>2. disk' \in DiskType
      BY <1>1, <1>3, <1>23, <2>1 DEF CommitTxBlocks, DiskType, Blocks
    <2> QED
      BY <1>1, <1>23, <2>1, <2>2, NotifiedType DEF CommitTxBlocks, RecStep, MemType
  <1>24. CASE ProcessSetStateDeltaFromSeed
    BY <1>1, <1>24, StateTypes, GoToType
       DEF ProcessSetStateDeltaFromSeed, RecStep, MemType, RecSteps
  <1>25. CASE LaggingTooMuch
    BY <1>1, <1>2, <1>25 DEF LaggingTooMuch, RecStep, MemType, Fail
  <1>26. CASE NoOfflineLookups
    BY <1>1, <1>2, <1>26 DEF NoOfflineLookups, RecStep, MemType, Fail
  <1>27. CASE FinishRecovery
    <2>1. ValidateStates => last + 1 \in 0 .. MaxBlock + 1
      BY <1>1, <1>3 DEF ValidateStates, MemType, Blocks
    <2> QED
      BY <1>1, <1>2, <1>27, <2>1 DEF FinishRecovery, MemType, Fail
  <1>28. ASSUME NEW n \in Blocks, ProcessFinalBlock(n)
         PROVE  MemType' /\ rec' \in RecType /\ disk' \in DiskType
    <2>1. disk' \in DiskType /\ rec' \in RecType
      BY <1>1, <1>2, <1>28 DEF ProcessFinalBlock, Rejoin, DiskType
    <2>2. state' \in States
      BY <1>1, <1>28, StateTypes DEF ProcessFinalBlock, Rejoin, MemType
    <2> QED
      BY <1>1, <1>3, <1>28, <2>1, <2>2 DEF ProcessFinalBlock, Rejoin, Fails, MemType, DSSteps
  <1>29. ASSUME NEW n \in Blocks, WriteStateToDisk(n)
         PROVE  MemType' /\ rec' \in RecType /\ disk' \in DiskType
    <2>1. disk' \in DiskType
      BY <1>1, <1>29 DEF WriteStateToDisk, DiskType, MemType
    <2> QED
      BY <1>1, <1>29, <2>1 DEF WriteStateToDisk, MemType
  <1> QED
    BY <1>5, <1>6, <1>7, <1>8, <1>9, <1>10, <1>11, <1>12, <1>13, <1>14, <1>15, <1>18,
       <1>19, <1>20, <1>21, <1>22, <1>23, <1>24, <1>25, <1>26, <1>27, <1>28, <1>29
       DEF Next, Recover, FetchReply

\* Max of a chain of c blocks, and its blocks of the unfinished DS epoch
LEMMA ExtraFacts ==
    ASSUME NEW c \in Nat, c > 0
    PROVE  /\ Max(0 .. c - 1) = c - 1
           /\ Extra(0 .. c - 1) = (c \div N) * N .. c - 1
           /\ (c \div N) * N <= c /\ c < (c \div N) * N + N
  <1>1. Max(0 .. c - 1) = c - 1
    BY MaxInterval
  <1>2. PICK q \in Nat, r \in 0 .. N - 1 : q = c \div N /\ r = c % N /\ c = q * N + r
    BY DivFacts
  <1>3. Extra(0 .. c - 1) = {n \in 0 .. c - 1 : n >= c - (c % N)}
    <2>1. PICK l : l = Max(0 .. c - 1)
      OBVIOUS
    <2>2. l \in Int /\ l + 1 = c
      BY <1>1, <2>1
    <2>3. Extra(0 .. c - 1) = {n \in 0 .. c - 1 : n >= l + 1 - ((l + 1) % N)}
      BY <2>1 DEF Extra
    <2>4. l + 1 - ((l + 1) % N) = c - (c % N)
      BY <2>2, ConstantsAssumption
    <2> QED
      BY <2>3, <2>4
  <1>4. PICK p \in Nat : p = q * N
    BY <1>2, ConstantsAssumption
  <1>5. {n \in 0 .. c - 1 : n >= c - r} = p .. c - 1
    <2>1. c - r = p /\ r \in Int
      BY <1>2, <1>4, ConstantsAssumption
    <2> QED
      BY <2>1
  <1>6. p <= c /\ c < p + N
    BY <1>2, <1>4, ConstantsAssumption
  <1> QED
    BY <1>1, <1>2, <1>3, <1>4, <1>5, <1>6

\* Steps that leave the blocks on disk alone
LEMMA SameHeight ==
    ASSUME Contiguous, disk'.tx = disk.tx
    PROVE  Height' = Height /\ Contiguous'
  BY DEF Contiguous, Height

\* A node that keeps running
LEMMA RunFrame ==
    ASSUME ChainInv, disk'.tx = disk.tx,
           mode = "running", mode' = "running", UNCHANGED <<epoch, last, rec>>,
           fb' # None => /\ fb' = epoch /\ fb' < dsLast' * N
                         /\ nstate' = "WAITING_FINALBLOCK"
                         /\ dsStep' \in {"idle", "committee"}
    PROVE  ChainInv'
  <1>1. Height' = Height /\ Contiguous'
    BY SameHeight DEF ChainInv
  <1>2. RunInv'
    BY <1>1 DEF ChainInv, RunInv
  <1>3. rec' = NoRec /\ rec'.step = "idle"
    BY DEF ChainInv, RestInv, NoRec
  <1> QED
    BY <1>1, <1>2, <1>3 DEF ChainInv, RestInv, ExtraInv, FetchInv, ChainSteps

\* A node that stops, or is not started
LEMMA StopFrame ==
    ASSUME ChainInv, disk'.tx = disk.tx \/ disk'.tx = {},
           mode' \in {"down", "rejoin"}, rec' = NoRec,
           fb' = None, dsStep' = "idle", \A n \in Blocks : writer'[n] = "none"
    PROVE  ChainInv'
  <1>1. Contiguous'
    <2>1. CASE disk'.tx = disk.tx
      BY <2>1, SameHeight DEF ChainInv
    <2>2. CASE disk'.tx = {}
      <3>1. Height' = 0
        BY <2>2, FS_EmptySet DEF Height
      <3> QED
        BY <2>2, <3>1 DEF Contiguous
    <2> QED
      BY <2>1, <2>2
  <1>2. rec'.step = "idle"
    BY DEF NoRec
  <1> QED
    BY <1>1, <1>2 DEF ChainInv, RunInv, RestInv, ExtraInv, FetchInv, ChainSteps

\* A recovery that goes on
LEMMA RecFrame ==
    ASSUME ChainInv, mode \in {"down", "recovering"}, mode' = "recovering",
           rec'.step # "idle", UNCHANGED <<fb, dsStep, writer>>
    PROVE  Contiguous' /\ ExtraInv' /\ FetchInv' => ChainInv'
  BY DEF ChainInv, RunInv, RestInv

\* The chain on disk keeps its shape: a block is added only at its end, by a
\* handler that is at the epoch after the last one or by CommitTxBlocks, and deleted
\* only at its end, by TrimTxBlocks
LEMMA ChainStep ==
    ASSUME TypeOK, ChainInv, DSInv, Next
    PROVE  ChainInv'
  <1>1. MemType /\ rec \in RecType /\ disk \in DiskType /\ Height \in 0 .. MaxBlock + 1
    BY TypeParts, HeightType DEF Height, DiskType
  <1>2. MaxBlock \in Nat /\ N \in Nat /\ N > 2
    BY ConstantsAssumption
  <1>3. /\ disk.tx = 0 .. Height - 1
        /\ mode = "recovering" <=> rec.step # "idle"
        /\ mode # "recovering" => rec = NoRec
    BY DEF ChainInv, Contiguous, RestInv
  <1>4. CASE NetTxBlock \/ NetDSBlock
    <2>1. UNCHANGED memory /\ disk' = disk
      BY <1>4 DEF NetTxBlock, NetDSBlock
    <2> QED
      BY <2>1 DEF memory, ChainInv, Contiguous, RunInv, RestInv, ExtraInv, FetchInv, Height
  <1>5. CASE ProcessDSBlock
    BY <1>5, RunFrame DEF ProcessDSBlock, ChainInv, RunInv
  <1>6. CASE DSBlockStep
    <2>1. disk'.tx = disk.tx
      BY <1>1, <1>6 DEF DSBlockStep, DSWrite, MemType, DSSteps, DiskType
    <2>2. fb # None => /\ dsStep = "committee" /\ dsLast' = dsLast
                       /\ nstate' = nstate /\ dsStep' = "idle"
      BY <1>6 DEF DSBlockStep, ChainInv, RunInv, NextDSStep, DSFailure
    <2>3. UNCHANGED <<mode, epoch, last, rec, fb>> /\ mode = "running"
      BY <1>6 DEF DSBlockStep
    <2>4. fb # None => /\ fb = epoch /\ fb < dsLast * N
                       /\ nstate = "WAITING_FINALBLOCK"
      BY <2>3 DEF ChainInv, RunInv
    <2> QED
      BY <2>1, <2>2, <2>3, <2>4, RunFrame
  <1>7. CASE Crash
    <2>1. \A n \in Blocks : writer'[n] = "none"
      BY <1>7 DEF Crash
    <2> QED
      BY <1>7, <2>1, StopFrame DEF Crash
  <1>8. CASE Restart
    <2>1. rec'.step = "links" /\ disk' = disk
      BY <1>1, <1>8 DEF Restart, GoTo, RecType
    <2>2. Contiguous'
      BY <2>1, SameHeight DEF ChainInv
    <2>3. ExtraInv' /\ FetchInv'
      BY <2>1 DEF ExtraInv, FetchInv, ChainSteps
    <2> QED
      BY <1>8, <2>1, <2>2, <2>3, RecFrame DEF Restart
  <1>9. CASE RetrieveBlockLink \/ AddBlockLink \/ RetrieveStates
    <2>1. disk'.tx = disk.tx /\ rec'.step \in {"relink", "states", "txblocks"}
      BY <1>1, <1>9 DEF RetrieveBlockLink, AddBlockLink, RetrieveStates, RecStep,
                        DiskType, RecType, GoTo
    <2>2. Contiguous'
      BY <2>1, SameHeight DEF ChainInv
    <2>3. ExtraInv' /\ FetchInv'
      BY <2>1 DEF ExtraInv, FetchInv, ChainSteps
    <2>4. mode = "recovering" /\ mode' = "recovering" /\ UNCHANGED <<fb, dsStep, writer>>
      BY <1>9 DEF RetrieveBlockLink, AddBlockLink, RetrieveStates, RecStep
    <2> QED
      BY <2>1, <2>2, <2>3, <2>4, RecFrame
  <1>10. ASSUME Fail, rec' = NoRec, mode = "recovering", UNCHANGED <<fb, dsStep, writer>>
         PROVE  ChainInv'
    <2>1. disk'.tx = {} /\ mode' = "rejoin"
      BY <1>10 DEF Fail, Empty
    <2>2. fb = None /\ dsStep = "idle" /\ \A n \in Blocks : writer[n] = "none"
      BY <1>10 DEF ChainInv, RestInv
    <2> QED
      BY <1>10, <2>1, <2>2, StopFrame
  <1>11. CASE LaggingTooMuch \/ NoOfflineLookups
    BY <1>10, <1>11 DEF LaggingTooMuch, NoOfflineLookups, RecStep
  <1>12. CASE RetrieveTxBlocks
    <2>1. CASE disk.tx = {}
      BY <1>10, <1>12, <2>1 DEF RetrieveTxBlocks, RecStep
    <2>2. CASE disk.tx # {}
      <3>1. Height > 0
        BY <1>1, <1>3, <2>2
      <3>2. Extra(disk.tx) = (Height \div N) * N .. Height - 1
        BY <1>1, <1>3, <3>1, ExtraFacts
      <3>3. /\ disk'.tx = disk.tx
            /\ rec'.step \in {"trim", "extra"} /\ rec'.extra = Extra(disk.tx)
        BY <1>1, <1>12, <2>2 DEF RetrieveTxBlocks, RecStep, DiskType, RecType
      <3>4. Height' = Height /\ Contiguous'
        BY <3>3, SameHeight DEF ChainInv
      <3>5. FetchInv'
        BY <3>3 DEF FetchInv, ChainSteps
      <3>6. PICK q \in Nat : q = Height \div N
        BY <1>1, DivFacts
      <3>7. q * N <= Height /\ Height < q * N + N
        BY <1>1, <3>1, <3>6, ExtraFacts
      <3>8. q \in 0 .. MaxBlock + 1
        BY <1>1, <1>2, <3>6, <3>7
      <3>9. rec'.extra \subseteq disk'.tx
        BY <3>3 DEF Extra
      <3>10. ExtraInv'
        BY <3>2, <3>3, <3>4, <3>6, <3>7, <3>8, <3>9 DEF ExtraInv
      <3>11. mode = "recovering" /\ mode' = "recovering" /\ UNCHANGED <<fb, dsStep, writer>>
        BY <1>12, <2>2 DEF RetrieveTxBlocks, RecStep
      <3> QED
        BY <3>3, <3>4, <3>5, <3>10, <3>11, RecFrame
    <2> QED
      BY <2>1, <2>2
  <1>13. ASSUME rec.step \in {"trim", "extra"}, rec.extra = {}, AddBlocks(disk.tx),
                rec' = [rec EXCEPT !.step = "fetch", !.old = Cardinality(disk.tx)],
                disk' = disk, mode = "recovering", mode' = "recovering",
                UNCHANGED <<fb, dsStep, writer>>
         PROVE  ChainInv'
    <2>1. rec'.step = "fetch"
      BY <1>1, <1>13 DEF RecType
    <2>2. Height' = Height /\ Contiguous'
      BY <1>13, SameHeight DEF ChainInv
    <2>3. last' = Height - 1
      <3>1. CASE disk.tx = {}
        BY <1>13, <3>1, FS_EmptySet DEF AddBlocks, None, Height
      <3>2. CASE disk.tx # {}
        <4>1. Height > 0
          BY <1>1, <1>3, <3>2
        <4> QED
          BY <1>1, <1>3, <1>13, <3>2, <4>1, ExtraFacts DEF AddBlocks
      <3> QED
        BY <3>1, <3>2
    <2>4. ExtraInv' /\ FetchInv'
      BY <2>1, <2>2, <2>3 DEF ExtraInv, FetchInv
    <2> QED
      BY <1>13, <2>1, <2>2, <2>4, RecFrame
  <1>14. CASE TrimTxBlocks
    <2>1. rec.step = "trim" /\ mode = "recovering" /\ mode' = "recovering"
          /\ UNCHANGED <<fb, dsStep, writer>>
      BY <1>14 DEF TrimTxBlocks, RecStep
    <2>2. CASE rec.extra = {}
      BY <1>13, <1>14, <2>1, <2>2 DEF TrimTxBlocks, RecStep
    <2>3. CASE rec.extra # {}
      <3>1. PICK q \in 0 .. MaxBlock + 1 : /\ q * N <= Height /\ Height < q * N + N
                                           /\ rec.extra = q * N .. Height - 1
        BY <2>1 DEF ChainInv, ExtraInv
      <3>2. PICK p \in Nat : p = q * N
        BY <1>2
      <3>3. p <= Height - 1
        BY <1>1, <2>3, <3>1, <3>2
      <3>4. Max(rec.extra) = Height - 1
        BY <1>1, <3>1, <3>2, <3>3, MaxInterval
      <3>5. rec'.step = "trim" /\ rec'.extra = rec.extra \ {Height - 1}
        BY <1>1, <1>14, <2>1, <2>3, <3>4 DEF TrimTxBlocks, RecStep, RecType
      <3>6. disk'.tx = disk.tx \ {Height - 1}
        BY <1>1, <1>14, <2>3, <3>4 DEF TrimTxBlocks, DiskType
      <3>7. disk'.tx = 0 .. (Height - 1) - 1
        BY <1>1, <1>3, <3>3, <3>6
      <3>8. Height' = Height - 1
        BY <1>1, <3>3, <3>7, HeightFacts DEF Height
      <3>9. Contiguous'
        BY <3>7, <3>8 DEF Contiguous
      <3>10. rec'.extra = q * N .. Height' - 1 /\ q * N <= Height' /\ Height' < q * N + N
        <4>1. (p .. Height - 1) \ {Height - 1} = p .. (Height - 1) - 1
          BY <1>1, <3>3
        <4> QED
          BY <1>1, <1>2, <3>1, <3>2, <3>3, <3>5, <3>8, <4>1
      <3>11. ExtraInv' /\ FetchInv'
        BY <3>5, <3>10 DEF ExtraInv, FetchInv, ChainSteps
      <3> QED
        BY <2>1, <3>5, <3>9, <3>11, RecFrame
    <2> QED
      BY <2>2, <2>3
  <1>15. CASE ApplyExtraDeltas
    <2>1. rec.step = "extra" /\ mode = "recovering" /\ mode' = "recovering"
          /\ UNCHANGED <<fb, dsStep, writer>>
      BY <1>15 DEF ApplyExtraDeltas, RecStep
    <2>2. CASE rec.extra = {}
      BY <1>13, <1>15, <2>1, <2>2 DEF ApplyExtraDeltas, RecStep
    <2>3. CASE rec.extra # {}
      <3>1. disk'.tx = disk.tx /\ rec'.step = "extra" /\ rec'.extra \subseteq rec.extra
        BY <1>1, <1>15, <2>1, <2>3 DEF ApplyExtraDeltas, RecStep, RecType, DiskType
      <3>2. Contiguous'
        BY <3>1, SameHeight DEF ChainInv
      <3>3. ExtraInv' /\ FetchInv'
        BY <2>1, <3>1 DEF ChainInv, ExtraInv, FetchInv, ChainSteps
      <3> QED
        BY <2>1, <3>1, <3>2, <3>3, RecFrame
    <2> QED
      BY <2>2, <2>3
  <1>16. ASSUME disk'.tx = disk.tx, rec.step \in ChainSteps, last' = last,
                rec'.step \in {"fetch", "lagging", "delta", "validate"},
                mode = "recovering", mode' = "recovering", UNCHANGED <<fb, dsStep, writer>>
         PROVE  ChainInv'
    <2>1. Height' = Height /\ Contiguous'
      BY <1>16, SameHeight DEF ChainInv
    <2>2. ExtraInv' /\ FetchInv'
      BY <1>16, <2>1 DEF ChainInv, ExtraInv, FetchInv, ChainSteps
    <2> QED
      BY <1>16, <2>1, <2>2, RecFrame
  <1>17. \A c : Notified(c).step \in {"lagging", "delta", "validate"}
    BY <1>1 DEF Notified, RecType
  <1>18. CASE NoBlocksFromSeed \/ NoDeltasFromSeed
    BY <1>16, <1>17, <1>18 DEF NoBlocksFromSeed, NoDeltasFromSeed, RecStep, ChainSteps
  <1>19. CASE ProcessSetStateDeltaFromSeed
    <2>1. rec'.step = "validate"
      BY <1>1, <1>19 DEF ProcessSetStateDeltaFromSeed, RecStep, GoTo, RecType
    <2> QED
      BY <1>16, <1>19, <2>1 DEF ProcessSetStateDeltaFromSeed, RecStep, ChainSteps
  <1>20. CASE ProcessSetStateDeltasFromSeed
    <2>1. /\ mode = "recovering" /\ mode' = "recovering" /\ rec.step = "fetch"
          /\ UNCHANGED <<fb, dsStep, writer, last, dsLast>>
          /\ LowBlockNum <= net /\ DSOf(net) = dsLast
      BY <1>20 DEF ProcessSetStateDeltasFromSeed, RecStep
    <2>2. disk'.tx = disk.tx
      BY <1>1, <1>20 DEF ProcessSetStateDeltasFromSeed, DiskType
    <2>3. CASE rec' = rec
      BY <1>16, <2>1, <2>2, <2>3 DEF ChainSteps
    <2>4. CASE rec' = [rec EXCEPT !.step = "commit", !.high = net]
      <3>1. rec'.step = "commit" /\ rec'.high = net
        BY <1>1, <2>4 DEF RecType
      <3>2. last' = Height - 1
        BY <2>1 DEF ChainInv, FetchInv, ChainSteps
      <3>3. net > last
        BY <1>1, <2>1, LowFacts DEF MemType, Blocks, None
      <3>4. net < dsLast * N
        BY <1>1, <1>2, <2>1, DSOfFacts DEF MemType, Blocks, DSBlocks
      <3>5. Height' = Height /\ Contiguous'
        BY <2>2, SameHeight DEF ChainInv
      <3>6. ExtraInv' /\ FetchInv'
        BY <2>1, <3>1, <3>2, <3>3, <3>4, <3>5 DEF ExtraInv, FetchInv
      <3> QED
        BY <2>1, <3>1, <3>5, <3>6, RecFrame
    <2> QED
      BY <1>20, <2>3, <2>4 DEF ProcessSetStateDeltasFromSeed, RecStep
  <1>21. CASE CommitTxBlocks
    <2>1. /\ mode = "recovering" /\ mode' = "recovering" /\ rec.step = "commit"
          /\ UNCHANGED <<fb, dsStep, writer>> /\ last' = rec.high
      BY <1>21 DEF CommitTxBlocks, RecStep
    <2>2. disk'.tx = disk.tx \cup (last + 1 .. rec.high)
      BY <1>1, <1>21 DEF CommitTxBlocks, DiskType
    <2>3. last = Height - 1 /\ rec.high > last /\ rec.high \in Int
      BY <1>1, <1>2, <2>1 DEF ChainInv, FetchInv, ChainSteps, RecType, Blocks, None
    <2>4. disk'.tx = 0 .. (rec.high + 1) - 1
      BY <1>1, <1>3, <2>2, <2>3
    <2>5. Height' = rec.high + 1
      BY <1>1, <2>3, <2>4, HeightFacts DEF Height
    <2>6. Contiguous'
      BY <2>4, <2>5 DEF Contiguous
    <2>7. rec'.step \in {"lagging", "delta", "validate"}
      BY <1>17, <1>21 DEF CommitTxBlocks, RecStep
    <2>8. ExtraInv' /\ FetchInv'
      BY <2>1, <2>3, <2>5, <2>7 DEF ExtraInv, FetchInv
    <2> QED
      BY <2>1, <2>6, <2>7, <2>8, RecFrame
  <1>22. CASE FinishRecovery
    <2>1. mode = "recovering" /\ rec' = NoRec /\ UNCHANGED <<fb, dsStep, writer, last>>
      BY <1>22 DEF FinishRecovery
    <2>2. CASE Fail
      BY <1>10, <2>1, <2>2
    <2>3. CASE mode' = "running" /\ epoch' = last + 1 /\ ValidateStates /\ disk' = disk
      <3>1. last = Height - 1 /\ last # None
        BY <1>22, <2>3 DEF FinishRecovery, ChainInv, FetchInv, ChainSteps, ValidateStates
      <3>2. Height' = Height /\ Contiguous'
        BY <2>3, SameHeight DEF ChainInv
      <3>3. fb = None
        BY <2>1 DEF ChainInv, RestInv
      <3>4. RunInv'
        BY <1>1, <2>1, <2>3, <3>1, <3>2, <3>3 DEF RunInv, None
      <3>5. rec'.step = "idle"
        BY <2>1 DEF NoRec
      <3> QED
        BY <2>1, <2>3, <3>2, <3>4, <3>5
           DEF ChainInv, RestInv, ExtraInv, FetchInv, ChainSteps
    <2> QED
      BY <1>22, <2>2, <2>3 DEF FinishRecovery
  <1>23. ASSUME Rejoin, mode = "running", disk' = disk PROVE ChainInv'
    <2>1. \A n \in Blocks : writer'[n] = "none"
      BY <1>23 DEF Rejoin
    <2> QED
      BY <1>23, <2>1, StopFrame DEF Rejoin
  <1>24. ASSUME NEW n \in Blocks, ProcessFinalBlock(n) PROVE ChainInv'
    <2>1. CASE Rejoin /\ disk' = disk
      BY <1>23, <1>24, <2>1 DEF ProcessFinalBlock
    <2>2. CASE /\ CheckWhetherBlockIsLatest(DSOf(n) + 1, n)
               /\ nstate = "WAITING_FINALBLOCK"
               /\ \/ disk' = [disk EXCEPT !.delta = @ \cup {n}] /\ fb' = n
                  \/ UNCHANGED <<disk, fb>>
               /\ UNCHANGED <<mode, nstate, last, dsLast, epoch, committee, prevRoot,
                              dsStep, writer, rec>>
      <3>1. disk'.tx = disk.tx
        BY <1>1, <2>2 DEF DiskType
      <3>2. n = epoch /\ n < dsLast * N
        BY <1>1, <1>2, <2>2, DSOfFacts, DSOfType
           DEF CheckWhetherBlockIsLatest, MemType, Blocks, DSBlocks
      <3>3. dsStep \in {"idle", "committee"}
        BY <1>1, <2>2 DEF DSInv, MemType, DSSteps
      <3>4. mode = "running" /\ fb = None
        BY <1>24 DEF ProcessFinalBlock
      <3> QED
        BY <2>2, <3>1, <3>2, <3>3, <3>4, RunFrame
    <2> QED
      BY <1>24, <2>1, <2>2 DEF ProcessFinalBlock
  <1>25. ASSUME NEW n \in Blocks, WriteStateToDisk(n) PROVE ChainInv'
    <2>1. disk'.tx = disk.tx
      BY <1>1, <1>25 DEF WriteStateToDisk, DiskType
    <2> QED
      BY <1>25, <2>1, RunFrame DEF WriteStateToDisk, ChainInv, RunInv
  <1>26. CASE StoreFinalBlock
    <2>1. mode = "running" /\ fb = epoch /\ epoch = Height /\ last \in {epoch - 1, epoch}
          /\ epoch >= 1 /\ rec = NoRec /\ rec.step = "idle"
      BY <1>3, <1>26 DEF StoreFinalBlock, ChainInv, RunInv, NoRec
    <2>2. CASE Rejoin /\ disk' = disk
      BY <1>23, <2>1, <2>2
    <2>3. CASE /\ fb' = None /\ disk' = disk /\ last' \in {last, fb}
               /\ UNCHANGED <<mode, rec, epoch>>
      <3>1. Height' = Height /\ Contiguous'
        BY <2>3, SameHeight DEF ChainInv
      <3>2. RunInv'
        BY <2>1, <2>3, <3>1 DEF RunInv
      <3> QED
        BY <2>1, <2>3, <3>1, <3>2
           DEF ChainInv, RestInv, ExtraInv, FetchInv, ChainSteps
    <2>4. CASE /\ fb' = None /\ disk' = [disk EXCEPT !.tx = @ \cup {fb}] /\ last' = fb
               /\ epoch' = epoch + 1 /\ UNCHANGED <<mode, rec>>
      <3>1. disk'.tx = 0 .. (Height + 1) - 1
        BY <1>1, <1>3, <2>1, <2>4 DEF DiskType
      <3>2. Height' = Height + 1
        BY <1>1, <3>1, HeightFacts DEF Height
      <3>3. RunInv' /\ Contiguous'
        BY <1>1, <2>1, <2>4, <3>1, <3>2 DEF RunInv, Contiguous
      <3> QED
        BY <2>1, <2>4, <3>3
           DEF ChainInv, RestInv, ExtraInv, FetchInv, ChainSteps
    <2> QED
      BY <1>26, <2>2, <2>3, <2>4 DEF StoreFinalBlock
  <1> QED
    BY <1>4, <1>5, <1>6, <1>7, <1>8, <1>9, <1>11, <1>12, <1>14, <1>15, <1>18, <1>19,
       <1>20, <1>21, <1>22, <1>24, <1>25, <1>26 DEF Next, Recover, FetchReply

\* Which variables an action leaves alone, by mode: a recovery does not touch the
\* handlers, and a node that is not running has none
LEMMA RecoverFrame ==
    ASSUME TypeOK, ChainInv, Restart \/ Recover
    PROVE  /\ mode # "running" /\ UNCHANGED <<dsStep, writer, fb, netDS, late, torn>>
           /\ dsStep = "idle" /\ fb = None /\ \A n \in Blocks : writer[n] = "none"
  <1>1. mode \in {"down", "recovering"} /\ UNCHANGED <<dsStep, writer, fb, netDS, late, torn>>
    BY DEF Restart, Recover, RetrieveBlockLink, AddBlockLink, RetrieveStates,
           RetrieveTxBlocks, TrimTxBlocks, ApplyExtraDeltas, FetchReply, NoBlocksFromSeed,
           ProcessSetStateDeltasFromSeed, NoDeltasFromSeed, CommitTxBlocks,
           ProcessSetStateDeltaFromSeed, LaggingTooMuch, NoOfflineLookups, FinishRecovery,
           RecStep
  <1> QED
    BY <1>1 DEF ChainInv, RestInv

-----------------------------------------------------------------------------
(* The handler of DS blocks, the block links, the flag and the committee *)

\* The steps of the DS block's handler, one after the other
LEMMA DSInvStep ==
    ASSUME TypeOK, ChainInv, ChainInv', DSInv, Next
    PROVE  DSInv'
  <1>1. MemType /\ disk \in DiskType /\ Height \in Nat
    BY TypeParts, HeightType DEF Height, DiskType
  <1>2. ASSUME dsStep' = "idle", \A n \in Blocks : writer'[n] = "none" PROVE DSInv'
    BY <1>2 DEF DSInv
  <1>3. CASE Restart \/ Recover
    BY <1>2, <1>3, RecoverFrame
  <1>4. CASE Crash
    BY <1>2, <1>4 DEF Crash
  <1>5. CASE NetTxBlock \/ NetDSBlock
    <2>1. UNCHANGED memory /\ disk' = disk /\ netDS' >= netDS /\ netDS' \in Int
      BY <1>1, <1>5 DEF NetTxBlock, NetDSBlock, MemType, DSBlocks
    <2> QED
      BY <1>1, <2>1 DEF memory, DSInv, Height, MemType, DSBlocks
  <1>6. CASE Rejoin
    BY <1>2, <1>6 DEF Rejoin
  <1>7. ASSUME NEW n \in Blocks, ProcessFinalBlock(n) PROVE DSInv'
    <2>1. disk'.tx = disk.tx
      BY <1>1, <1>7 DEF ProcessFinalBlock, DiskType
    <2> QED
      BY <1>6, <1>7, <2>1 DEF ProcessFinalBlock, DSInv, Height
  <1>8. ASSUME NEW n \in Blocks, WriteStateToDisk(n) PROVE DSInv'
    <2>1. disk'.tx = disk.tx
      BY <1>1, <1>8 DEF WriteStateToDisk, DiskType
    <2>2. \A m \in Blocks : writer'[m] # "none" => writer[m] # "none"
      BY <1>1, <1>8 DEF WriteStateToDisk, MemType
    <2> QED
      BY <1>8, <2>1, <2>2 DEF WriteStateToDisk, DSInv, Height
  <1>9. CASE StoreFinalBlock
    <2>1. fb = epoch /\ epoch = Height /\ dsStep \in {"idle", "committee"}
          /\ fb \in Blocks /\ mode = "running"
      BY <1>1, <1>9 DEF StoreFinalBlock, ChainInv, RunInv, MemType
    <2>2. CASE Rejoin
      BY <1>6, <2>2
    <2>3. CASE UNCHANGED <<mode, dsLast, committee, dsStep>>
      <3>1. Height' \in {Height, Height + 1}
        BY <1>1, <1>9, <2>1, <2>3 DEF StoreFinalBlock, ChainInv, RunInv, Rejoin
      <3>2. \A n \in Blocks : writer'[n] # "none" =>
              \/ writer[n] # "none"
              \/ n = fb /\ Vacuous(fb) /\ epoch' = epoch + 1
        BY <1>1, <1>9, <2>3 DEF StoreFinalBlock, MemType, Rejoin
      <3>3. mode' = "running" /\ Height' = epoch'
        BY <2>1, <2>3 DEF ChainInv, RunInv
      <3>4. \A n \in Blocks : writer'[n] # "none" => Vacuous(n) /\ n < Height'
        BY <1>1, <2>1, <3>1, <3>2, <3>3 DEF DSInv, Blocks
      <3> QED
        BY <2>1, <2>3, <3>4 DEF DSInv
    <2> QED
      BY <1>9, <2>2, <2>3 DEF StoreFinalBlock
  <1>10. CASE ProcessDSBlock
    <2>1. epoch = dsLast * N /\ dsLast < netDS
      BY <1>1, <1>10 DEF ProcessDSBlock, MemType, DSBlocks
    <2> QED
      BY <1>1, <1>10, <2>1 DEF ProcessDSBlock, DSInv, Height
  <1>11. CASE DSBlockStep
    <2>1. disk'.tx = disk.tx
      BY <1>1, <1>11 DEF DSBlockStep, DSWrite, MemType, DSSteps, DiskType
    <2>2. \A n \in Blocks : writer'[n] # "none" => Vacuous(n) /\ n < Height'
      BY <1>11, <2>1 DEF DSBlockStep, DSInv, Height
    <2>3. epoch' = epoch /\ netDS' = netDS /\ dsLast \in Nat
      BY <1>1, <1>11 DEF DSBlockStep, MemType, DSBlocks
    <2>4. CASE dsStep = "shards"
      BY <1>11, <2>2, <2>3, <2>4 DEF DSBlockStep, DSInv, NextDSStep, DSFailure
    <2>5. CASE dsStep = "dsblock"
      <3>1. /\ dsLast' = dsLast + 1 /\ dsStep' \in {"flag", "reset"}
            /\ UNCHANGED <<committee, nstate>>
        BY <1>11, <2>5 DEF DSBlockStep, NextDSStep, DSFailure
      <3>2. dsLast' - 1 = dsLast
        BY <2>3, <3>1
      <3> QED
        BY <2>2, <2>3, <2>5, <3>1, <3>2 DEF DSInv
    <2>6. CASE dsStep \in {"flag", "link"}
      BY <1>11, <2>2, <2>3, <2>6 DEF DSBlockStep, DSInv, NextDSStep, DSFailure
    <2>7. CASE dsStep \in {"reset", "committee"}
      BY <1>11, <2>2, <2>3, <2>7 DEF DSBlockStep, DSInv, NextDSStep, DSFailure
    <2> QED
      BY <1>1, <1>11, <2>4, <2>5, <2>6, <2>7 DEF MemType, DSSteps, DSBlockStep
  <1> QED
    BY <1>3, <1>4, <1>5, <1>7, <1>8, <1>9, <1>10, <1>11 DEF Next

\* The block links a recovery adds again, from the first one upwards
LEMMA LinkInvStep ==
    ASSUME TypeOK, ChainInv, DSInv, LinkInv, Next
    PROVE  LinkInv'
  <1>1. MemType /\ rec \in RecType /\ disk \in DiskType
    BY TypeParts
  <1>2. /\ mode = "recovering" <=> rec.step # "idle"
        /\ mode # "recovering" => rec = NoRec
        /\ NoRec.step = "idle" /\ NoRec.links = {}
    BY DEF ChainInv, RestInv, NoRec
  <1>3. dsLast \in Nat /\ disk.link \subseteq Nat /\ rec.links \subseteq Nat
    BY <1>1 DEF MemType, DiskType, RecType, DSBlocks
  <1>4. ASSUME mode' \in {"down", "rejoin"}, rec' = NoRec PROVE LinkInv'
    BY <1>2, <1>4 DEF LinkInv
  <1>5. ASSUME mode = "running", mode' = "running", rec' = rec, disk'.link = disk.link,
               dsLast' = dsLast
        PROVE  LinkInv'
    BY <1>2, <1>5 DEF LinkInv
  <1>6. CASE NetTxBlock \/ NetDSBlock
    <2>1. UNCHANGED memory /\ disk' = disk
      BY <1>6 DEF NetTxBlock, NetDSBlock
    <2> QED
      BY <2>1 DEF memory, LinkInv
  <1>7. ASSUME NEW n \in Blocks, ProcessFinalBlock(n) PROVE LinkInv'
    <2>1. disk'.link = disk.link
      BY <1>1, <1>7 DEF ProcessFinalBlock, DiskType
    <2> QED
      BY <1>4, <1>5, <1>7, <2>1 DEF ProcessFinalBlock, Rejoin
  <1>8. ASSUME NEW n \in Blocks, WriteStateToDisk(n) PROVE LinkInv'
    <2>1. disk'.link = disk.link
      BY <1>1, <1>8 DEF WriteStateToDisk, DiskType
    <2> QED
      BY <1>5, <1>8, <2>1 DEF WriteStateToDisk
  <1>9. CASE StoreFinalBlock
    <2>1. disk'.link = disk.link
      BY <1>1, <1>9 DEF StoreFinalBlock, DiskType
    <2> QED
      BY <1>4, <1>5, <1>9, <2>1 DEF StoreFinalBlock, Rejoin
  <1>10. CASE ProcessDSBlock
    BY <1>5, <1>10 DEF ProcessDSBlock
  <1>11. CASE DSBlockStep
    <2>1. disk'.link = disk.link \/ disk'.link = disk.link \cup {dsLast}
      BY <1>1, <1>11 DEF DSBlockStep, DSWrite, MemType, DSSteps, DiskType
    <2>2. dsLast' \in Nat /\ dsLast' >= dsLast
      BY <1>3, <1>11 DEF DSBlockStep
    <2>3. mode = "running" /\ mode' = "running" /\ rec' = rec
      BY <1>11 DEF DSBlockStep
    <2>4. \A d \in disk.link : d <= dsLast
      BY <2>3 DEF LinkInv
    <2>5. \A d \in disk'.link : d <= dsLast'
      BY <1>3, <2>1, <2>2, <2>4
    <2> QED
      BY <1>2, <2>3, <2>5 DEF LinkInv
  <1>12. CASE Crash
    BY <1>4, <1>12 DEF Crash
  <1>13. CASE Restart
    <2>1. rec'.step = "links" /\ rec'.links = {}
      BY <1>1, <1>2, <1>13 DEF Restart, GoTo, RecType
    <2> QED
      BY <1>13, <2>1 DEF Restart, LinkInv
  <1>14. CASE RetrieveBlockLink
    <2>1. rec'.step = "relink" /\ disk'.link = {}
      BY <1>1, <1>14 DEF RetrieveBlockLink, RecStep, RecType, DiskType
    <2> QED
      BY <1>14, <2>1 DEF LinkInv
  <1>15. CASE AddBlockLink
    <2>1. /\ rec.step = "relink" /\ disk.link \subseteq rec.links
          /\ \A d \in disk.link, e \in rec.links \ disk.link : d <= e
          /\ disk.link # {} => dsLast \in disk.link
          /\ \A d \in disk.link : d <= dsLast
      BY <1>15 DEF AddBlockLink, RecStep, LinkInv
    <2>2. CASE rec.links \ disk.link = {}
      <3>1. rec'.step = "states" /\ rec'.links = rec.links /\ disk' = disk /\ dsLast' = dsLast
        BY <1>1, <1>15, <2>2 DEF AddBlockLink, RecStep, GoTo, RecType
      <3> QED
        BY <2>1, <2>2, <3>1 DEF LinkInv
    <2>3. CASE rec.links \ disk.link # {}
      <3>1. PICK x : x = Min(rec.links \ disk.link)
        OBVIOUS
      <3>2. x \in rec.links \ disk.link /\ \A e \in rec.links \ disk.link : x <= e
        BY <1>3, <2>3, <3>1, MinFacts
      <3>3. rec' = rec /\ disk'.link = disk.link \cup {x} /\ dsLast' = x
        BY <1>1, <1>15, <2>3, <3>1 DEF AddBlockLink, RecStep, DiskType
      <3>4. \A d \in disk'.link : d <= x
        BY <1>3, <2>1, <3>2, <3>3
      <3>5. \A d \in disk'.link, e \in rec.links \ disk'.link : d <= e
        BY <1>3, <2>1, <3>2, <3>3
      <3> QED
        BY <2>1, <3>2, <3>3, <3>4, <3>5 DEF LinkInv
    <2> QED
      BY <2>2, <2>3
  <1>16. ASSUME rec.step \notin {"idle", "links", "relink"},
                rec'.step \notin {"idle", "links", "relink"},
                rec'.links = rec.links, disk'.link = disk.link, dsLast' = dsLast
         PROVE  LinkInv'
    BY <1>16 DEF LinkInv
  <1>17. CASE RetrieveStates
    <2>1. rec'.step = "txblocks" /\ rec'.links = rec.links
      BY <1>1, <1>17 DEF RetrieveStates, RecStep, RecType
    <2> QED
      BY <1>16, <1>17, <2>1 DEF RetrieveStates, RecStep
  <1>18. CASE RetrieveTxBlocks
    <2>1. CASE disk.tx = {}
      BY <1>4, <1>18, <2>1 DEF RetrieveTxBlocks, RecStep, Fail
    <2>2. CASE disk.tx # {}
      <3>1. /\ rec'.step \in {"trim", "extra"} /\ rec'.links = rec.links
            /\ disk'.link = disk.link
        BY <1>1, <1>18, <2>2 DEF RetrieveTxBlocks, RecStep, RecType, DiskType
      <3> QED
        BY <1>16, <1>18, <2>2, <3>1 DEF RetrieveTxBlocks, RecStep
    <2> QED
      BY <2>1, <2>2
  <1>19. CASE TrimTxBlocks \/ ApplyExtraDeltas
    <2>1. /\ rec'.step \in {"trim", "extra", "fetch"} /\ rec'.links = rec.links
          /\ rec.step \in {"trim", "extra"} /\ disk'.link = disk.link
      BY <1>1, <1>19 DEF TrimTxBlocks, ApplyExtraDeltas, RecStep, RecType, DiskType
    <2> QED
      BY <1>16, <1>19, <2>1 DEF TrimTxBlocks, ApplyExtraDeltas
  <1>20. \A c : /\ Notified(c).step \in {"lagging", "delta", "validate"}
                /\ Notified(c).links = rec.links
    BY <1>1 DEF Notified, RecType
  <1>21. CASE NoBlocksFromSeed \/ NoDeltasFromSeed
    BY <1>16, <1>20, <1>21 DEF NoBlocksFromSeed, NoDeltasFromSeed, RecStep
  <1>22. CASE ProcessSetStateDeltasFromSeed
    <2>1. /\ rec'.step \in {"fetch", "commit"} /\ rec'.links = rec.links
          /\ rec.step = "fetch" /\ disk'.link = disk.link
      BY <1>1, <1>22 DEF ProcessSetStateDeltasFromSeed, RecStep, RecType, DiskType
    <2> QED
      BY <1>16, <1>22, <2>1 DEF ProcessSetStateDeltasFromSeed
  <1>23. CASE CommitTxBlocks
    <2>1. disk'.link = disk.link
      BY <1>1, <1>23 DEF CommitTxBlocks, DiskType
    <2> QED
      BY <1>16, <1>20, <1>23, <2>1 DEF CommitTxBlocks, RecStep
  <1>24. CASE ProcessSetStateDeltaFromSeed
    <2>1. rec'.step = "validate" /\ rec'.links = rec.links
      BY <1>1, <1>24 DEF ProcessSetStateDeltaFromSeed, RecStep, GoTo, RecType
    <2> QED
      BY <1>16, <1>24, <2>1 DEF ProcessSetStateDeltaFromSeed, RecStep
  <1>25. CASE LaggingTooMuch \/ NoOfflineLookups
    BY <1>4, <1>25 DEF LaggingTooMuch, NoOfflineLookups, RecStep, Fail
  <1>26. CASE FinishRecovery
    <2>1. CASE Fail
      BY <1>4, <1>26, <2>1 DEF FinishRecovery, Fail
    <2>2. CASE mode' = "running" /\ disk' = disk
      BY <1>2, <1>26, <2>2 DEF FinishRecovery, LinkInv
    <2> QED
      BY <1>26, <2>1, <2>2 DEF FinishRecovery
  <1> QED
    BY <1>6, <1>7, <1>8, <1>9, <1>10, <1>11, <1>12, <1>13, <1>14, <1>15, <1>17, <1>18,
       <1>19, <1>21, <1>22, <1>23, <1>24, <1>25, <1>26 DEF Next, Recover, FetchReply

\* A multiple of N that is not above c is not above the largest one below c
LEMMA MultipleFacts ==
    ASSUME NEW d \in Nat, NEW q \in Nat, NEW c \in Nat, d * N <= c, c < q * N + N
    PROVE  d * N <= q * N
  BY ConstantsAssumption

\* The last block of a DS epoch
LEMMA VacuousFacts ==
    ASSUME NEW n \in Blocks, Vacuous(n)
    PROVE  n \in Nat /\ DSOf(n) * N = n + 1
  <1>1. n \in Nat /\ n + 1 \in Nat
    BY ConstantsAssumption DEF Blocks
  <1>2. PICK q \in Nat, r \in 0 .. N - 1 : q = n \div N /\ n = q * N + r
    BY <1>1, DivFacts
  <1>3. PICK p \in Nat : p = (n + 1) \div N /\ n + 1 = p * N
    <2>1. PICK m \in Nat : m = n + 1
      BY <1>1
    <2>2. m % N = 0
      BY <2>1 DEF Vacuous
    <2>3. m \div N \in Nat /\ m = (m \div N) * N + 0
      BY <2>2, DivFacts
    <2>4. (m \div N) * N \in Int
      BY <2>3, ConstantsAssumption
    <2> QED
      BY <2>1, <2>3, <2>4
  <1>4. q * N < p * N /\ p * N <= q * N + N
    BY <1>2, <1>3, ConstantsAssumption
  <1>5. p = q + 1
    BY <1>4, ConstantsAssumption
  <1> QED
    BY <1>1, <1>2, <1>3, <1>5 DEF DSOf

\* What an action does to DSINCOMPLETED, to the links and to the height: the
\* height only falls in a trimming, and only the DS block's handler adds a link
\* that the node did not have
LEMMA FlagInvStep ==
    ASSUME TypeOK, TypeOK', ChainInv, ChainInv', DSInv, LinkInv, FlagInv, Next
    PROVE  FlagInv'
  <1>1. MemType /\ rec \in RecType /\ disk \in DiskType /\ Height \in Nat
    BY TypeParts, HeightType DEF Height, DiskType
  <1>2. /\ mode = "recovering" <=> rec.step # "idle"
        /\ mode # "recovering" => rec = NoRec
        /\ NoRec.step = "idle" /\ NoRec.links = {}
        /\ mode # "running" => dsStep = "idle"
    BY DEF ChainInv, RestInv, NoRec
  <1>3. dsLast \in Nat /\ Links \subseteq Nat /\ N \in Nat
    BY <1>1, ConstantsAssumption DEF MemType, DiskType, RecType, DSBlocks, Links
  <1>4. ASSUME Links' \subseteq Links, Height' >= Height, Height' \in Int, disk'.flag = disk.flag,
               "flag" \in late => "flag" \in late', dsStep' = "link" => dsStep = "link"
        PROVE  FlagInv'
    <2> SUFFICES ASSUME FlagInv,
                        disk.flag = 0, "flag" \notin late, NEW d \in Links'
                 PROVE  d * N <= Height'
      BY <1>4 DEF FlagInv
    <2>1. d * N <= Height /\ d * N \in Int
      BY <1>3, <1>4 DEF FlagInv
    <2> QED
      BY <1>1, <1>4, <2>1
  <1>5. ASSUME disk' = disk, rec' = NoRec, dsStep' = "idle", late' = late PROVE FlagInv'
    <2>1. Links' \subseteq Links /\ Height' = Height
      BY <1>2, <1>5 DEF Links, Height
    <2> QED
      BY <1>1, <1>4, <1>5, <2>1 DEF MemType
  <1>6. ASSUME disk'.tx = disk.tx, disk'.link = disk.link, disk'.flag = disk.flag, rec' = rec,
               late' = late \/ late' = late \cup {"root"} \/ late' = late \ {"root"},
               dsStep' = "link" => dsStep = "link"
        PROVE  FlagInv'
    <2>1. Links' = Links /\ Height' = Height
      BY <1>6 DEF Links, Height
    <2> QED
      BY <1>1, <1>4, <1>6, <2>1 DEF MemType
  <1>7. CASE NetTxBlock \/ NetDSBlock
    <2>1. UNCHANGED memory /\ disk' = disk /\ late' = late
      BY <1>7 DEF NetTxBlock, NetDSBlock
    <2> QED
      BY <1>6, <2>1 DEF memory
  <1>8. ASSUME NEW n \in Blocks, ProcessFinalBlock(n) PROVE FlagInv'
    <2>1. disk'.tx = disk.tx /\ disk'.link = disk.link /\ disk'.flag = disk.flag
      BY <1>1, <1>8 DEF ProcessFinalBlock, DiskType
    <2> QED
      BY <1>5, <1>6, <1>8, <2>1 DEF ProcessFinalBlock, Rejoin
  <1>9. ASSUME NEW n \in Blocks, WriteStateToDisk(n) PROVE FlagInv'
    <2>1. CASE writer[n] = "move"
      <3>1. disk'.tx = disk.tx /\ disk'.link = disk.link /\ disk'.flag = disk.flag
        BY <1>1, <1>9, <2>1 DEF WriteStateToDisk, DiskType
      <3> QED
        BY <1>6, <1>9, <2>1, <3>1 DEF WriteStateToDisk
    <2>2. CASE writer[n] = "flag" /\ dsLast # DSOf(n)
      <3>1. "flag" \in late'
        BY <1>9, <2>2 DEF WriteStateToDisk
      <3> QED
        BY <3>1 DEF FlagInv
    <2>3. CASE writer[n] = "flag" /\ dsLast = DSOf(n)
      <3>1. Vacuous(n) /\ n < Height /\ mode = "running"
        BY <1>9, <2>3 DEF DSInv, WriteStateToDisk
      <3>2. DSOf(n) * N = n + 1 /\ n \in Nat
        BY <3>1, VacuousFacts
      <3>3. /\ disk'.tx = disk.tx /\ disk'.link = disk.link /\ rec' = rec /\ rec = NoRec
            /\ dsStep' = dsStep
        BY <1>1, <1>2, <1>9, <2>3, <3>1 DEF WriteStateToDisk, DiskType
      <3>4. Links' = disk.link /\ Height' = Height
        BY <1>2, <3>3 DEF Links, Height
      <3>5. dsStep # "link"
        <4>1. SUFFICES ASSUME dsStep = "link" PROVE FALSE
          OBVIOUS
        <4>2. (dsLast - 1) * N = Height
          BY <3>1, <4>1 DEF DSInv, ChainInv, RunInv
        <4>3. dsLast * N = n + 1 /\ n + 1 <= Height
          BY <1>1, <2>3, <3>1, <3>2
        <4> QED
          BY <1>1, <1>3, <4>2, <4>3, ConstantsAssumption
      <3>6. \A d \in disk.link : d * N <= Height
        <4> TAKE d \in disk.link
        <4>1. d <= dsLast /\ d \in Nat
          BY <1>3, <3>1 DEF LinkInv, Links
        <4>2. d * N <= dsLast * N
          BY <1>3, <4>1
        <4>3. d * N \in Int /\ dsLast * N \in Int
          BY <1>3, <4>1
        <4> QED
          BY <1>1, <2>3, <3>1, <3>2, <4>2, <4>3
      <3> QED
        BY <3>3, <3>4, <3>5, <3>6 DEF FlagInv
    <2> QED
      BY <1>9, <2>1, <2>2, <2>3 DEF WriteStateToDisk
  <1>10. CASE StoreFinalBlock
    <2>1. mode = "running" /\ epoch = Height /\ rec = NoRec
      BY <1>2, <1>10 DEF StoreFinalBlock, ChainInv, RunInv
    <2>2. CASE Rejoin /\ disk' = disk
      BY <1>5, <1>10, <2>2 DEF Rejoin, StoreFinalBlock
    <2>3. CASE UNCHANGED <<mode, dsLast, committee, dsStep, rec>>
      <3>1. disk'.link = disk.link /\ disk'.flag = disk.flag
        BY <1>1, <1>10 DEF StoreFinalBlock, DiskType
      <3>2. Links' = Links
        BY <2>3, <3>1 DEF Links
      <3>3. epoch' \in {epoch, epoch + 1}
        BY <1>10 DEF StoreFinalBlock, Rejoin
      <3>4. Height' = epoch'
        BY <2>1, <2>3 DEF ChainInv, RunInv
      <3> QED
        BY <1>1, <1>4, <1>10, <2>1, <2>3, <3>1, <3>2, <3>3, <3>4 DEF StoreFinalBlock, MemType
    <2> QED
      BY <1>10, <2>2, <2>3 DEF StoreFinalBlock
  <1>11. CASE ProcessDSBlock
    BY <1>6, <1>11 DEF ProcessDSBlock
  <1>12. CASE DSBlockStep
    <2>1. disk'.tx = disk.tx /\ rec' = rec /\ mode = "running" /\ rec = NoRec
      BY <1>1, <1>2, <1>12 DEF DSBlockStep, DSWrite, MemType, DSSteps, DiskType
    <2>2. CASE dsStep = "flag"
      <3>1. CASE disk'.flag = 1
        BY <3>1 DEF FlagInv
      <3>2. CASE disk'.flag # 1
        <4>1. /\ disk'.link = disk.link /\ disk'.flag = disk.flag
              /\ late' = late /\ dsStep' = "reset"
          BY <1>1, <1>12, <2>2, <3>2 DEF DSBlockStep, DSWrite, DSFailure, DiskType
        <4> QED
          BY <1>6, <2>1, <4>1
      <3> QED
        BY <3>1, <3>2
    <2>3. CASE dsStep = "link"
      <3>1. disk'.flag = disk.flag /\ late' = late
        BY <1>1, <1>12, <2>3 DEF DSBlockStep, DSWrite, DiskType
      <3> QED
        BY <2>3, <3>1 DEF FlagInv
    <2>4. CASE dsStep \notin {"flag", "link"}
      <3>1. /\ disk'.link = disk.link /\ disk'.flag = disk.flag
            /\ late' = late /\ dsStep' # "link"
        BY <1>1, <1>12, <2>4 DEF DSBlockStep, DSWrite, DSFailure, NextDSStep, DiskType,
                                 MemType, DSSteps
      <3> QED
        BY <1>6, <2>1, <3>1
    <2> QED
      BY <2>2, <2>3, <2>4
  <1>13. CASE Crash
    BY <1>5, <1>13 DEF Crash
  <1>14. ASSUME Restart \/ Recover, disk'.tx = disk.tx, disk'.flag = disk.flag,
                Links' \subseteq Links
         PROVE  FlagInv'
    <2>1. Height' = Height
      BY <1>14 DEF Height
    <2> QED
      BY <1>1, <1>4, <1>14, <2>1, RecoverFrame DEF MemType
  <1>15. CASE Restart
    <2>1. disk' = disk /\ rec'.links = rec.links
      BY <1>1, <1>15 DEF Restart, GoTo, RecType
    <2> QED
      BY <1>14, <1>15, <2>1 DEF Links
  <1>16. CASE RetrieveBlockLink
    <2>1. disk'.tx = disk.tx /\ disk'.flag = disk.flag /\ disk'.link = {}
          /\ rec'.links = disk.link
      BY <1>1, <1>16 DEF RetrieveBlockLink, RecStep, RecType, DiskType
    <2> QED
      BY <1>14, <1>16, <2>1 DEF Links, Recover
  <1>17. CASE AddBlockLink
    <2>1. /\ disk'.tx = disk.tx /\ disk'.flag = disk.flag /\ rec'.links = rec.links
          /\ disk'.link \subseteq disk.link \cup rec.links
      <3>1. rec.links \ disk.link # {} => Min(rec.links \ disk.link) \in rec.links
        BY <1>3, MinFacts DEF Links
      <3> QED
        BY <1>1, <1>17, <3>1 DEF AddBlockLink, RecStep, GoTo, RecType, DiskType
    <2> QED
      BY <1>14, <1>17, <2>1 DEF Links, Recover
  <1>18. CASE RetrieveStates
    <2>1. disk' = disk /\ rec'.links = rec.links
      BY <1>1, <1>18 DEF RetrieveStates, RecStep, RecType
    <2> QED
      BY <1>14, <1>18, <2>1 DEF Links, Recover
  <1>19. ASSUME Fail, rec' = NoRec PROVE FlagInv'
    <2>1. Links' = {} /\ dsStep' = "idle"
      BY <1>2, <1>19 DEF Fail, Empty, Links, ChainInv, RestInv
    <2> QED
      BY <2>1 DEF FlagInv
  <1>20. CASE RetrieveTxBlocks
    <2>1. CASE disk.tx = {}
      BY <1>19, <1>20, <2>1 DEF RetrieveTxBlocks, RecStep
    <2>2. CASE disk.tx # {}
      <3>1. /\ disk'.tx = disk.tx /\ disk'.flag = disk.flag /\ disk'.link = disk.link
            /\ rec'.links = rec.links
        BY <1>1, <1>20, <2>2 DEF RetrieveTxBlocks, RecStep, RecType, DiskType
      <3> QED
        BY <1>14, <1>20, <3>1 DEF Links, Recover
    <2> QED
      BY <2>1, <2>2
  <1>21. CASE LaggingTooMuch \/ NoOfflineLookups
    BY <1>19, <1>21 DEF LaggingTooMuch, NoOfflineLookups, RecStep
  <1>22. CASE TrimTxBlocks
    <2>1. /\ disk'.flag = disk.flag /\ disk'.link = disk.link /\ rec'.links = rec.links
          /\ rec.step = "trim" /\ late' = late /\ dsStep' = "idle"
      BY <1>1, <1>2, <1>22 DEF TrimTxBlocks, RecStep, RecType, DiskType
    <2>2. CASE rec.extra = {}
      <3>1. disk' = disk
        BY <1>22, <2>2 DEF TrimTxBlocks
      <3> QED
        BY <1>14, <1>22, <2>1, <3>1 DEF Links, Recover
    <2>3. CASE rec.extra # {}
      <3>1. PICK q \in 0 .. MaxBlock + 1 : /\ q * N <= Height /\ Height < q * N + N
                                           /\ rec.extra = q * N .. Height - 1
        BY <2>1 DEF ChainInv, ExtraInv
      <3>2. PICK p \in Nat : p = q * N
        BY <1>3, ConstantsAssumption
      <3>3. p <= Height - 1 /\ Max(rec.extra) = Height - 1
        BY <1>1, <2>3, <3>1, <3>2, MaxInterval
      <3>4. disk'.tx = disk.tx \ {Height - 1}
        BY <1>1, <1>22, <2>3, <3>3 DEF TrimTxBlocks, DiskType
      <3>5. disk'.tx = 0 .. (Height - 1) - 1
        <4>1. disk.tx = 0 .. Height - 1
          BY DEF ChainInv, Contiguous
        <4> QED
          BY <1>1, <3>3, <3>4, <4>1
      <3>6. Height' = Height - 1
        BY <1>1, <3>3, <3>5, HeightFacts DEF Height
      <3>7. SUFFICES ASSUME disk.flag = 0, "flag" \notin late, NEW d \in Links
                     PROVE  d * N <= Height'
        BY <2>1 DEF FlagInv, Links
      <3>8. d \in Nat /\ d * N <= Height
        BY <1>3, <3>7 DEF FlagInv
      <3>9. d * N <= p
        BY <1>1, <3>1, <3>2, <3>8, MultipleFacts, ConstantsAssumption
      <3> QED
        BY <1>1, <1>3, <3>2, <3>3, <3>6, <3>8, <3>9
    <2> QED
      BY <2>2, <2>3
  <1>23. CASE ApplyExtraDeltas \/ ProcessSetStateDeltasFromSeed
    <2>1. /\ disk'.flag = disk.flag /\ disk'.link = disk.link /\ rec'.links = rec.links
          /\ disk'.tx = disk.tx
      BY <1>1, <1>23 DEF ApplyExtraDeltas, ProcessSetStateDeltasFromSeed, RecStep, RecType,
                         DiskType
    <2> QED
      BY <1>14, <1>23, <2>1 DEF Links, Recover, FetchReply
  <1>24. \A c : Notified(c).links = rec.links
    BY <1>1 DEF Notified, RecType
  <1>25. CASE NoBlocksFromSeed \/ NoDeltasFromSeed \/ ProcessSetStateDeltaFromSeed
    <2>1. disk' = disk /\ rec'.links = rec.links
      BY <1>1, <1>24, <1>25 DEF NoBlocksFromSeed, NoDeltasFromSeed, RecStep, GoTo, RecType,
                                ProcessSetStateDeltaFromSeed
    <2> QED
      BY <1>14, <1>25, <2>1 DEF Links, Recover, FetchReply
  <1>26. CASE CommitTxBlocks
    <2>1. /\ disk'.flag = disk.flag /\ disk'.link = disk.link /\ rec'.links = rec.links
          /\ late' = late /\ dsStep' = dsStep /\ rec.step = "commit" /\ last' = rec.high
      BY <1>1, <1>24, <1>26 DEF CommitTxBlocks, RecStep, DiskType
    <2>2. rec'.step \in {"lagging", "delta", "validate"}
      BY <1>1, <1>26 DEF CommitTxBlocks, RecStep, Notified, RecType
    <2>3. last = Height - 1 /\ rec.high > last /\ last' = Height' - 1 /\ rec.high \in Int
      BY <1>1, <2>1, <2>2, ConstantsAssumption
         DEF ChainInv, FetchInv, ChainSteps, RecType, Blocks, None
    <2>4. Height' >= Height /\ Height' \in Int
      BY <1>1, <2>1, <2>3, TypeParts2, HeightType DEF Height, DiskType
    <2> QED
      BY <1>1, <1>4, <2>1, <2>4 DEF Links, MemType
  <1>27. CASE FinishRecovery
    <2>1. CASE Fail
      BY <1>19, <1>27, <2>1 DEF FinishRecovery
    <2>2. CASE disk' = disk
      BY <1>2, <1>5, <1>27, <2>2 DEF FinishRecovery
    <2> QED
      BY <1>27, <2>1, <2>2 DEF FinishRecovery
  <1> QED
    BY <1>7, <1>8, <1>9, <1>10, <1>11, <1>12, <1>13, <1>15, <1>16, <1>17, <1>18, <1>20,
       <1>21, <1>22, <1>23, <1>25, <1>26, <1>27 DEF Next, Recover, FetchReply

\* The committee and the newest DS block, in memory and on disk
LEMMA DirInvStep ==
    ASSUME TypeOK, TypeOK', ChainInv, ChainInv', DSInv, LinkInv, DirInv, Next
    PROVE  DirInv'
  <1>1. MemType /\ rec \in RecType /\ disk \in DiskType /\ Height \in Nat /\ Height' \in Nat
    BY TypeParts, TypeParts2, HeightType DEF Height, DiskType
  <1>2. /\ mode = "recovering" <=> rec.step # "idle"
        /\ mode # "recovering" => rec = NoRec
        /\ NoRec.step = "idle" /\ NoRec.links = {}
        /\ mode # "running" => dsStep = "idle"
        /\ mode' # "running" => dsStep' = "idle"
    BY DEF ChainInv, RestInv, NoRec
  <1>3. dsLast \in Nat /\ Links \subseteq Nat /\ N \in Nat /\ disk.link \subseteq Nat /\ DSBlocks \subseteq Nat
    BY <1>1, ConstantsAssumption DEF MemType, DiskType, RecType, DSBlocks, Links
  <1>4. ASSUME mode' = "rejoin" PROVE DirInv'
    BY <1>4 DEF DirInv
  <1>5. ASSUME mode = "running", mode' = "running", UNCHANGED <<dsLast, committee, torn>>,
               disk'.link = disk.link, disk'.committee = disk.committee, rec' = rec,
               \/ dsStep' = dsStep
               \/ /\ dsStep \in {"idle", "shards", "dsblock"} /\ committee = dsLast
                  /\ dsStep' \in {"idle", "shards", "dsblock"}
               \/ dsStep = "flag" /\ dsStep' = "link",
               \/ Height' = Height
               \/ Height' <= dsLast * N /\ dsStep \in {"idle", "committee"},
               last' = last \/ last' < dsLast * N
        PROVE  DirInv'
    <2>1. Links' = Links /\ rec'.step = "idle"
      BY <1>2, <1>5 DEF Links
    <2>2. ASSUME "links" \notin torn PROVE \E d \in DSBlocks : Newest(d)'
      <3>1. PICK d \in DSBlocks : Newest(d)
        BY <1>5, <2>2 DEF DirInv
      <3>2. d \in Links' /\ \A e \in Links' : e <= d
        BY <2>1, <3>1 DEF Newest
      <3>3. Height' <= d * N
        BY <1>5, <3>1 DEF Newest
      <3>4. d = IF dsStep' \in {"flag", "link"} THEN dsLast - 1 ELSE dsLast
        BY <1>5, <3>1 DEF Newest
      <3>5. "committee" \notin torn =>
               disk.committee = IF dsStep' \in {"reset", "committee"} THEN d - 1 ELSE d
        BY <1>5, <3>1 DEF Newest
      <3> QED
        BY <1>5, <2>1, <3>2, <3>3, <3>4, <3>5 DEF Newest
    <2>3. "links" \notin torn => last' < dsLast * N
      BY <1>5 DEF DirInv
    <2>4. dsStep' = "idle" /\ torn = {} => committee = dsLast
      BY <1>5 DEF DirInv
    <2> QED
      BY <1>5, <2>2, <2>3, <2>4 DEF DirInv
  <1>6. CASE NetTxBlock \/ NetDSBlock
    <2>1. UNCHANGED memory /\ disk' = disk /\ torn' = torn
      BY <1>6 DEF NetTxBlock, NetDSBlock
    <2>2. \A d : Newest(d)' <=> Newest(d)
      BY <2>1 DEF Newest, Links, Height, memory
    <2> QED
      BY <2>1, <2>2 DEF DirInv, memory
  <1>7. ASSUME NEW n \in Blocks, ProcessFinalBlock(n) PROVE DirInv'
    <2>1. disk'.tx = disk.tx /\ disk'.link = disk.link /\ disk'.committee = disk.committee
      BY <1>1, <1>7 DEF ProcessFinalBlock, DiskType
    <2>2. Height' = Height
      BY <2>1 DEF Height
    <2> QED
      <3>1. \/ mode' = "rejoin"
            \/ /\ mode = "running" /\ mode' = "running"
               /\ UNCHANGED <<dsLast, committee, torn, rec, dsStep, last>>
        BY <1>7 DEF ProcessFinalBlock, Rejoin
      <3> QED
        BY <1>4, <1>5, <2>1, <2>2, <3>1
  <1>8. ASSUME NEW n \in Blocks, WriteStateToDisk(n) PROVE DirInv'
    <2>1. disk'.tx = disk.tx /\ disk'.link = disk.link /\ disk'.committee = disk.committee
      BY <1>1, <1>8 DEF WriteStateToDisk, DiskType
    <2>2. Height' = Height
      BY <2>1 DEF Height
    <2> QED
      <3>1. /\ mode = "running" /\ mode' = "running"
            /\ UNCHANGED <<dsLast, committee, torn, rec, dsStep, last>>
        BY <1>8 DEF WriteStateToDisk
      <3> QED
        BY <1>5, <2>1, <2>2, <3>1
  <1>9. CASE StoreFinalBlock
    <2>1. /\ mode = "running" /\ epoch = Height /\ fb = epoch /\ fb < dsLast * N
          /\ dsStep \in {"idle", "committee"} /\ rec = NoRec
      BY <1>2, <1>9 DEF StoreFinalBlock, ChainInv, RunInv
    <2>2. CASE Rejoin
      BY <1>4, <2>2 DEF Rejoin
    <2>3. CASE /\ UNCHANGED <<mode, dsLast, committee, dsStep, rec>>
               /\ last' \in {last, fb} /\ epoch' \in {epoch, epoch + 1}
      <3>1. disk'.link = disk.link /\ disk'.committee = disk.committee
        BY <1>1, <1>9 DEF StoreFinalBlock, DiskType
      <3>2. Height' = epoch'
        BY <2>1, <2>3 DEF ChainInv, RunInv
      <3>3. Height' = Height \/ Height' <= dsLast * N
        <4>1. dsLast * N \in Int
          BY <1>3
        <4> QED
          BY <1>1, <2>1, <2>3, <3>2, <4>1
      <3> QED
        BY <1>5, <1>9, <2>1, <2>3, <3>1, <3>3 DEF StoreFinalBlock
    <2> QED
      BY <1>9, <2>2, <2>3 DEF StoreFinalBlock
  <1>10. CASE ProcessDSBlock
    <2>1. Height' = Height
      BY <1>10 DEF ProcessDSBlock, Height
    <2> QED
      BY <1>5, <1>10, <2>1 DEF ProcessDSBlock
  <1>11. CASE Crash
    <2>1. /\ mode' = "down" /\ disk' = disk /\ rec' = NoRec /\ Height' = Height
          /\ dsStep' = "idle"
      BY <1>11 DEF Crash, Height
    <2>2. ASSUME "links" \notin torn' PROVE \E d \in DSBlocks : Newest(d)'
      <3>1. "links" \notin torn /\ rec.step # "relink" /\ mode # "rejoin"
        BY <1>11, <2>2 DEF Crash
      <3>2. PICK d \in DSBlocks : Newest(d)
        BY <3>1 DEF DirInv
      <3>3. Links' = Links
        <4>1. rec.links = {} \/ rec.links = disk.link
          BY <1>2, <3>1 DEF LinkInv
        <4> QED
          BY <1>2, <2>1, <4>1 DEF Links
      <3>4. "committee" \notin torn' => disk.committee = d
        <4>1. "committee" \notin torn' => "committee" \notin torn /\ dsStep \notin {"reset", "committee"}
          BY <1>11 DEF Crash
        <4> QED
          BY <3>2, <4>1 DEF Newest
      <3> QED
        BY <1>2, <2>1, <3>2, <3>3, <3>4 DEF Newest
    <2> QED
      BY <2>1, <2>2 DEF DirInv
  <1>12. ASSUME mode \in {"down", "recovering"}, mode' = "recovering",
                UNCHANGED <<torn, dsStep>>,
                disk'.committee = disk.committee, committee' = disk.committee,
                Links' = Links, Height' <= Height \/ Height' <= dsLast * N,
                rec'.step \notin {"idle", "links", "relink"} =>
                    rec.step \notin {"idle", "links", "relink"} /\ dsLast' = dsLast,
                Height' <= Height \/ rec.step \notin {"idle", "links", "relink"}
         PROVE  DirInv'
    <2>1. dsStep = "idle" /\ dsStep' = "idle"
      BY <1>2, <1>12
    <2>2. ASSUME "links" \notin torn PROVE \E d \in DSBlocks : Newest(d)'
      <3>1. PICK d \in DSBlocks : Newest(d)
        BY <1>12, <2>2 DEF DirInv
      <3>2. Height' <= d * N
        <4>1. Height <= d * N /\ d * N \in Int /\ dsLast * N \in Int
          BY <1>3, <3>1 DEF Newest
        <4>2. rec.step \notin {"idle", "links", "relink"} => d = dsLast
          BY <3>1 DEF Newest
        <4> QED
          BY <1>1, <1>12, <4>1, <4>2
      <3> QED
        BY <1>12, <2>1, <3>1, <3>2 DEF Newest
    <2> QED
      BY <1>12, <2>2 DEF DirInv
  <1>13. CASE Restart
    <2>1. disk' = disk /\ rec'.links = rec.links /\ Height' = Height /\ rec'.step = "links"
      BY <1>1, <1>13 DEF Restart, GoTo, RecType, Height
    <2>2. Links' = Links
      BY <2>1 DEF Links
    <2> QED
      BY <1>1, <1>12, <1>13, <2>1, <2>2 DEF Restart
  <1>14. mode = "recovering" => committee = disk.committee
    BY DEF DirInv
  <1>15. CASE RetrieveBlockLink
    <2>1. /\ disk'.tx = disk.tx /\ disk'.committee = disk.committee /\ disk'.link = {}
          /\ rec'.links = disk.link /\ rec'.step = "relink"
      BY <1>1, <1>15 DEF RetrieveBlockLink, RecStep, RecType, DiskType
    <2>2. Links' = Links /\ Height' = Height
      BY <1>15, <2>1 DEF Links, Height, LinkInv, RetrieveBlockLink, RecStep
    <2> QED
      BY <1>1, <1>12, <1>14, <1>15, <2>1, <2>2 DEF RetrieveBlockLink, RecStep
  <1>16. CASE AddBlockLink
    <2>1. /\ disk'.tx = disk.tx /\ disk'.committee = disk.committee
          /\ rec'.links = rec.links /\ rec.step = "relink"
          /\ mode = "recovering" /\ mode' = "recovering"
          /\ UNCHANGED <<torn, dsStep, committee>>
      BY <1>1, <1>16 DEF AddBlockLink, RecStep, GoTo, RecType, DiskType
    <2>2. disk.link \subseteq rec.links /\ (disk.link # {} => dsLast \in disk.link)
          /\ \A e \in disk.link : e <= dsLast
      BY <2>1 DEF LinkInv
    <2>3. Height' = Height
      BY <2>1 DEF Height
    <2>4. CASE rec.links \ disk.link # {}
      <3>1. Min(rec.links \ disk.link) \in rec.links
        BY <1>3, <2>4, MinFacts DEF Links
      <3>2. disk'.link \subseteq rec.links /\ rec' = rec
        BY <1>1, <1>16, <2>2, <2>4, <3>1 DEF AddBlockLink, RecStep, DiskType
      <3>3. Links' = Links
        BY <2>1, <2>2, <3>2 DEF Links
      <3> QED
        BY <1>1, <1>12, <1>14, <2>1, <2>3, <3>2, <3>3
    <2>5. CASE rec.links \ disk.link = {}
      <3>1. disk' = disk /\ dsLast' = dsLast /\ rec'.step = "states"
        BY <1>1, <1>16, <2>5 DEF AddBlockLink, RecStep, GoTo, RecType
      <3>2. Links' = Links /\ Links = disk.link
        BY <2>1, <2>2, <2>5, <3>1 DEF Links
      <3>3. ASSUME "links" \notin torn PROVE \E d \in DSBlocks : Newest(d)'
        <4>1. PICK d \in DSBlocks : Newest(d)
          BY <2>1, <3>3 DEF DirInv
        <4>2. dsLast \in disk.link /\ d \in disk.link
          BY <2>2, <3>2, <4>1 DEF Newest
        <4>3. d = dsLast
          BY <1>3, <2>2, <3>2, <4>1, <4>2 DEF Newest
        <4> QED
          BY <1>2, <2>1, <2>3, <3>1, <3>2, <4>1, <4>3 DEF Newest
      <3> QED
        BY <1>14, <2>1, <3>3 DEF DirInv
    <2> QED
      BY <2>4, <2>5
  <1>17. ASSUME mode = "recovering", mode' = "recovering",
                UNCHANGED <<torn, dsStep, dsLast, committee>>,
                disk'.committee = disk.committee, disk'.link = disk.link,
                rec'.links = rec.links, Height' <= Height \/ Height' <= dsLast * N,
                rec.step \notin {"idle", "links", "relink"}
         PROVE  DirInv'
    <2>1. Links' = Links
      BY <1>17 DEF Links
    <2> QED
      BY <1>12, <1>14, <1>17, <2>1
  <1>18. CASE RetrieveStates
    <2>1. disk' = disk /\ rec'.links = rec.links /\ Height' = Height
      BY <1>1, <1>18 DEF RetrieveStates, RecStep, RecType, Height
    <2> QED
      BY <1>1, <1>17, <1>18, <2>1 DEF RetrieveStates, RecStep
  <1>19. CASE RetrieveTxBlocks
    <2>1. CASE disk.tx = {}
      BY <1>4, <1>19, <2>1 DEF RetrieveTxBlocks, Fail
    <2>2. CASE disk.tx # {}
      <3>1. /\ disk'.tx = disk.tx /\ disk'.committee = disk.committee /\ disk'.link = disk.link
            /\ rec'.links = rec.links
        BY <1>1, <1>19, <2>2 DEF RetrieveTxBlocks, RecStep, RecType, DiskType
      <3>2. Height' = Height
        BY <3>1 DEF Height
      <3> QED
        BY <1>1, <1>17, <1>19, <2>2, <3>1, <3>2 DEF RetrieveTxBlocks, RecStep
    <2> QED
      BY <2>1, <2>2
  <1>20. CASE LaggingTooMuch \/ NoOfflineLookups
    BY <1>4, <1>20 DEF LaggingTooMuch, NoOfflineLookups, Fail
  <1>21. CASE TrimTxBlocks \/ ApplyExtraDeltas \/ ProcessSetStateDeltasFromSeed
    <2>1. /\ disk'.committee = disk.committee /\ disk'.link = disk.link /\ rec'.links = rec.links
          /\ disk'.tx \subseteq disk.tx
      <3>1. CASE TrimTxBlocks
        <4>1. CASE rec.extra = {}
          BY <1>1, <3>1, <4>1 DEF TrimTxBlocks, RecStep, RecType
        <4>2. CASE rec.extra # {}
          <5>1. PICK x : x = Max(rec.extra)
            OBVIOUS
          <5>2. /\ rec' = [rec EXCEPT !.extra = @ \ {x}]
                /\ disk' = [disk EXCEPT !.tx = @ \ {x}]
            BY <3>1, <4>2, <5>1 DEF TrimTxBlocks, RecStep
          <5> QED
            BY <1>1, <5>2 DEF RecType, DiskType
        <4> QED
          BY <4>1, <4>2
      <3>2. CASE ApplyExtraDeltas
        BY <1>1, <3>2 DEF ApplyExtraDeltas, RecStep, RecType, DiskType
      <3>3. CASE ProcessSetStateDeltasFromSeed
        BY <1>1, <3>3 DEF ProcessSetStateDeltasFromSeed, RecStep, RecType, DiskType
      <3> QED
        BY <1>21, <3>1, <3>2, <3>3
    <2>2. Height' <= Height
      BY <1>1, <2>1, HeightType, FS_Subset DEF Height, DiskType
    <2> QED
      BY <1>17, <1>21, <2>1, <2>2 DEF TrimTxBlocks, ApplyExtraDeltas,
                                      ProcessSetStateDeltasFromSeed, RecStep
  <1>22. \A c : Notified(c).links = rec.links
    BY <1>1 DEF Notified, RecType
  <1>23. CASE NoBlocksFromSeed \/ NoDeltasFromSeed \/ ProcessSetStateDeltaFromSeed
    <2>1. disk' = disk /\ rec'.links = rec.links /\ Height' = Height
      BY <1>1, <1>22, <1>23 DEF NoBlocksFromSeed, NoDeltasFromSeed, RecStep, GoTo, RecType,
                                ProcessSetStateDeltaFromSeed, Height
    <2> QED
      BY <1>1, <1>17, <1>23, <2>1
         DEF NoBlocksFromSeed, NoDeltasFromSeed, RecStep, ProcessSetStateDeltaFromSeed
  <1>24. CASE CommitTxBlocks
    <2>1. /\ disk'.committee = disk.committee /\ disk'.link = disk.link /\ rec'.links = rec.links
          /\ rec.step = "commit" /\ last' = rec.high
      BY <1>1, <1>22, <1>24 DEF CommitTxBlocks, RecStep, DiskType
    <2>2. rec'.step \in {"lagging", "delta", "validate"}
      BY <1>1, <1>24 DEF CommitTxBlocks, RecStep, Notified, RecType
    <2>3. last' = Height' - 1 /\ rec.high < dsLast * N
      BY <2>1, <2>2 DEF ChainInv, FetchInv, ChainSteps
    <2>4. Height' <= dsLast * N
      <3>1. dsLast * N \in Int
        BY <1>3
      <3> QED
        BY <1>1, <2>1, <2>3, <3>1
    <2> QED
      BY <1>17, <1>24, <2>1, <2>4 DEF CommitTxBlocks, RecStep
  <1>25. CASE FinishRecovery
    <2>1. CASE Fail
      BY <1>4, <2>1 DEF Fail
    <2>2. CASE disk' = disk /\ mode' = "running"
      <3>1. /\ rec.step = "validate" /\ rec' = NoRec /\ UNCHANGED <<torn, dsStep, dsLast,
              committee, last>> /\ mode = "recovering" /\ dsStep = "idle"
        BY <1>2, <1>25, <2>2 DEF FinishRecovery
      <3>2. rec.links = disk.link /\ last = Height - 1 /\ Height' = Height
        BY <2>2, <3>1 DEF LinkInv, ChainInv, FetchInv, ChainSteps, Height
      <3>3. Links' = Links
        BY <1>2, <2>2, <3>1, <3>2 DEF Links
      <3>4. ASSUME "links" \notin torn
            PROVE  /\ Newest(dsLast)' /\ last < dsLast * N
                   /\ "committee" \notin torn => committee = dsLast
        <4>1. PICK d \in DSBlocks : Newest(d)
          BY <3>1, <3>4 DEF DirInv
        <4>2. d = dsLast /\ Height <= dsLast * N
          BY <3>1, <4>1 DEF Newest
        <4>3. dsLast * N \in Int
          BY <1>3
        <4>4. Newest(dsLast)'
          BY <1>2, <2>2, <3>1, <3>2, <3>3, <4>1, <4>2 DEF Newest
        <4>5. "committee" \notin torn => committee = dsLast
          BY <1>14, <3>1, <4>1, <4>2 DEF Newest
        <4> QED
          BY <1>1, <3>2, <4>2, <4>3, <4>4, <4>5
      <3>5. dsLast \in DSBlocks
        BY <1>1 DEF MemType
      <3> QED
        BY <2>2, <3>1, <3>4, <3>5 DEF DirInv
    <2> QED
      BY <1>25, <2>1, <2>2 DEF FinishRecovery
  <1>26. CASE DSBlockStep
    <2>1. /\ disk'.tx = disk.tx /\ rec' = rec /\ rec = NoRec /\ Height' = Height
          /\ mode = "running" /\ mode' = "running" /\ last' = last
      BY <1>1, <1>2, <1>26 DEF DSBlockStep, DSWrite, MemType, DSSteps, DiskType, Height
    <2>2. Links = disk.link /\ Links' = disk'.link /\ rec'.step = "idle"
      BY <1>2, <2>1 DEF Links
    <2>4. "links" \notin torn' => last' < dsLast' * N
      <3>1. dsLast' = dsLast \/ dsLast' = dsLast + 1
        BY <1>3, <1>26 DEF DSBlockStep
      <3>2. dsLast * N <= dsLast' * N /\ dsLast * N \in Int /\ dsLast' * N \in Int
        <4>1. (dsLast + 1) * N = dsLast * N + N /\ dsLast * N \in Int
          BY <1>3
        <4> QED
          BY <1>3, <3>1, <4>1
      <3>3. "links" \in torn => "links" \in torn'
        BY <1>26 DEF DSBlockStep
      <3>4. last \in Int
        BY <1>1, ConstantsAssumption DEF MemType, Blocks, None
      <3> QED
        BY <2>1, <3>2, <3>3, <3>4 DEF DirInv
    <2>5. CASE dsStep = "shards"
      <3>1. /\ disk'.link = disk.link /\ disk'.committee = disk.committee
            /\ dsStep' \in {"idle", "dsblock"} /\ UNCHANGED <<dsLast, committee, torn>>
        BY <1>1, <1>26, <2>5 DEF DSBlockStep, DSWrite, DSFailure, NextDSStep, DiskType
      <3>2. committee = dsLast
        BY <2>5 DEF DSInv
      <3> QED
        BY <1>5, <2>1, <2>5, <3>1, <3>2
    <2>6. CASE dsStep = "dsblock"
      <3>1. /\ disk'.link = disk.link /\ disk'.committee = disk.committee
            /\ dsLast' = dsLast + 1 /\ dsStep' \in {"flag", "reset"}
            /\ (dsStep' = "flag" /\ torn' = torn) \/ "links" \in torn'
        BY <1>1, <1>26, <2>6 DEF DSBlockStep, DSWrite, DSFailure, NextDSStep, DiskType
      <3>2. ASSUME "links" \notin torn' PROVE \E d \in DSBlocks : Newest(d)'
        <4>1. PICK d \in DSBlocks : Newest(d)
          BY <2>1, <3>1, <3>2 DEF DirInv
        <4>2. d = dsLast' - 1
          BY <1>3, <2>1, <2>6, <3>1, <4>1 DEF Newest
        <4> QED
          BY <2>1, <2>2, <2>6, <3>1, <3>2, <4>1, <4>2 DEF Newest
      <3> QED
        BY <2>1, <2>4, <3>1, <3>2 DEF DirInv
    <2>7. CASE dsStep = "flag"
      <3>1. /\ disk'.link = disk.link /\ disk'.committee = disk.committee
            /\ UNCHANGED <<dsLast, committee>>
            /\ dsStep' \in {"link", "reset"}
            /\ (dsStep' = "link" /\ torn' = torn) \/ "links" \in torn'
        BY <1>1, <1>26, <2>7 DEF DSBlockStep, DSWrite, DSFailure, NextDSStep, DiskType
      <3>2. CASE dsStep' = "link" /\ torn' = torn
        BY <1>5, <2>1, <2>7, <3>1, <3>2
      <3>3. CASE "links" \in torn'
        BY <2>1, <3>1, <3>3 DEF DirInv
      <3> QED
        BY <3>1, <3>2, <3>3
    <2>8. CASE dsStep = "link"
      <3>1. /\ disk'.committee = disk.committee /\ dsStep' = "reset"
            /\ UNCHANGED <<dsLast, committee>>
            /\ (disk'.link = disk.link \cup {dsLast} /\ torn' = torn) \/ "links" \in torn'
        BY <1>1, <1>26, <2>8 DEF DSBlockStep, DSWrite, DSFailure, NextDSStep, DiskType
      <3>2. ASSUME "links" \notin torn' PROVE Newest(dsLast)'
        <4>1. PICK d \in DSBlocks : Newest(d)
          BY <2>1, <3>1, <3>2 DEF DirInv
        <4>2. d = dsLast - 1
          BY <2>1, <2>8, <4>1 DEF Newest
        <4>3. \A e \in disk.link : e <= dsLast
          BY <2>1 DEF LinkInv
        <4>4. Height <= d * N /\ d * N <= dsLast * N /\ d * N \in Int /\ dsLast * N \in Int
          BY <1>3, <4>1, <4>2 DEF Newest
        <4>5. Height' <= dsLast * N
          BY <1>1, <2>1, <4>4
        <4>6. \A e \in Links' : e <= dsLast
          BY <1>3, <2>2, <3>1, <3>2, <4>3
        <4>7. "committee" \notin torn' => disk'.committee = dsLast - 1
          BY <2>8, <3>1, <3>2, <4>1, <4>2 DEF Newest
        <4> QED
          BY <2>1, <2>2, <3>1, <3>2, <4>5, <4>6, <4>7 DEF Newest
      <3>3. dsLast \in DSBlocks
        BY <1>1 DEF MemType
      <3> QED
        BY <2>1, <2>4, <3>1, <3>2, <3>3 DEF DirInv
    <2>9. CASE dsStep = "reset"
      <3>1. /\ disk'.link = disk.link /\ disk'.committee = disk.committee /\ dsLast' = dsLast
            /\ dsStep' \in {"committee", "idle"}
            /\ (dsStep' = "committee" /\ torn' = torn) \/ torn' = torn \cup {"committee"}
        BY <1>1, <1>26, <2>9 DEF DSBlockStep, DSWrite, DSFailure, NextDSStep, DiskType
      <3>2. ASSUME "links" \notin torn' PROVE \E d \in DSBlocks : Newest(d)'
        <4>1. PICK d \in DSBlocks : Newest(d)
          BY <2>1, <3>1, <3>2 DEF DirInv
        <4> QED
          BY <2>1, <2>2, <2>9, <3>1, <4>1 DEF Newest
      <3>3. dsStep' = "idle" => torn' # {}
        BY <3>1
      <3> QED
        BY <2>1, <2>4, <3>1, <3>2, <3>3 DEF DirInv
    <2>10. CASE dsStep = "committee"
      <3>1. /\ disk'.link = disk.link /\ UNCHANGED <<dsLast, committee>> /\ dsStep' = "idle"
            /\ \/ disk'.committee = dsLast /\ torn' = torn \ {"committee"}
               \/ torn' = torn \cup {"committee"}
        BY <1>1, <1>26, <2>10 DEF DSBlockStep, DSWrite, DSFailure, NextDSStep, DiskType
      <3>2. ASSUME "links" \notin torn' PROVE \E d \in DSBlocks : Newest(d)'
        <4>1. PICK d \in DSBlocks : Newest(d)
          BY <2>1, <3>1, <3>2 DEF DirInv
        <4>2. d = dsLast
          BY <2>1, <2>10, <4>1 DEF Newest
        <4>3. "committee" \notin torn' => disk'.committee = d
          BY <3>1, <4>2
        <4> QED
          BY <2>1, <2>2, <2>10, <3>1, <4>1, <4>2, <4>3 DEF Newest
      <3>3. committee = dsLast
        BY <2>10 DEF DSInv
      <3> QED
        BY <2>1, <2>4, <3>1, <3>2, <3>3 DEF DirInv
    <2> QED
      BY <1>1, <1>26, <2>5, <2>6, <2>7, <2>8, <2>9, <2>10 DEF MemType, DSSteps, DSBlockStep
  <1> QED
    BY <1>6, <1>7, <1>8, <1>9, <1>10, <1>11, <1>13, <1>15, <1>16, <1>18, <1>19, <1>20,
       <1>21, <1>23, <1>24, <1>25, <1>26 DEF Next, Recover, FetchReply

-----------------------------------------------------------------------------
(* The invariant of the specification *)

\* What the steps of the node, of its crashes and of its recoveries preserve
IInv == TypeOK /\ ChainInv /\ DSInv /\ LinkInv /\ FlagInv /\ DirInv

\* The node of Init has one tx block and its first DS block on disk
LEMMA InitIInv == Init => IInv
  <1> SUFFICES ASSUME Init PROVE IInv
    OBVIOUS
  <1>1. disk.tx = {0} /\ Height = 1 /\ disk.link = {0, 1} /\ disk.flag = 1
        /\ disk.committee = 1
    BY FS_Singleton DEF Init, Height
  <1>2. rec = NoRec /\ rec.step = "idle" /\ rec.links = {} /\ Links = {0, 1}
    BY <1>1 DEF Init, NoRec, Links
  <1>3. MaxBlock \div N \in Nat /\ 0 \in DSBlocks /\ 1 \in DSBlocks /\ 0 \in Blocks
    BY ConstantsAssumption, DivFacts DEF DSBlocks, Blocks
  <1>4. TypeOK
    <2>1. MemType
      BY <1>3, StateTypes, ConstantsAssumption DEF Init, MemType, DSSteps, Blocks
    <2>2. rec \in RecType /\ disk \in DiskType
      BY <1>3, StateTypes DEF Init, NoRec, RecType, DiskType, RecSteps
    <2> QED
      BY <2>1, <2>2, TypeParts
  <1>5. ChainInv
    <2>1. Contiguous /\ RunInv
      BY <1>1 DEF Init, Contiguous, RunInv
    <2>2. RestInv /\ ExtraInv /\ FetchInv
      BY <1>2 DEF Init, RestInv, ExtraInv, FetchInv, ChainSteps
    <2> QED
      BY <2>1, <2>2 DEF ChainInv
  <1>6. DSInv
    BY DEF Init, DSInv
  <1>7. LinkInv /\ FlagInv
    BY <1>1, <1>2 DEF Init, LinkInv, FlagInv
  <1>8. DirInv
    <2>1. 1 * N = N /\ N \in Nat /\ N > 2
      BY ConstantsAssumption
    <2>2. Newest(1)
      BY <1>1, <1>2, <2>1 DEF Init, Newest
    <2> QED
      BY <1>3, <2>1, <2>2 DEF Init, DirInv
  <1> QED
    BY <1>4, <1>5, <1>6, <1>7, <1>8 DEF IInv

\* The parts of the invariant, each preserved with the help of the ones before it
LEMMA StepIInv == IInv /\ [Next]_vars => IInv'
  <1> SUFFICES ASSUME IInv, [Next]_vars PROVE IInv'
    OBVIOUS
  <1>1. CASE Next
    <2>1. TypeOK' /\ ChainInv'
      BY <1>1, TypeStep, ChainStep DEF IInv
    <2>2. DSInv' /\ LinkInv'
      BY <1>1, <2>1, DSInvStep, LinkInvStep DEF IInv
    <2>3. FlagInv'
      BY <1>1, <2>1, FlagInvStep DEF IInv
    <2>4. DirInv'
      BY <1>1, <2>1, DirInvStep DEF IInv
    <2> QED
      BY <2>1, <2>2, <2>3, <2>4 DEF IInv
  <1>2. CASE UNCHANGED vars
    <2>1. TypeOK'
      BY <1>2 DEF vars, memory, IInv, TypeOK
    <2>2. ChainInv'
      BY <1>2 DEF vars, memory, IInv, ChainInv, Contiguous, RunInv, RestInv, ExtraInv,
                  FetchInv, Height
    <2>3. DSInv' /\ LinkInv' /\ FlagInv'
      BY <1>2 DEF vars, memory, IInv, DSInv, LinkInv, FlagInv, Links, Height
    <2>4. \A d : Newest(d)' <=> Newest(d)
      BY <1>2 DEF vars, memory, Newest, Links, Height
    <2>5. DirInv'
      BY <1>2, <2>4 DEF vars, memory, IInv, DirInv
    <2> QED
      BY <2>1, <2>2, <2>3, <2>5 DEF IInv
  <1> QED
    BY <1>1, <1>2

\* The invariant holds in every reachable state of Spec, whatever the network, the
\* length of a DS epoch, and the number of crashes and of failed writes
THEOREM Invariance == Spec => []IInv
  BY InitIInv, StepIInv, PTL DEF Spec

\* Every variable of the node, of its recovery and of its disk keeps its type; in
\* particular recovery never deletes, applies or commits a block out of range
THEOREM TypeCorrect == Spec => []TypeOK
  <1>1. IInv => TypeOK
    BY DEF IInv
  <1> QED
    BY <1>1, Invariance, PTL

-----------------------------------------------------------------------------
(* The properties *)

\* Wherever a crash, a failed write, a trimming or a commit of fetched blocks
\* stops, the tx blocks on disk are 0, 1, ... without a gap
\* (StoreFinalBlock, RetrieveTxBlocks, CommitTxBlocks)
THEOREM DiskChainContiguousHolds == Spec => []DiskChainContiguous
  <1>1. IInv => DiskChainContiguous
    BY DEF IInv, ChainInv, Contiguous, Height, DiskChainContiguous
  <1> QED
    BY <1>1, Invariance, PTL

\* DSINCOMPLETED is set as long as the DS epoch of the last block link has not
\* ended, unless a writeStateToDisk of an earlier DS epoch cleared it late
\* (BlockStorage::PutDSBlock, writeStateToDisk)
THEOREM FlagTellsUnfinishedHolds == Spec => []FlagTellsUnfinished
  <1>1. IInv => FlagTellsUnfinished
    <2> SUFFICES ASSUME IInv, "flag" \notin late, disk.tx # {}, disk.link # {},
                        Max(disk.tx) < Max(disk.link) * N - 1, disk.flag = 0
                 PROVE  FALSE
      <3>1. IInv => disk.flag \in {0, 1}
        BY TypeParts DEF IInv, DiskType
      <3> QED
        BY <3>1 DEF FlagTellsUnfinished
    <2>1. disk \in DiskType /\ Height \in Nat /\ disk.tx = 0 .. Height - 1
      BY TypeParts, HeightType DEF IInv, Height, DiskType, ChainInv, Contiguous
    <2>2. Max(disk.tx) = Height - 1
      BY <2>1, ExtraFacts
    <2>3. PICK m \in Nat : m = Max(disk.link) /\ m \in disk.link
      <3>1. (MaxBlock \div N) + 1 \in Nat
        BY ConstantsAssumption, DivFacts
      <3>2. PICK c \in Nat : disk.link \subseteq 0 .. c
        BY <2>1, <3>1 DEF DiskType, DSBlocks
      <3>3. Max(disk.link) \in disk.link
        BY <3>2, GreatestElement
      <3> QED
        BY <3>2, <3>3
    <2>4. m * N <= Height
      BY <2>3 DEF IInv, FlagInv, Links
    <2>5. m * N \in Int
      BY <2>3, ConstantsAssumption
    <2> QED
      BY <2>1, <2>2, <2>3, <2>4, <2>5
  <1> QED
    BY <1>1, Invariance, PTL

\* A running node has the committee of its last DS block and the DS block of its
\* last tx block, unless a fault hit the writes of a DS block's handler or the
\* rewriting of the block links (ProcessVCDSBlocksMessage, RetrieveBlockLink)
THEOREM DirectoryCurrentHolds == Spec => []DirectoryCurrent
  <1>1. IInv => DirectoryCurrent
    <2> SUFFICES ASSUME IInv, mode = "running", dsStep = "idle", torn = {}
                 PROVE  committee = dsLast /\ dsLast >= DSOf(last)
      BY DEF DirectoryCurrent
    <2>1. committee = dsLast /\ last < dsLast * N
      BY DEF IInv, DirInv
    <2>2. last \in Nat /\ dsLast \in Nat
      BY ConstantsAssumption DEF IInv, TypeOK, ChainInv, RunInv, DSBlocks, Blocks, None
    <2>3. DSOf(last) <= dsLast
      BY <2>1, <2>2, DSOfFacts
    <2>4. DSOf(last) \in Int
      BY <2>2, DivFacts DEF DSOf
    <2> QED
      BY <2>1, <2>2, <2>3, <2>4
  <1> QED
    BY <1>1, Invariance, PTL

\* A block becomes the last one of the chain in memory, and a recovery ends with
\* success, only when the accounts are the ones of that block; and the recovered
\* chain is the one on disk (CheckStateRoot, ValidateStates)
THEOREM BlockMatchesStateHolds == Spec => BlockMatchesState
  <1> DEFINE A == (mode' = "running" /\ (last' # last \/ mode = "recovering")) =>
                     /\ state' = Prefix(last')
                     /\ mode = "recovering" => last' = Max(disk'.tx)
  <1>1. IInv /\ [Next]_vars => [A]_vars
    <2> SUFFICES ASSUME IInv, Next, mode' = "running", last' # last \/ mode = "recovering"
                 PROVE  /\ state' = Prefix(last')
                        /\ mode = "recovering" => last' = Max(disk'.tx)
      OBVIOUS
    <2>1. mode = "recovering" <=> rec.step # "idle"
      BY DEF IInv, ChainInv, RestInv
    <2>2. CASE FinishRecovery
      <3>1. /\ ValidateStates /\ UNCHANGED <<disk, last, state>> /\ rec.step = "validate"
        BY <2>2 DEF FinishRecovery, Fail
      <3>2. last = Height - 1 /\ last # None /\ state = Prefix(last)
        BY <3>1 DEF ValidateStates, IInv, ChainInv, FetchInv, ChainSteps
      <3>3. Height \in Nat /\ Height > 0 /\ disk.tx = 0 .. Height - 1
        BY <3>2, TypeParts, HeightType
           DEF IInv, Height, DiskType, ChainInv, Contiguous, None
      <3>4. last = Max(disk.tx)
        BY <3>2, <3>3, ExtraFacts
      <3> QED
        BY <3>1, <3>2, <3>4
    <2>3. CASE StoreFinalBlock
      BY <2>3 DEF StoreFinalBlock, CheckStateRoot, Rejoin
    <2>4. CASE NetTxBlock \/ NetDSBlock
      <3>1. UNCHANGED <<mode, last>> /\ mode = "running"
        BY <2>4 DEF NetTxBlock, NetDSBlock, memory
      <3> QED
        BY <3>1
    <2>5. CASE \E n \in Blocks : ProcessFinalBlock(n) \/ WriteStateToDisk(n)
      BY <2>5 DEF ProcessFinalBlock, WriteStateToDisk, Rejoin
    <2>6. CASE ProcessDSBlock \/ DSBlockStep \/ Crash \/ Restart
      BY <2>6 DEF ProcessDSBlock, DSBlockStep, Crash, Restart
    <2>7. CASE Recover /\ ~ FinishRecovery
      BY <2>7 DEF Recover, RetrieveBlockLink, AddBlockLink, RetrieveStates,
           RetrieveTxBlocks, TrimTxBlocks, ApplyExtraDeltas, FetchReply, NoBlocksFromSeed,
           ProcessSetStateDeltasFromSeed, NoDeltasFromSeed, CommitTxBlocks,
           ProcessSetStateDeltaFromSeed, LaggingTooMuch, NoOfflineLookups, RecStep, Fail
    <2> QED
      BY <2>2, <2>3, <2>4, <2>5, <2>6, <2>7 DEF Next
  <1> QED
    BY <1>1, Invariance, PTL DEF Spec, BlockMatchesState

\* A recovery that goes on deletes only blocks of the DS epoch that has not ended
\* (Retriever::RetrieveTxBlocks)
THEOREM FinishedEpochsKeptHolds == Spec => FinishedEpochsKept
  <1> DEFINE A == \A n \in disk.tx \ disk'.tx : mode' = "rejoin" \/ n \in Extra(disk.tx)
  <1>1. IInv /\ [Next]_vars => [A]_vars
    <2> SUFFICES ASSUME IInv, Next, NEW n \in disk.tx \ disk'.tx, mode' # "rejoin"
                 PROVE  n \in Extra(disk.tx)
      OBVIOUS
    <2>1. disk \in DiskType /\ MemType /\ Height \in Nat /\ disk.tx = 0 .. Height - 1
      BY TypeParts, HeightType DEF IInv, Height, DiskType, ChainInv, Contiguous
    <2>2. CASE TrimTxBlocks
      <3>1. rec.extra # {} /\ rec.step = "trim" /\ n = Max(rec.extra)
        BY <2>1, <2>2 DEF TrimTxBlocks, RecStep, DiskType
      <3>2. PICK q \in 0 .. MaxBlock + 1 : /\ q * N <= Height /\ Height < q * N + N
                                           /\ rec.extra = q * N .. Height - 1
        BY <3>1 DEF IInv, ChainInv, ExtraInv
      <3>3. PICK p \in Nat : p = q * N
        BY ConstantsAssumption
      <3>4. p <= Height - 1 /\ n = Height - 1
        BY <2>1, <3>1, <3>2, <3>3, MaxInterval
      <3>5. /\ Extra(disk.tx) = (Height \div N) * N .. Height - 1
            /\ (Height \div N) * N <= Height /\ Height < (Height \div N) * N + N
        BY <2>1, <3>3, <3>4, ExtraFacts
      <3>6. (Height \div N) * N <= Height - 1
        <4>1. PICK k \in Nat : k = Height \div N
          BY <2>1, DivFacts
        <4>2. q \in Nat /\ k * N <= Height /\ Height < q * N + N
          BY <3>2, <3>5, <4>1, ConstantsAssumption
        <4>3. k * N <= q * N
          BY <2>1, <4>2, MultipleFacts
        <4>4. k * N \in Int
          BY ConstantsAssumption
        <4> QED
          BY <2>1, <3>3, <3>4, <4>1, <4>3, <4>4
      <3>7. (Height \div N) * N \in Int
        BY <2>1, DivFacts, ConstantsAssumption
      <3> QED
        BY <2>1, <3>4, <3>5, <3>6, <3>7
    <2>3. CASE ~ TrimTxBlocks
      <3>1. disk.tx \subseteq disk'.tx
        <4>1. CASE NetTxBlock \/ NetDSBlock \/ ProcessDSBlock \/ Crash \/ Restart
          BY <4>1 DEF NetTxBlock, NetDSBlock, ProcessDSBlock, Crash, Restart
        <4>2. CASE \E b \in Blocks : ProcessFinalBlock(b) \/ WriteStateToDisk(b)
          BY <2>1, <4>2 DEF ProcessFinalBlock, WriteStateToDisk, DiskType
        <4>3. CASE StoreFinalBlock
          BY <2>1, <4>3 DEF StoreFinalBlock, DiskType
        <4>4. CASE DSBlockStep
          BY <2>1, <4>4 DEF DSBlockStep, DSWrite, MemType, DSSteps, DiskType
        <4>5. CASE RetrieveBlockLink \/ AddBlockLink \/ RetrieveStates \/ RetrieveTxBlocks
          BY <2>1, <4>5 DEF RetrieveBlockLink, AddBlockLink, RetrieveStates,
                            RetrieveTxBlocks, Fail, DiskType
        <4>6. CASE \/ ApplyExtraDeltas \/ FetchReply \/ NoDeltasFromSeed \/ CommitTxBlocks
                   \/ ProcessSetStateDeltaFromSeed
          BY <2>1, <4>6 DEF ApplyExtraDeltas, FetchReply, NoBlocksFromSeed,
               ProcessSetStateDeltasFromSeed, NoDeltasFromSeed, CommitTxBlocks,
               ProcessSetStateDeltaFromSeed, DiskType
        <4>7. CASE LaggingTooMuch \/ NoOfflineLookups \/ FinishRecovery
          BY <4>7 DEF LaggingTooMuch, NoOfflineLookups, FinishRecovery, Fail
        <4> QED
          BY <2>3, <4>1, <4>2, <4>3, <4>4, <4>5, <4>6, <4>7 DEF Next, Recover
      <3> QED
        BY <3>1
    <2> QED
      BY <2>2, <2>3
  <1> QED
    BY <1>1, Invariance, PTL DEF Spec, FinishedEpochsKept

-----------------------------------------------------------------------------
(* DS epochs by their first blocks, and accounts by their deltas *)

\* The first block of the DS epoch of h
LEMMA BaseFacts ==
    ASSUME NEW h \in Nat
    PROVE  /\ Base(h) \in Nat /\ Base(h) <= h /\ h < Base(h) + N
           /\ h >= N => Base(h) >= N
           /\ h < N => Base(h) = 0
  <1>1. PICK q \in Nat, r \in 0 .. N - 1 : q = h \div N /\ h = q * N + r
    BY DivFacts
  <1>2. PICK p \in Nat : p = q * N /\ p = Base(h)
    BY <1>1, ConstantsAssumption DEF Base
  <1>3. p <= h /\ h < p + N
    BY <1>1, <1>2, ConstantsAssumption
  <1>4. h >= N => p >= N
    <2>1. SUFFICES ASSUME h >= N PROVE q >= 1
      BY <1>1, <1>2, ConstantsAssumption
    <2>2. q # 0
      BY <1>2, <1>3, <2>1, ConstantsAssumption
    <2> QED
      BY <2>2
  <1>5. h < N => p = 0
    <2>1. SUFFICES ASSUME h < N, q >= 1 PROVE FALSE
      BY <1>1, <1>2, ConstantsAssumption
    <2>2. q * N >= N
      BY <2>1, ConstantsAssumption
    <2> QED
      BY <1>2, <1>3, <2>1, <2>2, ConstantsAssumption
  <1> QED
    BY <1>2, <1>3, <1>4, <1>5

\* It is the only multiple of N that is not above h and above h - N
LEMMA BaseUnique ==
    ASSUME NEW h \in Nat, NEW k \in Nat, k * N <= h, h < k * N + N
    PROVE  Base(h) = k * N
  <1>1. PICK q \in Nat, r \in 0 .. N - 1 : q = h \div N /\ h = q * N + r
    BY DivFacts
  <1>2. q * N <= h /\ h < q * N + N
    BY <1>1, ConstantsAssumption
  <1>3. q * N <= k * N /\ k * N <= q * N
    BY <1>2, MultipleFacts
  <1> QED
    BY <1>1, <1>3, ConstantsAssumption DEF Base

\* The DS epoch of the blocks between the first one and h
LEMMA BaseSame ==
    ASSUME NEW h \in Nat, NEW g \in Nat, Base(h) <= g, g <= h
    PROVE  Base(g) = Base(h)
  <1>1. PICK q \in Nat : q = h \div N
    BY DivFacts
  <1>2. Base(h) = q * N /\ h < Base(h) + N /\ Base(h) \in Nat
    BY <1>1, BaseFacts DEF Base
  <1>3. q * N <= g /\ g < q * N + N
    BY <1>2, ConstantsAssumption
  <1> QED
    BY <1>2, <1>3, BaseUnique

\* A vacuous block is the one before the first block of a DS epoch
LEMMA VacuousBase ==
    ASSUME NEW n \in Nat
    PROVE  Vacuous(n) <=> Base(n + 1) = n + 1
  <1>1. PICK m \in Nat : m = n + 1
    OBVIOUS
  <1>2. PICK q \in Nat, r \in 0 .. N - 1 : q = m \div N /\ r = m % N /\ m = q * N + r
    BY <1>1, DivFacts
  <1>3. PICK p \in Nat : p = q * N
    BY <1>2, ConstantsAssumption
  <1>4. Vacuous(n) <=> r = 0
    BY <1>1, <1>2 DEF Vacuous
  <1>5. Base(m) = p
    BY <1>2, <1>3 DEF Base
  <1> QED
    BY <1>1, <1>2, <1>3, <1>4, <1>5

\* The DS epoch of the block after h, and the block before a first one
LEMMA BaseNext ==
    ASSUME NEW h \in Nat
    PROVE  /\ Vacuous(h) => Base(h + 1) = h + 1
           /\ ~ Vacuous(h) => Base(h + 1) = Base(h)
           /\ h >= N => Vacuous(Base(h) - 1)
  <1>1. Vacuous(h) => Base(h + 1) = h + 1
    BY VacuousBase
  <1>2. ASSUME ~ Vacuous(h) PROVE Base(h + 1) = Base(h)
    <2>1. PICK g \in Nat : g = h + 1
      OBVIOUS
    <2>2. Base(g) # g /\ Base(g) <= g /\ Base(g) \in Nat
      BY <1>2, <2>1, VacuousBase, BaseFacts
    <2> QED
      BY <2>1, <2>2, BaseSame
  <1>3. ASSUME h >= N PROVE Vacuous(Base(h) - 1)
    <2>1. PICK b \in Nat : b = Base(h) /\ b >= N /\ b <= h
      BY <1>3, BaseFacts
    <2>2. Base(b) = b
      BY <2>1, BaseSame
    <2>3. b - 1 \in Nat /\ (b - 1) + 1 = b
      BY <2>1, ConstantsAssumption
    <2> QED
      BY <2>1, <2>2, <2>3, VacuousBase
  <1> QED
    BY <1>1, <1>2, <1>3

\* No block of an unfinished DS epoch is vacuous
LEMMA TailNotVacuous ==
    ASSUME NEW h \in Nat, NEW v \in Nat, Base(h) <= v, v < h
    PROVE  ~ Vacuous(v)
  <1>1. PICK w \in Nat : w = v + 1
    OBVIOUS
  <1>2. Base(w) = Base(h) /\ Base(h) \in Nat
    BY <1>1, BaseSame, BaseFacts
  <1> QED
    BY <1>1, <1>2, VacuousBase

\* The blocks of the unfinished DS epoch, as the recovery computes them
LEMMA TailIsExtra ==
    ASSUME NEW c \in Nat, c > 0
    PROVE  /\ Extra(0 .. c - 1) = Tail(c)
           /\ Max(0 .. c - 1) - Cardinality(Tail(c)) = Base(c) - 1
           /\ Max(0 .. c - 1) + 1 - Cardinality(Tail(c)) = Base(c)
  <1>1. Extra(0 .. c - 1) = Tail(c) /\ Max(0 .. c - 1) = c - 1
    BY ExtraFacts DEF Tail, Base
  <1>2. PICK b \in Nat : b = Base(c) /\ b <= c
    BY BaseFacts
  <1>3. Cardinality(b .. c - 1) = c - b
    BY <1>2, FS_Interval
  <1>4. PICK k \in Nat : k = Cardinality(Tail(c)) /\ k = c - b
    BY <1>2, <1>3 DEF Tail
  <1> QED
    BY <1>1, <1>2, <1>4

\* What applying a delta does to the accounts
LEMMA ApplyFacts ==
    ASSUME NEW s \in States, NEW m \in Blocks
    PROVE  /\ Apply(s, m) \in States
           /\ \A b \in Blocks : b # m => Apply(s, m)[b] = s[b]
           /\ m \in Quiet => Apply(s, m) = s
           /\ m \notin Quiet => Apply(s, m)[m] = IF s[m] = 2 THEN 2 ELSE s[m] + 1
  <1>1. Apply(s, m) \in States
    BY StateTypes
  <1> QED
    BY <1>1 DEF Apply, States

\* What applying the deltas of a set of blocks does
LEMMA ApplyAllFacts ==
    ASSUME NEW s \in States, NEW ns
    PROVE  /\ ApplyAll(s, ns) \in States
           /\ \A b \in Blocks : b \in ns =>
                ApplyAll(s, ns)[b] = IF b \in Quiet THEN s[b]
                                     ELSE IF s[b] = 2 THEN 2 ELSE s[b] + 1
           /\ \A b \in Blocks : b \notin ns => ApplyAll(s, ns)[b] = s[b]
           /\ \A b \in Blocks : ApplyAll(s, ns)[b] >= s[b]
           /\ \A b \in Blocks : b \in ns /\ b \notin Quiet => ApplyAll(s, ns)[b] >= 1
           /\ (\A b \in Blocks : b \in ns => b \in Quiet) => ApplyAll(s, ns) = s
  <1>1. ApplyAll(s, ns) \in States
    BY StateTypes
  <1>2. ASSUME NEW b \in Blocks, b \in ns
        PROVE  ApplyAll(s, ns)[b] = IF b \in Quiet THEN s[b]
                                    ELSE IF s[b] = 2 THEN 2 ELSE s[b] + 1
    <2>1. ApplyAll(s, ns)[b] = Apply(s, b)[b]
      BY <1>2 DEF ApplyAll
    <2> QED
      BY <2>1, ApplyFacts
  <1>3. \A b \in Blocks : b \notin ns => ApplyAll(s, ns)[b] = s[b]
    BY DEF ApplyAll
  <1>4. \A b \in Blocks : s[b] \in 0 .. 2
    BY DEF States
  <1>5. \A b \in Blocks : ApplyAll(s, ns)[b] >= s[b]
    BY <1>2, <1>3, <1>4
  <1>6. \A b \in Blocks : b \in ns /\ b \notin Quiet => ApplyAll(s, ns)[b] >= 1
    BY <1>2, <1>4
  <1>7. ASSUME \A b \in Blocks : b \in ns => b \in Quiet PROVE ApplyAll(s, ns) = s
    <2>1. \A b \in Blocks : ApplyAll(s, ns)[b] = s[b]
      BY <1>2, <1>3, <1>7
    <2> QED
      BY <1>1, <2>1 DEF States
  <1> QED
    BY <1>1, <1>2, <1>3, <1>5, <1>6, <1>7

\* One delta more
LEMMA ApplyOneMore ==
    ASSUME NEW s \in States, NEW ns, NEW m \in Blocks, m \notin ns
    PROVE  ApplyAll(s, ns \cup {m}) = Apply(ApplyAll(s, ns), m)
  <1>1. PICK a \in States : a = ApplyAll(s, ns)
    BY ApplyAllFacts
  <1>2. PICK c \in States : c = ApplyAll(s, ns \cup {m})
    BY ApplyAllFacts
  <1>3. PICK d \in States : d = Apply(a, m)
    BY ApplyFacts
  <1>4. ASSUME NEW b \in Blocks PROVE c[b] = d[b]
    <2>1. CASE b = m
      <3>1. a[m] = s[m]
        BY <1>1, ApplyAllFacts
      <3>2. c[m] = IF m \in Quiet THEN s[m] ELSE IF s[m] = 2 THEN 2 ELSE s[m] + 1
        BY <1>2, ApplyAllFacts
      <3>3. d[m] = IF m \in Quiet THEN a[m] ELSE IF a[m] = 2 THEN 2 ELSE a[m] + 1
        BY <1>3, ApplyFacts
      <3> QED
        BY <2>1, <3>1, <3>2, <3>3
    <2>2. CASE b # m /\ b \in ns
      <3>1. d[b] = a[b]
        BY <1>3, <2>2, ApplyFacts
      <3>2. a[b] = IF b \in Quiet THEN s[b] ELSE IF s[b] = 2 THEN 2 ELSE s[b] + 1
        BY <1>1, <2>2, ApplyAllFacts
      <3>3. c[b] = IF b \in Quiet THEN s[b] ELSE IF s[b] = 2 THEN 2 ELSE s[b] + 1
        BY <1>2, <2>2, ApplyAllFacts
      <3> QED
        BY <3>1, <3>2, <3>3
    <2>3. CASE b # m /\ b \notin ns
      <3>1. d[b] = a[b]
        BY <1>3, <2>3, ApplyFacts
      <3>2. a[b] = s[b]
        BY <1>1, <2>3, ApplyAllFacts
      <3>3. c[b] = s[b]
        BY <1>2, <2>3, ApplyAllFacts
      <3> QED
        BY <3>1, <3>2, <3>3
    <2> QED
      BY <2>1, <2>2, <2>3
  <1>5. c = d
    BY <1>4 DEF States
  <1> QED
    BY <1>1, <1>2, <1>3, <1>5

\* The accounts of block h - 1, reached with the deltas of the unfinished DS
\* epoch, were reached from those of the last vacuous block
LEMMA DerivedRoot ==
    ASSUME NEW s \in States, NEW h \in Nat, ApplyAll(s, Tail(h)) = Prefix(h - 1)
    PROVE  s = Prefix(Base(h) - 1)
  <1>1. PICK p \in States : p = Prefix(Base(h) - 1)
    BY StateTypes
  <1>2. Base(h) \in Nat /\ Base(h) <= h /\ Blocks \subseteq Nat
    BY BaseFacts, ConstantsAssumption DEF Blocks
  <1>3. ASSUME NEW b \in Blocks PROVE s[b] = p[b]
    <2>1. p[b] = IF b <= Base(h) - 1 /\ b \notin Quiet THEN 1 ELSE 0
      BY <1>1 DEF Prefix
    <2>2. ApplyAll(s, Tail(h))[b] = IF b <= h - 1 /\ b \notin Quiet THEN 1 ELSE 0
      BY DEF Prefix
    <2>3. s[b] \in 0 .. 2
      BY DEF States
    <2>4. CASE b \in Tail(h)
      <3>1. Base(h) <= b /\ b <= h - 1
        BY <1>2, <2>4 DEF Tail
      <3>2. ApplyAll(s, Tail(h))[b] = IF b \in Quiet THEN s[b]
                                      ELSE IF s[b] = 2 THEN 2 ELSE s[b] + 1
        BY <2>4, ApplyAllFacts
      <3> QED
        BY <1>2, <2>1, <2>2, <2>3, <3>1, <3>2
    <2>5. CASE b \notin Tail(h)
      <3>1. b < Base(h) \/ b > h - 1
        BY <1>2, <2>5 DEF Tail
      <3>2. ApplyAll(s, Tail(h))[b] = s[b]
        BY <2>5, ApplyAllFacts
      <3> QED
        BY <1>2, <2>1, <2>2, <3>1, <3>2
    <2> QED
      BY <2>4, <2>5
  <1>4. s = p
    BY <1>3 DEF States
  <1> QED
    BY <1>1, <1>4

-----------------------------------------------------------------------------
(* The disk that a recovery starts from: a running node *)

\* Blocks on disk, and what the types say of the accounts
LEMMA DiskBasics ==
    ASSUME TypeOK, ChainInv
    PROVE  /\ MemType /\ rec \in RecType /\ disk \in DiskType
           /\ Height \in Nat /\ Height <= MaxBlock + 1 /\ disk.tx = 0 .. Height - 1
           /\ state \in States /\ disk.root \in States /\ prevRoot \in States
           /\ Blocks \subseteq Nat /\ 0 \in Blocks /\ disk.delta \subseteq Nat
           /\ N \in Nat /\ N > 2 /\ MaxBlock \in Nat
  <1>1. MemType /\ rec \in RecType /\ disk \in DiskType
    BY TypeParts
  <1>2. Height \in 0 .. MaxBlock + 1
    BY <1>1, HeightType DEF Height, DiskType
  <1>3. Blocks \subseteq Nat /\ 0 \in Blocks /\ disk.delta \subseteq Nat
    BY <1>1, ConstantsAssumption DEF Blocks, DiskType
  <1> QED
    BY <1>1, <1>2, <1>3, ConstantsAssumption DEF MemType, DiskType, ChainInv, Contiguous

\* Steps that touch neither the accounts nor what the disk has of them
LEMMA DiskFrame ==
    ASSUME DiskInv, UNCHANGED <<mode, fb, writer, rec, prevRoot, state, last>>,
           disk'.tx = disk.tx, disk'.delta = disk.delta, disk'.root = disk.root,
           "root" \in late => "root" \in late', netDS' >= DSOf(net')
    PROVE  DiskInv'
  <1>1. Height' = Height
    BY DEF Height
  <1>2. RunDisk => RunDisk'
    BY <1>1 DEF RunDisk, RootCurrent
  <1>3. StopDisk => StopDisk'
    BY <1>1 DEF StopDisk
  <1>4. ReadInv => ReadInv'
    BY <1>1 DEF ReadInv
  <1>5. SourceInv => SourceInv'
    BY <1>1 DEF SourceInv, Derived
  <1>6. MatchInv => MatchInv'
    BY <1>1 DEF MatchInv, Derived, RootCurrent, ValidateStates
  <1> QED
    BY <1>2, <1>3, <1>4, <1>5, <1>6 DEF DiskInv

\* The last block of the first DS epoch
LEMMA FirstVacuous ==
    ASSUME NEW h \in Nat, h + 1 = N
    PROVE  Vacuous(h)
  <1>1. N % N = 0
    BY ConstantsAssumption
  <1> QED
    BY <1>1 DEF Vacuous

\* A node that is not recovering
LEMMA NotReading ==
    ASSUME rec'.step = "idle"
    PROVE  ReadInv' /\ SourceInv' /\ MatchInv'
  BY DEF ReadInv, SourceInv, MatchInv, ChainSteps

\* A node that gives up
LEMMA DiskGivenUp ==
    ASSUME DiskInv, mode' = "rejoin", rec' = NoRec, UNCHANGED <<net, netDS>>,
           disk' = disk \/ disk' = Empty
    PROVE  DiskInv'
  <1>1. rec'.step = "idle"
    BY DEF NoRec
  <1>2. ReadInv' /\ SourceInv' /\ MatchInv'
    BY <1>1, NotReading
  <1>3. 0 \notin disk'.delta
    BY DEF DiskInv, Empty
  <1> QED
    BY <1>2, <1>3 DEF DiskInv

\* The network's blocks
LEMMA DiskNet ==
    ASSUME TypeOK, DiskInv, NetTxBlock \/ NetDSBlock
    PROVE  DiskInv'
  <1>1. UNCHANGED memory /\ UNCHANGED <<disk, late>>
    BY DEF NetTxBlock, NetDSBlock
  <1>2. netDS' >= DSOf(net')
    <2>1. netDS \in Nat /\ DSOf(net) \in Int
      BY DSOfType, DivFacts, ConstantsAssumption DEF TypeOK, DSBlocks
    <2>2. CASE NetTxBlock
      BY <2>1, <2>2 DEF NetTxBlock
    <2>3. CASE NetDSBlock
      BY <2>1, <2>3 DEF NetDSBlock, DiskInv
    <2> QED
      BY <2>2, <2>3
  <1> QED
    BY <1>1, <1>2, DiskFrame DEF memory

\* A final block is accepted, its delta is written
LEMMA DiskProcess ==
    ASSUME TypeOK, ChainInv, DiskInv, NEW n \in Blocks, ProcessFinalBlock(n)
    PROVE  DiskInv'
  <1>1. CASE Rejoin /\ disk' = disk
    BY <1>1, DiskGivenUp DEF Rejoin, ProcessFinalBlock
  <1>2. CASE /\ CheckWhetherBlockIsLatest(DSOf(n) + 1, n)
             /\ state' = Apply(state, n)
             /\ \/ disk' = [disk EXCEPT !.delta = @ \cup {n}] /\ fb' = n
                \/ UNCHANGED <<disk, fb>>
             /\ UNCHANGED <<mode, nstate, last, dsLast, epoch, committee, prevRoot,
                            dsStep, writer, rec>>
    <2>1. mode = "running" /\ fb = None /\ UNCHANGED <<net, netDS, late>>
      BY DEF ProcessFinalBlock
    <2>2. n = Height /\ Height >= 1
      BY <1>2, <2>1 DEF CheckWhetherBlockIsLatest, ChainInv, RunInv
    <2>3. /\ disk'.tx = disk.tx /\ disk'.root = disk.root
          /\ disk.delta \subseteq disk'.delta /\ disk'.delta \subseteq disk.delta \cup {n}
          /\ fb' # None => fb' \in disk'.delta
      BY <1>2, <2>1, DiskBasics DEF DiskType
    <2>4. Height' = Height
      BY <2>3 DEF Height
    <2>5. Height \in Nat /\ N \in Nat /\ disk.delta \subseteq Nat /\ state \in States
          /\ Height <= MaxBlock + 1 /\ MaxBlock \in Nat
      BY DiskBasics
    <2>6. \A b \in Blocks : state[b] >= 1 => state'[b] >= 1
      <3>1. \A b \in Blocks : state[b] \in 0 .. 2
        BY <2>5 DEF States
      <3> QED
        BY <1>2, <2>5, <3>1, ApplyFacts
    <2>7. RunDisk
      BY <2>1 DEF DiskInv
    <2>8. \A v \in disk'.delta : v > Height => ~ Vacuous(v)
      BY <2>2, <2>3, <2>5, <2>7 DEF RunDisk
    <2>9. \A b \in 0 .. Height - 1 : b \notin Quiet => state'[b] >= 1
      <3>1. 0 .. Height - 1 \subseteq Blocks
        BY <2>5 DEF Blocks
      <3> QED
        BY <2>6, <2>7, <3>1 DEF RunDisk
    <2>10. RunDisk'
      BY <1>2, <2>1, <2>3, <2>4, <2>7, <2>8, <2>9 DEF RunDisk, RootCurrent
    <2>11. rec'.step = "idle"
      BY <1>2, <2>1 DEF ChainInv, RestInv
    <2>12. ReadInv' /\ SourceInv' /\ MatchInv'
      BY <2>11, NotReading
    <2>13. 0 \notin disk'.delta
      BY <2>2, <2>3 DEF DiskInv
    <2> QED
      BY <1>2, <2>1, <2>10, <2>12, <2>13 DEF DiskInv
  <1> QED
    BY <1>1, <1>2 DEF ProcessFinalBlock

\* A final block is stored
LEMMA DiskStore ==
    ASSUME TypeOK, ChainInv, DSInv, DiskInv, StoreFinalBlock
    PROVE  DiskInv'
  <1>1. mode = "running" /\ fb # None /\ UNCHANGED <<net, netDS, late>>
    BY DEF StoreFinalBlock
  <1>2. CASE Rejoin /\ disk' = disk
    BY <1>1, <1>2, DiskGivenUp DEF Rejoin
  <1>3. fb = Height /\ rec.step = "idle"
    BY <1>1 DEF ChainInv, RunInv, RestInv
  <1>4. CASE fb' = None /\ UNCHANGED <<mode, state, prevRoot, writer, rec, disk>>
    <2>1. RunDisk'
      BY <1>1, <1>4 DEF DiskInv, RunDisk, RootCurrent, Height
    <2>2. ReadInv' /\ SourceInv' /\ MatchInv'
      BY <1>3, <1>4, NotReading
    <2> QED
      BY <1>1, <1>4, <2>1, <2>2 DEF DiskInv
  <1>5. CASE /\ CheckStateRoot(fb) /\ fb' = None
             /\ disk' = [disk EXCEPT !.tx = @ \cup {fb}]
             /\ IF Vacuous(fb) THEN writer' = [writer EXCEPT ![fb] = "move"]
                               ELSE writer' = writer
             /\ UNCHANGED <<mode, state, prevRoot, rec>>
    <2>1. /\ disk'.delta = disk.delta /\ disk'.root = disk.root
          /\ disk'.tx = 0 .. (Height + 1) - 1
      BY <1>3, <1>5, DiskBasics DEF DiskType
    <2>2. Height' = Height + 1 /\ Height \in Nat /\ N \in Nat /\ N > 2
      BY <2>1, DiskBasics, HeightFacts DEF Height
    <2>3. RunDisk /\ fb \in Blocks /\ fb \in disk.delta /\ writer \in [Blocks -> {"none", "move", "flag"}]
      BY <1>1, DiskBasics DEF DiskInv, RunDisk, MemType
    <2>4. PICK h \in Nat : h = Height /\ Height' = h + 1
      BY <2>2
    <2>5. h + 1 >= N => Tail(h + 1) \subseteq disk.delta
      <3>1. CASE Vacuous(h)
        <4>1. Base(h + 1) = h + 1
          BY <3>1, BaseNext
        <4> QED
          BY <4>1 DEF Tail
      <3>2. CASE ~ Vacuous(h) /\ h >= N
        <4>1. PICK b \in Nat : b = Base(h) /\ b = Base(h + 1)
          BY <3>2, BaseNext, BaseFacts
        <4>2. b .. h - 1 \subseteq disk.delta
          BY <2>3, <2>4, <3>2, <4>1 DEF RunDisk, Tail
        <4>3. h \in disk.delta
          BY <1>3, <2>3, <2>4
        <4>4. b .. (h + 1) - 1 \subseteq disk.delta
          BY <4>2, <4>3
        <4> QED
          BY <4>1, <4>4 DEF Tail
      <3>3. CASE ~ Vacuous(h) /\ h + 1 = N
        BY <3>3, FirstVacuous
      <3> QED
        BY <2>2, <3>1, <3>2, <3>3
    <2>6. \A v \in disk.delta : v > h + 1 => ~ Vacuous(v)
      BY <2>3, <2>4, DiskBasics DEF RunDisk
    <2>7. \A b \in 0 .. (h + 1) - 1 : b \notin Quiet => state[b] >= 1
      <3>1. 0 .. (h + 1) - 1 \subseteq Blocks
        BY <1>3, <2>3, <2>4, ConstantsAssumption DEF Blocks
      <3>2. state = Prefix(h)
        BY <1>3, <1>5, <2>4 DEF CheckStateRoot
      <3> QED
        BY <3>1, <3>2 DEF Prefix
    <2>8. (h + 1 >= N /\ "root" \notin late) =>
             \/ disk.root = Prefix(Base(h + 1) - 1)
             \/ writer'[Base(h + 1) - 1] = "move"
      <3>1. CASE Vacuous(h)
        <4>1. Base(h + 1) - 1 = h
          BY <3>1, BaseNext
        <4> QED
          BY <1>3, <1>5, <2>3, <2>4, <3>1, <4>1
      <3>2. CASE ~ Vacuous(h) /\ h >= N
        BY <1>3, <1>5, <2>3, <2>4, <3>2, BaseNext DEF RunDisk, RootCurrent
      <3>3. CASE ~ Vacuous(h) /\ h + 1 = N
        BY <3>3, FirstVacuous
      <3> QED
        BY <2>2, <3>1, <3>2, <3>3
    <2>9. h + 1 < N => disk.root[0] = 0
      BY <2>2, <2>3, <2>4 DEF RunDisk
    <2>10. RunDisk'
      BY <1>1, <1>5, <2>1, <2>4, <2>5, <2>6, <2>7, <2>8, <2>9 DEF RunDisk, RootCurrent
    <2>11. ReadInv' /\ SourceInv' /\ MatchInv'
      BY <1>3, <1>5, NotReading
    <2> QED
      BY <1>1, <1>5, <2>1, <2>10, <2>11 DEF DiskInv
  <1> QED
    BY <1>2, <1>4, <1>5 DEF StoreFinalBlock

\* writeStateToDisk
LEMMA DiskWriter ==
    ASSUME TypeOK, ChainInv, DSInv, DiskInv, NEW n \in Blocks, WriteStateToDisk(n)
    PROVE  DiskInv'
  <1>1. mode = "running" /\ UNCHANGED <<net, netDS, mode, state, fb, rec, prevRoot, last>>
    BY DEF WriteStateToDisk
  <1>2. RunDisk /\ rec.step = "idle"
    BY <1>1 DEF DiskInv, ChainInv, RestInv
  <1>3. writer \in [Blocks -> {"none", "move", "flag"}]
    BY DiskBasics DEF MemType
  <1>4. CASE writer[n] = "flag"
    <2>1. /\ disk'.tx = disk.tx /\ disk'.delta = disk.delta /\ disk'.root = disk.root
          /\ writer' = [writer EXCEPT ![n] = "none"]
          /\ "root" \in late => "root" \in late'
          /\ "root" \in late' => "root" \in late
      BY <1>4, DiskBasics DEF WriteStateToDisk, DiskType
    <2>2. \A b : writer[b] = "move" => writer'[b] = "move"
      BY <1>3, <1>4, <2>1
    <2>3. Height' = Height
      BY <2>1 DEF Height
    <2>4. RunDisk'
      BY <1>1, <1>2, <2>1, <2>2, <2>3 DEF RunDisk, RootCurrent
    <2>5. ReadInv' /\ SourceInv' /\ MatchInv'
      BY <1>1, <1>2, NotReading
    <2> QED
      BY <1>1, <2>1, <2>4, <2>5 DEF DiskInv
  <1>5. CASE writer[n] = "move"
    <2>1. /\ disk'.tx = disk.tx /\ disk'.delta = disk.delta /\ disk'.root = state
          /\ "root" \notin late' => state = Prefix(n)
      BY <1>5, DiskBasics DEF WriteStateToDisk, DiskType
    <2>2. Vacuous(n) /\ n < Height
      BY <1>5 DEF DSInv
    <2>3. PICK h \in Nat : h = Height /\ n \in Nat /\ n < h /\ h <= MaxBlock + 1
      BY <2>2, DiskBasics
    <2>4. Height' = h
      BY <2>1, <2>3 DEF Height
    <2>5. Base(h) - 1 >= n /\ Base(h) \in Nat /\ Base(h) <= h
      <3>1. Base(h) \in Nat /\ Base(h) <= h
        BY BaseFacts
      <3>2. ~ (Base(h) <= n)
        BY <2>2, <2>3, TailNotVacuous
      <3> QED
        BY <2>3, <3>1, <3>2
    <2>6. h >= N /\ N \in Nat
      <3>1. N \in Nat /\ N > 2
        BY DiskBasics
      <3>2. h < N => Base(h) = 0
        BY BaseFacts
      <3> QED
        BY <2>3, <2>5, <3>1, <3>2
    <2>7. "root" \notin late' => state = Prefix(Base(h) - 1)
      <3>1. PICK b \in Nat : b = Base(h) - 1 /\ b >= n /\ b < h
        BY <2>3, <2>5
      <3>2. Vacuous(b) /\ b \in Blocks /\ MaxBlock \in Nat
        BY <2>3, <2>6, <3>1, BaseNext, DiskBasics DEF Blocks
      <3>3. state[b] >= 1
        BY <1>2, <2>3, <3>1, <3>2, RewardsAssumption DEF RunDisk
      <3>4. state = Prefix(n) => n = b
        <4> SUFFICES ASSUME state = Prefix(n), n < b PROVE FALSE
          BY <2>3, <3>1
        <4>1. state[b] = 0
          BY <2>3, <3>1, <3>2 DEF Prefix
        <4> QED
          BY <3>3, <4>1
      <3> QED
        BY <2>1, <3>1, <3>4
    <2>8. RunDisk'
      BY <1>1, <1>2, <2>1, <2>3, <2>4, <2>6, <2>7 DEF RunDisk, RootCurrent
    <2>9. ReadInv' /\ SourceInv' /\ MatchInv'
      BY <1>1, <1>2, NotReading
    <2> QED
      BY <1>1, <2>1, <2>8, <2>9 DEF DiskInv
  <1> QED
    BY <1>4, <1>5 DEF WriteStateToDisk

\* The DS block's handler clears the deltas when a DS epoch has ended
LEMMA DiskDSStep ==
    ASSUME TypeOK, ChainInv, DSInv, DiskInv, DSBlockStep
    PROVE  DiskInv'
  <1>1. /\ mode = "running" /\ dsStep # "idle"
        /\ UNCHANGED <<net, netDS, mode, state, fb, rec, prevRoot, last, writer>>
        /\ "root" \in late => "root" \in late'
        /\ "root" \in late' => "root" \in late
        /\ disk'.tx = disk.tx /\ disk'.root = disk.root
        /\ dsStep # "reset" => disk'.delta = disk.delta
        /\ disk'.delta # disk.delta => disk'.delta = {}
    BY DiskBasics DEF DSBlockStep, DSWrite, MemType, DSSteps, DiskType
  <1>2. netDS >= DSOf(net)
    BY DEF DiskInv
  <1>3. CASE disk'.delta = disk.delta
    BY <1>1, <1>2, <1>3, DiskFrame
  <1>4. CASE dsStep = "reset" /\ disk'.delta = {}
    <2>1. fb = None /\ Height = (dsLast - 1) * N /\ Height >= 1
      BY <1>1, <1>4 DEF DSInv, ChainInv, RunInv
    <2>2. PICK h \in Nat, k \in Nat : h = Height /\ h = k * N
      <3>1. Height \in Nat /\ dsLast \in Nat /\ N \in Nat /\ N > 2
        BY DiskBasics, ConstantsAssumption DEF MemType, DSBlocks
      <3>2. dsLast # 0
        BY <2>1, <3>1
      <3>3. PICK k \in Nat : k = dsLast - 1
        BY <3>1, <3>2
      <3>4. Height = k * N
        BY <2>1, <3>3
      <3> QED
        BY <3>1, <3>4
    <2>3. Tail(h) = {}
      <3>1. Base(h) = h
        BY <2>2, BaseUnique, ConstantsAssumption
      <3> QED
        BY <3>1 DEF Tail
    <2>4. Height' = Height
      BY <1>1 DEF Height
    <2>5. RunDisk
      BY <1>1 DEF DiskInv
    <2>6. RunDisk'
      BY <1>1, <1>4, <2>1, <2>2, <2>3, <2>4, <2>5 DEF RunDisk, RootCurrent
    <2>7. rec'.step = "idle"
      BY <1>1 DEF ChainInv, RestInv
    <2>8. ReadInv' /\ SourceInv' /\ MatchInv'
      BY <2>7, NotReading
    <2> QED
      BY <1>1, <1>2, <1>4, <2>6, <2>8 DEF DiskInv
  <1> QED
    BY <1>1, <1>3, <1>4

\* A crash leaves the disk of a running node as a recovery needs it
LEMMA DiskCrash ==
    ASSUME TypeOK, ChainInv, DiskInv, Crash
    PROVE  DiskInv'
  <1>1. /\ mode \in {"running", "recovering"} /\ mode' = "down" /\ rec' = NoRec
        /\ prevRoot' = Prefix(None) /\ UNCHANGED <<net, netDS, disk>>
    BY DEF Crash
  <1>2. rec'.step = "idle"
    BY <1>1 DEF NoRec
  <1>3. ReadInv' /\ SourceInv' /\ MatchInv'
    BY <1>2, NotReading
  <1>4. Height' = Height
    BY <1>1 DEF Height
  <1>5. StopDisk'
    <2>1. CASE mode = "running"
      BY <1>1, <1>4, <2>1 DEF DiskInv, RunDisk, StopDisk
    <2>2. CASE mode = "recovering"
      BY <1>1, <1>4, <2>2 DEF DiskInv, StopDisk
    <2> QED
      BY <1>1, <2>1, <2>2
  <1> QED
    BY <1>1, <1>3, <1>5 DEF DiskInv

-----------------------------------------------------------------------------
(* The disk and the accounts during a recovery *)

\* The first steps of a recovery read only the block links
LEMMA DiskLinks ==
    ASSUME TypeOK, ChainInv, DiskInv, Restart \/ RetrieveBlockLink \/ AddBlockLink
    PROVE  DiskInv'
  <1>1. /\ mode \in {"down", "recovering"} /\ mode' = "recovering"
        /\ rec.step \in {"idle", "links", "relink"} /\ rec'.step \in {"links", "relink", "states"}
        /\ disk'.tx = disk.tx /\ disk'.delta = disk.delta /\ disk'.root = disk.root
        /\ UNCHANGED <<net, netDS, prevRoot>>
    BY DiskBasics DEF Restart, RetrieveBlockLink, AddBlockLink, RecStep, GoTo, RecType,
                      DiskType, ChainInv, RestInv
  <1>2. Height' = Height
    BY <1>1 DEF Height
  <1>3. StopDisk'
    BY <1>1, <1>2 DEF DiskInv, StopDisk, ChainSteps
  <1>4. ReadInv' /\ SourceInv' /\ MatchInv'
    BY <1>1 DEF ReadInv, SourceInv, MatchInv, ChainSteps
  <1> QED
    BY <1>1, <1>3, <1>4 DEF DiskInv

\* The accounts are read
LEMMA DiskStates ==
    ASSUME TypeOK, ChainInv, DiskInv, RetrieveStates
    PROVE  DiskInv'
  <1>1. /\ mode = "recovering" /\ mode' = "recovering"
        /\ rec.step = "states" /\ rec'.step = "txblocks"
        /\ disk' = disk /\ state' = disk.root
        /\ UNCHANGED <<net, netDS, prevRoot>>
    BY DiskBasics DEF RetrieveStates, RecStep, RecType
  <1>2. Height' = Height
    BY <1>1 DEF Height
  <1>3. StopDisk /\ StopDisk'
    BY <1>1, <1>2 DEF DiskInv, StopDisk, ChainSteps
  <1>4. ReadInv'
    BY <1>1, <1>2, <1>3 DEF ReadInv, StopDisk
  <1>5. SourceInv' /\ MatchInv'
    BY <1>1 DEF SourceInv, MatchInv, ChainSteps
  <1> QED
    BY <1>1, <1>3, <1>4, <1>5 DEF DiskInv

\* The blocks are read: the deltas are all there, or all of them are cleared
LEMMA DiskTxBlocks ==
    ASSUME TypeOK, ChainInv, DiskInv, RetrieveTxBlocks
    PROVE  DiskInv'
  <1>1. CASE disk.tx = {}
    BY <1>1, DiskGivenUp DEF RetrieveTxBlocks, RecStep, Fail
  <1>2. CASE disk.tx # {}
    <2>1. PICK h \in Nat : h = Height /\ h > 0 /\ disk.tx = 0 .. h - 1
      BY <1>2, DiskBasics
    <2>2. /\ Extra(disk.tx) = Tail(h)
          /\ Max(disk.tx) + 1 - Cardinality(Extra(disk.tx)) = Base(h)
      BY <2>1, TailIsExtra
    <2>3. /\ mode = "recovering" /\ mode' = "recovering" /\ rec.step = "txblocks"
          /\ rec'.step = (IF \E n \in Tail(h) : n \notin disk.delta THEN "trim" ELSE "extra")
          /\ rec'.extra = Tail(h)
          /\ disk'.tx = disk.tx /\ disk'.root = disk.root
          /\ disk'.delta = (IF Base(h) % (INCRDB * N) = 0 THEN disk.delta ELSE {})
          /\ UNCHANGED <<net, netDS, prevRoot, state>>
      BY <1>2, <2>2, DiskBasics DEF RetrieveTxBlocks, RecStep, RecType, DiskType
    <2>4. Height' = h
      BY <2>1, <2>3 DEF Height
    <2>5. StopDisk /\ ReadInv /\ SourceInv /\ 0 \notin disk.delta /\ netDS >= DSOf(net)
      BY <2>3 DEF DiskInv
    <2>6. StopDisk'
      BY <2>1, <2>3, <2>4, <2>5 DEF StopDisk, ChainSteps
    <2>7. h < N => rec'.step = "trim"
      <3>1. SUFFICES ASSUME h < N PROVE 0 \in Tail(h)
        BY <2>3, <2>5
      <3>2. Base(h) = 0
        BY <3>1, BaseFacts
      <3> QED
        BY <2>1, <3>2 DEF Tail
    <2>8. ReadInv'
      BY <2>1, <2>3, <2>4, <2>5, <2>7 DEF ReadInv
    <2>9. SourceInv'
      <3>1. state = disk.root /\ disk.root \in States
        BY <2>3, <2>5, DiskBasics DEF SourceInv
      <3>2. ASSUME rec'.step = "trim", h >= N PROVE disk'.delta = {}
        BY <2>1, <2>3, <2>5, <3>2 DEF StopDisk
      <3>3. ApplyAll(disk.root, {}) = disk.root
        BY <3>1, ApplyAllFacts
      <3>4. Tail(h) \ rec'.extra = {}
        BY <2>3
      <3> QED
        BY <2>3, <2>4, <3>1, <3>2, <3>3, <3>4 DEF SourceInv, Derived
    <2>10. MatchInv'
      BY <2>3 DEF MatchInv, ChainSteps
    <2>11. 0 \notin disk'.delta
      BY <2>3, <2>5
    <2> QED
      BY <2>3, <2>5, <2>6, <2>8, <2>9, <2>10, <2>11 DEF DiskInv
  <1> QED
    BY <1>1, <1>2

\* A recovery that has deleted or applied all blocks of the unfinished DS epoch
LEMMA DiskToFetch ==
    ASSUME TypeOK, ChainInv, DiskInv, mode = "recovering", mode' = "recovering",
           rec.step \in {"trim", "extra"},
           rec' = [rec EXCEPT !.step = "fetch", !.old = Cardinality(disk.tx)],
           UNCHANGED <<net, netDS, disk, state, prevRoot>>,
           Height >= N => Tail(Height) \subseteq disk.delta /\ Derived(Tail(Height))
    PROVE  DiskInv'
  <1>1. rec'.step = "fetch" /\ rec'.old = Height /\ Height' = Height
    BY DiskBasics DEF RecType, Height
  <1>2. StopDisk /\ ReadInv /\ prevRoot = Prefix(None)
    BY DEF DiskInv, StopDisk, ChainSteps
  <1>3. StopDisk' /\ ReadInv'
    BY <1>1, <1>2 DEF StopDisk, ReadInv, ChainSteps
  <1>4. SourceInv' /\ MatchInv'
    BY <1>1, <1>2 DEF SourceInv, MatchInv, Derived
  <1> QED
    BY <1>3, <1>4 DEF DiskInv

\* The blocks of the unfinished DS epoch are deleted
LEMMA DiskTrim ==
    ASSUME TypeOK, ChainInv, DiskInv, TrimTxBlocks
    PROVE  DiskInv'
  <1>1. /\ mode = "recovering" /\ mode' = "recovering" /\ rec.step = "trim"
        /\ UNCHANGED <<net, netDS, state, prevRoot>>
    BY DEF TrimTxBlocks, RecStep
  <1>2. PICK q \in 0 .. MaxBlock + 1 : /\ q * N <= Height /\ Height < q * N + N
                                       /\ rec.extra = q * N .. Height - 1
    BY <1>1 DEF ChainInv, ExtraInv
  <1>3. PICK h \in Nat, p \in Nat : h = Height /\ p = q * N /\ q \in Nat
    BY DiskBasics, ConstantsAssumption
  <1>4. Base(h) = p
    BY <1>2, <1>3, BaseUnique
  <1>5. SourceInv /\ state = disk.root /\ disk.root \in States /\ (Height >= N => disk.delta = {})
    BY <1>1, DiskBasics DEF DiskInv, SourceInv
  <1>6. CASE rec.extra = {}
    <2>1. /\ rec' = [rec EXCEPT !.step = "fetch", !.old = Cardinality(disk.tx)]
          /\ disk' = disk
      BY <1>6 DEF TrimTxBlocks, RecStep
    <2>2. Tail(h) = {}
      BY <1>2, <1>3, <1>4, <1>6 DEF Tail
    <2>3. Derived(Tail(h))
      BY <1>5, <2>2, ApplyAllFacts DEF Derived
    <2> QED
      BY <1>1, <1>3, <2>1, <2>2, <2>3, DiskToFetch
  <1>7. CASE rec.extra # {}
    <2>1. p <= h - 1 /\ Max(rec.extra) = h - 1
      BY <1>2, <1>3, <1>7, MaxInterval
    <2>2. /\ rec'.step = "trim" /\ disk'.tx = disk.tx \ {h - 1}
          /\ disk'.delta = disk.delta /\ disk'.root = disk.root
      BY <1>1, <1>7, <2>1, DiskBasics DEF TrimTxBlocks, RecStep, RecType, DiskType
    <2>3. disk'.tx = 0 .. (h - 1) - 1
      BY <1>3, <2>1, <2>2, DiskBasics
    <2>4. PICK g \in Nat : g = h - 1 /\ Height' = g
      BY <1>3, <2>1, <2>3, HeightFacts DEF Height
    <2>5. Base(g) = Base(h)
      BY <1>4, <2>1, <2>4, BaseSame
    <2>6. Tail(g) \subseteq Tail(h)
      BY <1>3, <1>4, <2>4, <2>5 DEF Tail
    <2>7. h >= N <=> g >= N
      <3>1. N \in Nat /\ (h >= N => p >= N)
        BY <1>4, BaseFacts, ConstantsAssumption
      <3> QED
        BY <1>3, <2>1, <2>4, <3>1
    <2>8. g < N => h < N
      BY <2>4, <2>7, ConstantsAssumption
    <2>9. StopDisk'
      BY <1>1, <1>3, <1>5, <2>2, <2>4, <2>5, <2>6, <2>7, <2>8 DEF DiskInv, StopDisk, ChainSteps
    <2>10. ReadInv'
      BY <1>1, <1>3, <1>5, <2>2, <2>4, <2>7, <2>8 DEF DiskInv, ReadInv
    <2>11. SourceInv'
      BY <1>1, <1>3, <1>5, <2>2, <2>4, <2>7 DEF SourceInv
    <2>12. MatchInv'
      BY <2>2 DEF MatchInv, ChainSteps
    <2> QED
      BY <1>1, <2>2, <2>9, <2>10, <2>11, <2>12 DEF DiskInv
  <1> QED
    BY <1>6, <1>7

\* Their deltas are applied, and written again
LEMMA DiskExtra ==
    ASSUME TypeOK, ChainInv, DiskInv, ApplyExtraDeltas
    PROVE  DiskInv'
  <1>1. /\ mode = "recovering" /\ mode' = "recovering" /\ rec.step = "extra"
        /\ UNCHANGED <<net, netDS, prevRoot>>
    BY DEF ApplyExtraDeltas, RecStep
  <1>2. /\ rec.extra \subseteq Tail(Height) /\ Tail(Height) \ rec.extra \subseteq disk.delta
        /\ Derived(Tail(Height) \ rec.extra) /\ ~ (Height < N)
    BY <1>1 DEF DiskInv, SourceInv, ReadInv
  <1>3. CASE rec.extra = {}
    <2>1. /\ rec' = [rec EXCEPT !.step = "fetch", !.old = Cardinality(disk.tx)]
          /\ UNCHANGED <<disk, state>>
      BY <1>3 DEF ApplyExtraDeltas, RecStep
    <2>2. Tail(Height) \ rec.extra = Tail(Height)
      BY <1>3
    <2> QED
      BY <1>1, <1>2, <2>1, <2>2, DiskToFetch
  <1>4. CASE rec.extra # {}
    <2>1. PICK h \in Nat : h = Height /\ h >= N /\ h <= MaxBlock + 1
      BY <1>2, DiskBasics
    <2>2. PICK m : m = Min(rec.extra)
      OBVIOUS
    <2>3. rec.extra \in SUBSET Nat
      BY DiskBasics DEF RecType
    <2>4. m \in rec.extra
      BY <1>4, <2>2, <2>3, MinFacts
    <2>5. m \in Nat /\ Base(h) <= m /\ m < h /\ m \in Tail(h) /\ m >= 1
      <3>1. Base(h) \in Nat /\ Base(h) >= N /\ N \in Nat /\ N > 2
        BY <2>1, BaseFacts, ConstantsAssumption
      <3> QED
        BY <1>2, <2>1, <2>4, <3>1 DEF Tail
    <2>6. m \in Blocks
      BY <2>1, <2>5, ConstantsAssumption DEF Blocks
    <2>7. /\ rec'.step = "extra" /\ rec'.extra = rec.extra \ {m}
          /\ state' = Apply(state, m)
          /\ disk'.tx = disk.tx /\ disk'.root = disk.root /\ disk'.delta = disk.delta \cup {m}
      BY <1>1, <1>4, <2>2, DiskBasics DEF ApplyExtraDeltas, RecStep, RecType, DiskType
    <2>8. Height' = h
      BY <2>1, <2>7 DEF Height
    <2>9. \A b \in Blocks : state[b] >= 1 => state'[b] >= 1
      <3>1. state \in States /\ \A b \in Blocks : state[b] \in 0 .. 2
        BY DiskBasics DEF States
      <3> QED
        BY <2>6, <2>7, <3>1, ApplyFacts
    <2>10. \A v \in disk'.delta : v > h => v \in disk.delta /\ v \in Blocks
      BY <2>1, <2>5, <2>7, DiskBasics DEF DiskType
    <2>11. StopDisk'
      BY <1>1, <2>1, <2>7, <2>8, <2>10 DEF DiskInv, StopDisk, ChainSteps
    <2>12. ReadInv'
      <3>1. \A v \in disk.delta : v > h /\ Vacuous(v) => state[v] >= 1
        BY <1>1, <2>1 DEF DiskInv, ReadInv
      <3>2. \A v \in disk'.delta : v > h /\ Vacuous(v) => state'[v] >= 1
        BY <2>9, <2>10, <3>1
      <3>3. ~ (h < N)
        BY <1>2, <2>1
      <3>4. h < N => /\ state'[0] = 0
                     /\ rec'.step \notin {"extra", "commit", "lagging", "delta"}
        BY <3>3
      <3> QED
        BY <2>8, <3>2, <3>4, Zenon DEF ReadInv
    <2>13. SourceInv'
      <3>1. PICK ns : ns = Tail(h) \ rec.extra
        OBVIOUS
      <3>2. Tail(h) \ rec'.extra = ns \cup {m} /\ m \notin ns
        BY <2>4, <2>5, <2>7, <3>1
      <3>3. state' = ApplyAll(disk.root, ns \cup {m})
        <4>1. state = ApplyAll(disk.root, ns) /\ disk.root \in States
          BY <1>2, <2>1, <3>1, DiskBasics DEF Derived
        <4>2. ApplyAll(disk.root, ns \cup {m}) = Apply(ApplyAll(disk.root, ns), m)
          BY <2>6, <3>2, <4>1, ApplyOneMore
        <4> QED
          BY <2>7, <4>1, <4>2
      <3>4. ns \cup {m} \subseteq disk'.delta
        BY <1>2, <2>1, <2>7, <3>1
      <3>5. rec'.extra \subseteq Tail(h)
        BY <1>2, <2>1, <2>7
      <3> QED
        BY <2>7, <2>8, <3>2, <3>3, <3>4, <3>5 DEF SourceInv, Derived
    <2>14. MatchInv'
      BY <2>7 DEF MatchInv, ChainSteps
    <2>15. 0 \notin disk'.delta /\ netDS >= DSOf(net)
      BY <2>5, <2>7 DEF DiskInv
    <2> QED
      BY <1>1, <2>11, <2>12, <2>13, <2>14, <2>15 DEF DiskInv
  <1> QED
    BY <1>3, <1>4

\* The lookup's first block, by the DS epoch of the network
LEMMA LowBlock ==
    ASSUME TypeOK, netDS >= DSOf(net), LowBlockNum <= net
    PROVE  /\ LowBlockNum \in Nat /\ Base(net) <= LowBlockNum
           /\ \A n \in Nat : Base(net) <= n /\ n < LowBlockNum => n <= last \/ n = 0
  <1>1. /\ last + 1 \in Int /\ netDS \in Nat /\ net \in Nat /\ N \in Nat /\ N > 2
        /\ last \in Int
    BY ConstantsAssumption, DivFacts DEF TypeOK, Blocks, DSBlocks, None
  <1>2. PICK a \in Int, b \in Int, c \in Int :
           a = last + 1 /\ b = 1 /\ c = (netDS - 1) * N
    BY <1>1
  <1>3. PICK l \in Nat : l = LowBlockNum
    BY LowFacts
  <1>4. l \in {a, b, c} /\ l >= c
    <2>1. Max({a, b, c}) \in {a, b, c} /\ Max({a, b, c}) >= c
      BY MaxOfThree, Zenon
    <2> QED
      BY <1>2, <1>3, <2>1 DEF LowBlockNum
  <1>5. PICK q \in Nat, r \in 0 .. N - 1 : q = net \div N /\ net = q * N + r
    BY <1>1, DivFacts
  <1>6. Base(net) = q * N /\ DSOf(net) = q + 1
    BY <1>5 DEF Base, DSOf
  <1>7. netDS - 1 >= q
    BY <1>1, <1>5, <1>6
  <1>8. c >= q * N
    BY <1>1, <1>2, <1>5, <1>7
  <1>9. c <= q * N
    <2>1. c <= net
      BY <1>1, <1>2, <1>3, <1>4
    <2>2. PICK k \in Nat : k = netDS - 1
      BY <1>1, <1>5, <1>7
    <2>3. k * N <= net /\ net < q * N + N
      BY <1>1, <1>2, <1>5, <2>1, <2>2
    <2> QED
      BY <1>1, <1>2, <2>2, <2>3, MultipleFacts
  <1>10. q * N \in Int
    BY <1>1, <1>5
  <1>11. \A n \in Nat : q * N <= n /\ n < l => n <= last \/ n = 0
    BY <1>1, <1>2, <1>3, <1>4, <1>8, <1>9, <1>10
  <1> QED
    BY <1>2, <1>3, <1>4, <1>6, <1>8, <1>9, <1>10, <1>11

\* Of the blocks that a lookup sends only the last one can be vacuous
LEMMA SentVacuous ==
    ASSUME TypeOK, netDS >= DSOf(net), LowBlockNum <= net,
           NEW v \in LowBlockNum .. net, Vacuous(v)
    PROVE  v = net
  <1>1. net \in Nat /\ LowBlockNum \in Nat /\ Base(net) <= LowBlockNum /\ Base(net) \in Nat
    <2>1. net \in Nat
      BY ConstantsAssumption DEF TypeOK, Blocks
    <2> QED
      BY <2>1, LowBlock, BaseFacts
  <1>2. v \in Nat /\ Base(net) <= v
    BY <1>1
  <1> QED
    BY <1>1, <1>2, TailNotVacuous

\* The recovery is not answered with blocks
LEMMA DiskNoBlocks ==
    ASSUME TypeOK, ChainInv, DiskInv, NoBlocksFromSeed \/ NoDeltasFromSeed
    PROVE  DiskInv'
  <1>1. /\ mode = "recovering" /\ mode' = "recovering" /\ rec.step = "fetch"
        /\ rec' = Notified(last + 1)
        /\ UNCHANGED <<net, netDS, state, prevRoot, disk, last>>
    BY DEF NoBlocksFromSeed, NoDeltasFromSeed, RecStep, GetBlockCount
  <1>2. PICK h \in Nat : h = Height /\ last = h - 1 /\ rec.old = h /\ Height' = h
    BY <1>1, DiskBasics DEF ChainInv, FetchInv, ChainSteps, DiskInv, MatchInv, Height
  <1>3. rec'.step = "validate"
    BY <1>1, <1>2, DiskBasics DEF Notified, RecType
  <1>4. StopDisk' /\ ReadInv'
    BY <1>1, <1>2, <1>3 DEF DiskInv, StopDisk, ReadInv, ChainSteps
  <1>5. SourceInv'
    BY <1>3 DEF SourceInv
  <1>6. MatchInv'
    <2>1. ASSUME h >= N, ValidateStates, ~ Vacuous(h) PROVE disk.root = Prefix(Base(h) - 1)
      <3>1. state = Prefix(h - 1)
        BY <1>2, <2>1 DEF ValidateStates
      <3>2. \A n \in Blocks : n >= h => state[n] = 0
        BY <3>1, DiskBasics DEF Prefix
      <3>3. Derived(Tail(h))
        BY <1>1, <1>2, <2>1, <3>2 DEF DiskInv, MatchInv
      <3> QED
        BY <3>1, <3>3, DerivedRoot, DiskBasics DEF Derived
    <2>2. h >= N => Tail(h) \subseteq disk.delta
      BY <1>1, <1>2 DEF DiskInv, MatchInv, ChainSteps
    <2>3. ValidateStates' => ValidateStates
      BY <1>1 DEF ValidateStates
    <2> QED
      BY <1>1, <1>2, <1>3, <2>1, <2>2, <2>3 DEF MatchInv, RootCurrent
  <1> QED
    BY <1>1, <1>4, <1>5, <1>6 DEF DiskInv

\* State deltas arrive
LEMMA DiskDeltas ==
    ASSUME TypeOK, ChainInv, DiskInv, ProcessSetStateDeltasFromSeed
    PROVE  DiskInv'
  <1>1. PICK new, after : /\ new = (LowBlockNum .. net) \ disk.delta
                          /\ after = ApplyAll(state, new)
    OBVIOUS
  <1>2. /\ mode = "recovering" /\ mode' = "recovering" /\ rec.step = "fetch"
        /\ UNCHANGED <<net, netDS, last>> /\ LowBlockNum <= net
        /\ state' = after /\ prevRoot' = (IF new = {} THEN prevRoot ELSE after)
        /\ rec' = IF prevRoot' = Prefix(net)
                  THEN [rec EXCEPT !.step = "commit", !.high = net] ELSE rec
    BY <1>1 DEF ProcessSetStateDeltasFromSeed, RecStep
  <1>3. /\ disk'.tx = disk.tx /\ disk'.delta = disk.delta \cup new
        /\ disk'.root = IF Vacuous(net) THEN after ELSE disk.root
    BY <1>1, DiskBasics DEF ProcessSetStateDeltasFromSeed, DiskType
  <1>4. PICK h \in Nat : h = Height /\ last = h - 1 /\ rec.old = h /\ Height' = h
    BY <1>2, <1>3, DiskBasics DEF ChainInv, FetchInv, ChainSteps, DiskInv, MatchInv, Height
  <1>5. /\ netDS >= DSOf(net) /\ 0 \notin disk.delta /\ StopDisk /\ ReadInv /\ MatchInv
        /\ net \in Nat /\ net \in Blocks /\ N \in Nat /\ N > 2
    BY <1>2, DiskBasics DEF DiskInv, MemType
  <1>6. PICK low \in Nat : low = LowBlockNum /\ low >= h /\ low >= 1 /\ low <= net
    BY <1>2, <1>4, LowFacts
  <1>7. new \subseteq Blocks /\ \A n \in new : n \in Nat /\ n >= h /\ n >= 1 /\ n <= net
    <2>1. \A n \in new : n \in Nat /\ n >= h /\ n >= 1 /\ n <= net
      BY <1>1, <1>4, <1>5, <1>6
    <2> QED
      BY <1>5, <2>1, ConstantsAssumption DEF Blocks
  <1>8. /\ state \in States /\ after \in States /\ prevRoot \in States
        /\ \A b \in Blocks : state[b] >= 1 => after[b] >= 1
        /\ \A b \in Blocks : b \in new /\ b \notin Quiet => after[b] >= 1
        /\ (\A b \in new : b \in Quiet) => after = state
        /\ \A b \in Blocks : b \notin new => after[b] = state[b]
    <2>1. state \in States /\ after \in States /\ prevRoot \in States
      BY <1>1, ApplyAllFacts, DiskBasics
    <2>2. \A b \in Blocks : state[b] \in 0 .. 2 /\ after[b] \in 0 .. 2
      BY <2>1 DEF States
    <2>3. \A b \in Blocks : state[b] >= 1 => after[b] >= 1
      <3>1. \A b \in Blocks : after[b] >= state[b]
        BY <1>1, <2>1, ApplyAllFacts
      <3> QED
        BY <2>2, <3>1
    <2> QED
      BY <1>1, <1>7, <2>1, <2>3, ApplyAllFacts
  <1>9. ASSUME NEW v \in new, Vacuous(v)
        PROVE  v = net /\ after[v] >= 1 /\ disk'.root = after
    <2>1. v = net
      BY <1>1, <1>2, <1>5, <1>9, SentVacuous
    <2>2. v \notin Quiet
      BY <1>9, RewardsAssumption
    <2> QED
      BY <1>3, <1>7, <1>8, <1>9, <2>1, <2>2
  <1>10. ASSUME h >= N, NEW v \in disk'.delta, v > h, Vacuous(v)
         PROVE  after[v] >= 1 /\ disk'.root[v] >= 1
    <2>1. CASE v \in new
      BY <1>9, <1>10, <2>1
    <2>2. CASE v \in disk.delta
      <3>1. v \in Blocks /\ disk.root[v] >= 1 /\ state[v] >= 1
        BY <1>2, <1>4, <1>5, <1>10, <2>2, DiskBasics DEF StopDisk, ReadInv, DiskType
      <3> QED
        BY <1>3, <1>8, <3>1
    <2> QED
      BY <1>3, <2>1, <2>2
  <1>11. ASSUME h < N PROVE state[0] = 0 /\ after[0] = 0 /\ disk'.root[0] = 0
    <2>1. state[0] = 0 /\ disk.root[0] = 0
      BY <1>2, <1>4, <1>5, <1>11 DEF ReadInv, StopDisk
    <2>2. after[0] = 0
      BY <1>7, <1>8, <2>1, DiskBasics
    <2> QED
      BY <1>3, <2>1, <2>2
  <1>12. prevRoot' \in {Prefix(None), after}
    <2>1. CASE new = {}
      <3>1. after = state /\ prevRoot \in {Prefix(None), state}
        BY <1>2, <1>5, <1>8, <2>1 DEF MatchInv
      <3> QED
        BY <1>2, <2>1, <3>1
    <2>2. CASE new # {}
      BY <1>2, <2>2
    <2> QED
      BY <2>1, <2>2
  <1>13. Prefix(net)[0] = 1 /\ Prefix(None)[0] = 0
    <2>1. 0 \notin Quiet /\ 0 \in Blocks /\ ~ (0 <= None) /\ 0 <= net
      BY <1>5, ConstantsAssumption DEF None, Blocks
    <2> QED
      BY <2>1 DEF Prefix
  <1>14. prevRoot' = Prefix(net) => h >= N /\ after = Prefix(net)
    <2> SUFFICES ASSUME prevRoot' = Prefix(net) PROVE h >= N /\ after = Prefix(net)
      OBVIOUS
    <2>1. after = Prefix(net)
      BY <1>12, <1>13
    <2>2. ~ (h < N)
      BY <1>11, <1>13, <2>1
    <2> QED
      BY <1>4, <1>5, <2>1, <2>2
  <1>15. rec'.step \in {"fetch", "commit"} /\ rec'.old = rec.old
         /\ (rec'.step = "fetch" => rec' = rec)
         /\ (rec'.step = "commit" => prevRoot' = Prefix(net) /\ rec'.high = net)
    BY <1>2, DiskBasics DEF RecType
  <1>16. h >= N => Tail(h) \subseteq disk'.delta
    BY <1>2, <1>3, <1>4, <1>5 DEF MatchInv, ChainSteps
  <1>17. StopDisk'
    BY <1>4, <1>10, <1>11, <1>15, <1>16 DEF StopDisk, ChainSteps
  <1>18. ReadInv'
    <2>1. h < N => /\ state'[0] = 0
                   /\ rec'.step \notin {"extra", "commit", "lagging", "delta"}
      <3>1. h < N => ~ (h >= N)
        BY <1>5
      <3> QED
        BY <1>2, <1>11, <1>14, <1>15, <3>1
    <2>2. h >= N => \A v \in disk'.delta : v > h /\ Vacuous(v) => state'[v] >= 1
      BY <1>2, <1>10
    <2> QED
      BY <1>4, <2>1, <2>2, Zenon DEF ReadInv
  <1>19. SourceInv'
    BY <1>15 DEF SourceInv
  <1>20. ASSUME h >= N
         PROVE  \/ after = ApplyAll(disk'.root, Tail(h))
                \/ \E n \in Blocks : n >= h /\ after[n] >= 1
                \/ Vacuous(h)
    <2>1. CASE \E n \in Blocks : n >= h /\ state[n] >= 1
      BY <1>8, <2>1
    <2>2. CASE \E n \in new : n \notin Quiet
      BY <1>7, <1>8, <2>2
    <2>3. CASE Vacuous(h)
      BY <2>3
    <2>4. CASE Derived(Tail(h)) /\ ~ Vacuous(h) /\ \A n \in new : n \in Quiet
      <3>1. after = state
        BY <1>8, <2>4
      <3>2. CASE ~ Vacuous(net)
        BY <1>3, <2>4, <3>1, <3>2 DEF Derived
      <3>3. CASE Vacuous(net)
        <4>1. net \notin Quiet /\ net \in low .. net /\ net # h /\ net >= h
          BY <1>5, <1>6, <2>4, <3>3, RewardsAssumption
        <4>2. net \in disk.delta
          BY <1>1, <1>6, <2>4, <4>1
        <4>3. net > h
          BY <1>5, <4>1
        <4>4. state[net] >= 1
          BY <1>2, <1>4, <1>5, <1>20, <3>3, <4>2, <4>3 DEF ReadInv
        <4> QED
          BY <1>5, <3>1, <4>1, <4>4
      <3> QED
        BY <3>2, <3>3
    <2>5. \/ Derived(Tail(h)) \/ Vacuous(h)
          \/ \E n \in Blocks : n >= h /\ state[n] >= 1
      BY <1>2, <1>4, <1>5, <1>20 DEF MatchInv
    <2> QED
      BY <2>1, <2>2, <2>3, <2>4, <2>5
  <1>21. ASSUME rec'.step = "commit" PROVE Tail(net + 1) \subseteq disk'.delta
    <2>1. h >= N /\ h <= net
      <3>1. h >= N
        BY <1>14, <1>15, <1>21
      <3> QED
        BY <1>5, <1>6, <3>1
    <2>2. CASE Vacuous(net)
      <3>1. Base(net + 1) = net + 1
        BY <1>5, <2>2, BaseNext
      <3> QED
        BY <1>5, <3>1 DEF Tail
    <2>3. CASE ~ Vacuous(net)
      <3>1. PICK b \in Nat : b = Base(net) /\ b = Base(net + 1) /\ b >= N
        BY <1>4, <1>5, <2>1, <2>3, BaseNext, BaseFacts
      <3> SUFFICES ASSUME NEW n \in b .. net PROVE n \in disk'.delta
        BY <1>5, <3>1 DEF Tail
      <3>2. n \in Nat /\ b <= n /\ n <= net
        BY <1>5, <3>1
      <3>3. CASE n >= low
        <4>1. n \in low .. net
          BY <1>5, <3>2, <3>3
        <4> QED
          BY <1>1, <1>3, <1>6, <4>1
      <3>4. CASE n < low
        <4>1. n <= last
          BY <1>2, <1>5, <1>6, <3>1, <3>2, <3>4, LowBlock
        <4>2. b <= h /\ n < h
          BY <1>4, <3>1, <3>2, <4>1
        <4>3. Base(h) = b
          BY <1>5, <2>1, <3>1, <4>2, BaseSame
        <4>4. n \in Tail(h)
          BY <3>2, <4>2, <4>3 DEF Tail
        <4> QED
          BY <1>16, <2>1, <4>4
      <3> QED
        BY <1>6, <3>2, <3>3, <3>4
    <2> QED
      BY <2>2, <2>3
  <1>22. ASSUME rec'.step = "commit", net = h, net \in Quiet
         PROVE  disk'.root = Prefix(Base(h) - 1)
    <2>1. h >= N /\ after = Prefix(net) /\ ~ Vacuous(h) /\ ~ Vacuous(net)
      BY <1>14, <1>15, <1>22, RewardsAssumption
    <2>2. Prefix(net) = Prefix(h - 1)
      <3>1. \A b \in Blocks : (b <= net /\ b \notin Quiet) <=> (b <= h - 1 /\ b \notin Quiet)
        BY <1>22, DiskBasics
      <3> QED
        BY <3>1 DEF Prefix
    <2>3. \A n \in Blocks : n >= h => after[n] = 0
      BY <2>1, <2>2, DiskBasics DEF Prefix
    <2>4. after = ApplyAll(disk'.root, Tail(h))
      BY <1>20, <2>1, <2>3
    <2>5. disk'.root \in States
      BY <1>3, <2>1, DiskBasics
    <2> QED
      BY <2>1, <2>2, <2>4, <2>5, DerivedRoot
  <1>23. MatchInv'
    BY <1>2, <1>4, <1>12, <1>14, <1>15, <1>16, <1>20, <1>21, <1>22
       DEF MatchInv, Derived, RootCurrent
  <1>24. 0 \notin disk'.delta
    BY <1>3, <1>5, <1>7
  <1> QED
    BY <1>2, <1>5, <1>17, <1>18, <1>19, <1>23, <1>24 DEF DiskInv

\* The fetched blocks are written
LEMMA DiskCommit ==
    ASSUME TypeOK, ChainInv, DiskInv, CommitTxBlocks
    PROVE  DiskInv'
  <1>1. /\ mode = "recovering" /\ mode' = "recovering" /\ rec.step = "commit"
        /\ UNCHANGED <<net, netDS, state, prevRoot>> /\ last' = rec.high
        /\ rec' = Notified(rec.high + 1)
    BY DEF CommitTxBlocks, RecStep
  <1>2. /\ disk'.delta = disk.delta /\ disk'.root = disk.root
        /\ disk'.tx = disk.tx \cup (last + 1 .. rec.high)
    BY DiskBasics DEF CommitTxBlocks, DiskType
  <1>3. /\ ReadInv /\ StopDisk /\ MatchInv /\ 0 \notin disk.delta /\ netDS >= DSOf(net)
        /\ rec.old = Height
    BY <1>1 DEF DiskInv, MatchInv
  <1>4. PICK h \in Nat, k \in Nat : /\ h = Height /\ last = h - 1 /\ k = rec.high /\ k >= h
                                    /\ disk.tx = 0 .. h - 1
    <2>1. last = Height - 1 /\ rec.high > last /\ rec.high \in Int /\ Height \in Nat
      BY <1>1, DiskBasics DEF ChainInv, FetchInv, ChainSteps, RecType, None
    <2> QED
      BY <2>1, DiskBasics
  <1>5. disk'.tx = 0 .. (k + 1) - 1
    BY <1>2, <1>4
  <1>6. Height' = k + 1
    BY <1>5, HeightFacts DEF Height
  <1>7. ~ (h < N) /\ h >= N /\ k + 1 >= N /\ ~ (k + 1 < N)
    <2>1. ~ (h < N)
      BY <1>1, <1>3, <1>4 DEF ReadInv
    <2> QED
      BY <1>4, <2>1, ConstantsAssumption
  <1>8. /\ state = Prefix(k) /\ Tail(k + 1) \subseteq disk.delta
        /\ (k = h /\ k \in Quiet) => disk.root = Prefix(Base(h) - 1)
    BY <1>1, <1>3, <1>4 DEF MatchInv, RootCurrent
  <1>9. /\ rec'.step \in {"lagging", "delta"}
        /\ rec'.step = "delta" => k = h
    BY <1>1, <1>3, <1>4, DiskBasics DEF Notified, RecType
  <1>10. \A v \in disk.delta : v > k + 1 => v > h
    BY <1>4, DiskBasics
  <1>11. StopDisk'
    <2>1. \A v \in disk.delta : v > k + 1 /\ Vacuous(v) => disk.root[v] >= 1
      BY <1>3, <1>4, <1>7, <1>10 DEF StopDisk
    <2> QED
      BY <1>2, <1>6, <1>7, <1>8, <1>9, <2>1 DEF StopDisk, ChainSteps
  <1>12. ReadInv'
    <2>1. \A v \in disk'.delta : v > k + 1 /\ Vacuous(v) => state'[v] >= 1
      BY <1>1, <1>2, <1>3, <1>4, <1>7, <1>10 DEF ReadInv
    <2>2. k + 1 < N => /\ state'[0] = 0
                       /\ rec'.step \notin {"extra", "commit", "lagging", "delta"}
      BY <1>7
    <2> QED
      BY <1>6, <2>1, <2>2, Zenon DEF ReadInv
  <1>13. SourceInv'
    BY <1>9 DEF SourceInv
  <1>14. MatchInv'
    <2>1. ASSUME k = h, k \in Quiet PROVE disk.root = Prefix(Base(k + 1) - 1)
      <3>1. Base(k + 1) = Base(h)
        BY <2>1, BaseNext, RewardsAssumption
      <3> QED
        BY <1>8, <2>1, <3>1
    <2> QED
      BY <1>1, <1>2, <1>4, <1>6, <1>8, <1>9, <2>1 DEF MatchInv, RootCurrent
  <1> QED
    BY <1>1, <1>2, <1>3, <1>11, <1>12, <1>13, <1>14 DEF DiskInv

\* The delta of the last block is applied, which CommitTxBlocks has done already
LEMMA DiskDelta ==
    ASSUME TypeOK, ChainInv, DiskInv, ProcessSetStateDeltaFromSeed
    PROVE  DiskInv'
  <1>1. /\ mode = "recovering" /\ mode' = "recovering" /\ rec.step = "delta"
        /\ UNCHANGED <<net, netDS, prevRoot, disk, last>>
        /\ state' = Apply(state, last) /\ rec'.step = "validate"
    BY DiskBasics DEF ProcessSetStateDeltaFromSeed, RecStep, GoTo, RecType
  <1>2. /\ ReadInv /\ StopDisk /\ MatchInv /\ 0 \notin disk.delta /\ netDS >= DSOf(net)
        /\ state = Prefix(last) /\ (last \in Quiet => RootCurrent)
    BY <1>1 DEF DiskInv, MatchInv
  <1>3. PICK h \in Nat : h = Height /\ last = h - 1 /\ Height' = h /\ ~ (h < N) /\ h >= N
    <2>1. last = Height - 1 /\ Height \in Nat /\ ~ (Height < N) /\ Height' = Height
      BY <1>1, <1>2, DiskBasics DEF ChainInv, FetchInv, ChainSteps, ReadInv, Height
    <2> QED
      BY <2>1, ConstantsAssumption
  <1>4. last \in Blocks /\ last \in Nat /\ state \in States
    BY <1>3, DiskBasics, ConstantsAssumption DEF Blocks
  <1>5. \A b \in Blocks : state[b] >= 1 => state'[b] >= 1
    <2>1. \A b \in Blocks : state[b] \in 0 .. 2
      BY <1>4 DEF States
    <2> QED
      BY <1>1, <1>4, <2>1, ApplyFacts
  <1>6. StopDisk'
    BY <1>1, <1>2, <1>3 DEF StopDisk, ChainSteps
  <1>7. ReadInv'
    <2>1. \A v \in disk'.delta : v > h /\ Vacuous(v) => state'[v] >= 1
      BY <1>1, <1>2, <1>3, <1>5, DiskBasics DEF ReadInv, DiskType
    <2>2. h < N => /\ state'[0] = 0
                   /\ rec'.step \notin {"extra", "commit", "lagging", "delta"}
      BY <1>3
    <2> QED
      BY <1>3, <2>1, <2>2, Zenon DEF ReadInv
  <1>8. SourceInv'
    BY <1>1 DEF SourceInv
  <1>9. ValidateStates' => RootCurrent
    <2> SUFFICES ASSUME state' = Prefix(last), last \notin Quiet PROVE FALSE
      BY <1>1, <1>2 DEF ValidateStates
    <2>1. state[last] = 1 /\ state'[last] = 1
      BY <1>2, <1>4 DEF Prefix
    <2>2. state'[last] = 2
      BY <1>1, <1>4, <2>1, ApplyFacts
    <2> QED
      BY <2>1, <2>2
  <1>10. MatchInv'
    BY <1>1, <1>2, <1>3, <1>9 DEF MatchInv, RootCurrent, ChainSteps
  <1> QED
    BY <1>1, <1>2, <1>6, <1>7, <1>8, <1>10 DEF DiskInv

\* A recovery that ends with success leaves a disk from which the node can be
\* recovered again
LEMMA DiskFinish ==
    ASSUME TypeOK, ChainInv, DiskInv, FinishRecovery
    PROVE  DiskInv'
  <1>1. CASE Fail
    BY <1>1, DiskGivenUp DEF FinishRecovery, Fail
  <1>2. CASE ~ RejoinRules /\ ValidateStates /\ mode' = "running" /\ disk' = disk
    <2>1. /\ mode = "recovering" /\ rec.step = "validate" /\ rec' = NoRec
          /\ UNCHANGED <<net, netDS, last, state, prevRoot, fb, writer>>
      BY DEF FinishRecovery
    <2>2. /\ ReadInv /\ StopDisk /\ MatchInv /\ 0 \notin disk.delta /\ netDS >= DSOf(net)
      BY <2>1 DEF DiskInv
    <2>3. PICK h \in Nat : /\ h = Height /\ last = h - 1 /\ Height' = h /\ last \in Nat
                           /\ h <= MaxBlock + 1
      <3>1. last = Height - 1 /\ Height \in Nat /\ Height' = Height /\ last # None
            /\ Height <= MaxBlock + 1
        BY <1>2, <2>1, DiskBasics
           DEF ChainInv, FetchInv, ChainSteps, Height, ValidateStates
      <3> QED
        BY <3>1 DEF None
    <2>4. state = Prefix(h - 1) /\ ~ Vacuous(h)
      BY <1>2, <2>3, ConstantsAssumption DEF ValidateStates, RejoinRules
    <2>5. ~ (h < N) /\ h >= N
      <3>1. SUFFICES ASSUME h < N PROVE FALSE
        BY <2>3, ConstantsAssumption
      <3>2. state[0] = 0
        BY <2>1, <2>2, <2>3, <3>1 DEF ReadInv
      <3>3. 0 \in Blocks /\ 0 \notin Quiet /\ 0 <= h - 1
        BY <2>3, ConstantsAssumption DEF Blocks
      <3>4. state[0] = 1
        BY <2>4, <3>3 DEF Prefix
      <3> QED
        BY <3>2, <3>4
    <2>6. disk.root = Prefix(Base(h) - 1)
      BY <1>2, <2>1, <2>2, <2>3, <2>4, <2>5 DEF MatchInv, RootCurrent
    <2>7. Tail(h) \subseteq disk.delta
      BY <2>1, <2>2, <2>3, <2>5 DEF MatchInv, ChainSteps
    <2>8. \A v \in disk.delta : v > h => ~ Vacuous(v)
      <3> SUFFICES ASSUME NEW v \in disk.delta, v > h, Vacuous(v) PROVE FALSE
        OBVIOUS
      <3>1. state[v] >= 1 /\ v \in Blocks /\ v \in Nat
        BY <2>1, <2>2, <2>3, <2>5, DiskBasics DEF ReadInv, DiskType
      <3>2. state[v] = 0
        BY <2>3, <2>4, <3>1 DEF Prefix
      <3> QED
        BY <3>1, <3>2
    <2>9. \A n \in 0 .. h - 1 : n \notin Quiet => state[n] >= 1
      <3>1. 0 .. h - 1 \subseteq Blocks
        BY <2>3, ConstantsAssumption DEF Blocks
      <3> QED
        BY <2>4, <3>1 DEF Prefix
    <2>10. fb = None
      BY <2>1 DEF ChainInv, RestInv
    <2>11. RunDisk'
      BY <1>2, <2>1, <2>3, <2>5, <2>6, <2>7, <2>8, <2>9, <2>10 DEF RunDisk, RootCurrent
    <2>12. rec'.step = "idle"
      BY <2>1 DEF NoRec
    <2>13. ReadInv' /\ SourceInv' /\ MatchInv'
      BY <2>12, NotReading
    <2> QED
      BY <1>2, <2>1, <2>2, <2>11, <2>13 DEF DiskInv
  <1> QED
    BY <1>1, <1>2 DEF FinishRecovery

\* Every step keeps what a recovery needs of the disk
LEMMA DiskInvStep ==
    ASSUME TypeOK, ChainInv, DSInv, DiskInv, Next
    PROVE  DiskInv'
  <1>1. CASE ProcessDSBlock
    BY <1>1, DiskFrame DEF ProcessDSBlock, DiskInv
  <1>2. CASE LaggingTooMuch \/ NoOfflineLookups
    BY <1>2, DiskGivenUp DEF LaggingTooMuch, NoOfflineLookups, RecStep, Fail
  <1> QED
    BY <1>1, <1>2, DiskNet, DiskProcess, DiskStore, DiskWriter, DiskDSStep, DiskCrash,
       DiskLinks, DiskStates, DiskTxBlocks, DiskTrim, DiskExtra, DiskNoBlocks, DiskDeltas,
       DiskCommit, DiskDelta, DiskFinish DEF Next, Recover, FetchReply

\* The node of Init has no delta on disk, and no accounts
LEMMA InitDisk == Init => DiskInv
  <1> SUFFICES ASSUME Init PROVE DiskInv
    OBVIOUS
  <1>1. disk.tx = {0} /\ Height = 1 /\ disk.delta = {} /\ disk.root = Prefix(None)
    BY FS_Singleton DEF Init, Height
  <1>2. rec.step = "idle" /\ mode = "running" /\ fb = None /\ state = Prefix(0)
    BY DEF Init, NoRec
  <1>3. N \in Nat /\ N > 2 /\ 0 \in Blocks /\ 0 \notin Quiet
    BY ConstantsAssumption DEF Blocks
  <1>4. RunDisk
    <2>1. disk.root[0] = 0 /\ state[0] = 1
      BY <1>1, <1>2, <1>3 DEF Prefix, None
    <2>2. 0 .. 1 - 1 = {0} /\ ~ (1 >= N)
      BY <1>3
    <2> QED
      BY <1>1, <1>2, <2>1, <2>2 DEF RunDisk
  <1>5. ReadInv /\ SourceInv /\ MatchInv
    BY <1>2 DEF ReadInv, SourceInv, MatchInv, ChainSteps
  <1>6. netDS >= DSOf(net)
    <2>1. 0 \div N = 0
      BY <1>3
    <2> QED
      BY <2>1 DEF Init, DSOf
  <1> QED
    BY <1>1, <1>2, <1>4, <1>5, <1>6 DEF DiskInv

\* Whatever the handlers, their crashes and failed writes, and earlier recoveries
\* have done to it, the disk of the node keeps what a recovery needs
THEOREM DiskInvariance == Spec => []DiskInv
  <1>1. IInv /\ DiskInv /\ [Next]_vars => DiskInv'
    <2> SUFFICES ASSUME IInv, DiskInv, [Next]_vars PROVE DiskInv'
      OBVIOUS
    <2>1. CASE Next
      BY <2>1, DiskInvStep DEF IInv
    <2>2. CASE UNCHANGED vars
      BY <2>2, DiskFrame DEF vars, memory, DiskInv
    <2> QED
      BY <2>1, <2>2
  <1> QED
    BY <1>1, InitDisk, Invariance, PTL DEF Spec

\* A running node at rest can be stopped and recovered: the accounts on disk are
\* those of the last vacuous block and the deltas of the later blocks are there,
\* unless writeStateToDisk was overtaken by the next final block
\* (ProcessFinalBlockCore, RetrieveTxBlocks)
THEOREM RecoverableAtRestHolds == Spec => []RecoverableAtRest
  <1>1. IInv /\ DiskInv => RecoverableAtRest
    <2> SUFFICES ASSUME IInv, DiskInv, mode = "running", Idle, "root" \notin late,
                        Max(disk.tx) >= N - 1
                 PROVE  /\ disk.root = Prefix(Max(disk.tx) - Cardinality(Extra(disk.tx)))
                        /\ Extra(disk.tx) \subseteq disk.delta
      BY DEF RecoverableAtRest
    <2>1. PICK h \in Nat : h = Height /\ disk.tx = 0 .. h - 1 /\ h > 0 /\ h <= MaxBlock + 1
      BY DiskBasics DEF IInv, ChainInv, RunInv
    <2>2. /\ Extra(disk.tx) = Tail(h) /\ Max(disk.tx) = h - 1
          /\ Max(disk.tx) - Cardinality(Extra(disk.tx)) = Base(h) - 1
      BY <2>1, TailIsExtra, ExtraFacts
    <2>3. h >= N /\ N \in Nat /\ N > 2
      BY <2>1, <2>2, ConstantsAssumption
    <2>4. Base(h) - 1 \in Blocks
      <3>1. PICK b \in Nat : b = Base(h) /\ b <= h /\ b >= N
        BY <2>3, BaseFacts
      <3> QED
        BY <2>1, <2>3, <3>1, ConstantsAssumption DEF Blocks
    <2>5. RunDisk /\ writer[Base(h) - 1] = "none"
      BY <2>4 DEF DiskInv, Idle
    <2> QED
      BY <2>1, <2>2, <2>3, <2>5 DEF RunDisk, RootCurrent
  <1> QED
    BY <1>1, Invariance, DiskInvariance, PTL

==============================================================================
