------------------------- MODULE MicroBlockTxnsProofs -------------------------
(***************************************************************************)
(* Proofs about the transactions of a shard's microblock: the type         *)
(* invariant, that the indexes of the pools stay consistent, that a        *)
(* selection stays within the gas limit but for its last transaction,      *)
(* leaves nothing behind that it could have taken and carries on from the  *)
(* nonces of the last final block, that a clean backup accepts only what   *)
(* can be executed, that a backup has what it fetched, and that no         *)
(* transaction disappears from a pool as long as the final blocks can be   *)
(* executed.  They hold for all transactions, packets, leaders, limits,    *)
(* timeouts and losses.                                                    *)
(*                                                                         *)
(* A packet is inserted by a fold, and a selection is a loop of any length *)
(* over the pool, the waiting transactions and those set aside.  What they *)
(* preserve is shown along the function that computes them, one step after *)
(* the other (Stepwise); that the loop ends by itself within MaxIterations *)
(* follows from a measure.  The inductive invariant of the protocol then   *)
(* says when AccountStoreTemp is that of the last final block (NonceInv).  *)
(* A second one (KeptInv) follows what a selection took out of the pool    *)
(* until the final block that executes it.                                 *)
(***************************************************************************)
EXTENDS MicroBlockTxns, TxnPoolProofs, SequenceTheorems

------------------------------------------------------------------------------
(* Folds of insertions *)

\* One step of a fold: over the transactions of a packet (e = 0) or over the
\* packets that a node in epoch e inserts
FoldStep(e, pool, x) ==
    IF e = 0 THEN Insert(pool, x)
    ELSE IF x.epoch + LateAllow < e \/ Vacuous(e) THEN pool
    ELSE InsertAll(pool, x.txns)

\* f goes through the subsets of a sequence's domain
IsFold(f, e, base, seq, d) ==
    f = [s \in SUBSET d |->
           IF s = {} THEN base ELSE FoldStep(e, f[s \ {Max(s)}], seq[Max(s)])]

LEMMA FoldExists ==
    ASSUME NEW e, NEW base, NEW seq, NEW len \in Nat
    PROVE  \E f : IsFold(f, e, base, seq, 1 .. len)
  <1> DEFINE P(k) == \E f : IsFold(f, e, base, seq, 1 .. k)
             B    == {k \in 0 .. len : P(k)}
  <1>1. P(0)
    <2>1. PICK f : f = [s \in SUBSET (1 .. 0) |-> base]
      OBVIOUS
    <2>2. \A s \in SUBSET (1 .. 0) : s = {}
      OBVIOUS
    <2>3. f = [s \in SUBSET (1 .. 0) |->
                 IF s = {} THEN base ELSE FoldStep(e, f[s \ {Max(s)}], seq[Max(s)])]
      BY <2>1, <2>2
    <2> QED
      BY <2>3 DEF IsFold
  <1>2. ASSUME NEW k \in Nat, P(k) PROVE P(k + 1)
    <2>1. PICK f : f = [s \in SUBSET (1 .. k) |->
                          IF s = {} THEN base
                          ELSE FoldStep(e, f[s \ {Max(s)}], seq[Max(s)])]
      BY <1>2 DEF IsFold
    <2>2. PICK g : g = [s \in SUBSET (1 .. k + 1) |->
                          IF k + 1 \in s THEN FoldStep(e, f[s \ {k + 1}], seq[k + 1])
                          ELSE f[s]]
      OBVIOUS
    <2>3. ASSUME NEW s \in SUBSET (1 .. k + 1)
          PROVE  g[s] = IF s = {} THEN base
                        ELSE FoldStep(e, g[s \ {Max(s)}], seq[Max(s)])
      <3>1. CASE k + 1 \in s
        <4>1. Max(s) = k + 1
          <5>1. s \subseteq 0 .. k + 1 /\ s # {} /\ k + 1 \in Nat
            BY <3>1
          <5>2. Max(s) \in s /\ \A y \in s : Max(s) >= y
            BY <5>1, GreatestElement
          <5>3. Max(s) \in 1 .. k + 1 /\ Max(s) >= k + 1
            BY <3>1, <5>2
          <5> QED
            BY <5>3
        <4>2. s \ {k + 1} \in SUBSET (1 .. k) /\ s \ {k + 1} \in SUBSET (1 .. k + 1)
          OBVIOUS
        <4>3. g[s \ {k + 1}] = f[s \ {k + 1}]
          BY <2>2, <4>2
        <4> QED
          BY <2>2, <3>1, <4>1, <4>3
      <3>2. CASE k + 1 \notin s
        <4>1. s \in SUBSET (1 .. k)
          BY <3>2
        <4>2. g[s] = f[s]
          BY <2>2, <3>2
        <4>3. s \ {Max(s)} \in SUBSET (1 .. k) /\ s \ {Max(s)} \in SUBSET (1 .. k + 1)
          BY <4>1
        <4>4. g[s \ {Max(s)}] = f[s \ {Max(s)}]
          BY <2>2, <4>3
        <4> QED
          BY <2>1, <4>1, <4>2, <4>4
      <3> QED
        BY <3>1, <3>2
    <2>4. g = [s \in SUBSET (1 .. k + 1) |->
                 IF s = {} THEN base ELSE FoldStep(e, g[s \ {Max(s)}], seq[Max(s)])]
      BY <2>2, <2>3
    <2> QED
      BY <2>4 DEF IsFold
  <1> HIDE DEF P
  <1>3. \A k \in 0 .. len : k \in B
    <2>1. 0 \in B
      BY <1>1
    <2>2. \A k \in 0 .. len : k < len /\ k \in B => k + 1 \in B
      BY <1>2
    <2> HIDE DEF B
    <2> QED
      BY <2>1, <2>2, Stepwise
  <1>4. P(len)
    BY <1>3
  <1> QED
    BY <1>4 DEF P

\* The values of a fold after each element of the sequence
IsTrace(g, e, base, seq) ==
    /\ g[0] = base
    /\ \A k \in DOMAIN seq : g[k] = FoldStep(e, g[k - 1], seq[k])

LEMMA FoldTrace ==
    ASSUME NEW e, NEW base, NEW S, NEW seq \in Seq(S), NEW f,
           IsFold(f, e, base, seq, DOMAIN seq)
    PROVE  \E g : IsTrace(g, e, base, seq) /\ g[Len(seq)] = f[DOMAIN seq]
  <1>1. PICK len \in Nat : len = Len(seq) /\ DOMAIN seq = 1 .. len
    BY LenProperties
  <1>2. f = [s \in SUBSET (1 .. len) |->
               IF s = {} THEN base ELSE FoldStep(e, f[s \ {Max(s)}], seq[Max(s)])]
    BY <1>1 DEF IsFold
  <1>3. PICK g : g = [k \in 0 .. len |-> f[1 .. k]]
    OBVIOUS
  <1>4. g[0] = base
    <2>1. 1 .. 0 = {} /\ {} \in SUBSET (1 .. len) /\ 0 \in 0 .. len
      OBVIOUS
    <2> QED
      BY <1>2, <1>3, <2>1
  <1>5. ASSUME NEW k \in 1 .. len PROVE g[k] = FoldStep(e, g[k - 1], seq[k])
    <2>1. Max(1 .. k) = k
      BY MaxInterval
    <2>2. (1 .. k) \ {k} = 1 .. (k - 1) /\ 1 .. k # {} /\ 1 .. k \in SUBSET (1 .. len)
      OBVIOUS
    <2>3. k \in 0 .. len /\ k - 1 \in 0 .. len
      OBVIOUS
    <2>4. f[1 .. k] = FoldStep(e, f[(1 .. k) \ {k}], seq[k])
      BY <1>2, <2>1, <2>2
    <2> QED
      BY <1>3, <2>2, <2>3, <2>4
  <1>6. g[len] = f[1 .. len]
    <2>1. len \in 0 .. len
      OBVIOUS
    <2> QED
      BY <1>3, <2>1
  <1> QED
    BY <1>1, <1>4, <1>5, <1>6 DEF IsTrace

\* InsertAll goes through the transactions one by one
LEMMA InsertAllTrace ==
    ASSUME NEW p, NEW txns \in Seq(Txns)
    PROVE  \E g : IsTrace(g, 0, p, txns) /\ InsertAll(p, txns) = g[Len(txns)]
  <1> DEFINE R(f) == f = [s \in SUBSET DOMAIN txns |->
                            IF s = {} THEN p ELSE Insert(f[s \ {Max(s)}], txns[Max(s)])]
  <1>1. PICK len \in Nat : DOMAIN txns = 1 .. len
    BY LenProperties
  <1>2. \A f : R(f) <=> IsFold(f, 0, p, txns, DOMAIN txns)
    BY DEF IsFold, FoldStep
  <1>4. InsertAll(p, txns) = (CHOOSE f : R(f))[DOMAIN txns]
    BY DEF InsertAll, FoldLeft, MapThenFoldSet
  <1> HIDE DEF R
  <1>3. \E f : R(f)
    <2>1. PICK f : IsFold(f, 0, p, txns, DOMAIN txns)
      BY <1>1, FoldExists
    <2> QED
      BY <1>2, <2>1
  <1>5. PICK f : R(f) /\ InsertAll(p, txns) = f[DOMAIN txns]
    BY <1>3, <1>4
  <1> QED
    BY <1>2, <1>5, FoldTrace

LEMMA InsertAllMerged ==
    ASSUME NEW p, GoodPool(p), NEW txns \in Seq(Txns)
    PROVE  Merged(p, InsertAll(p, txns), ToSet(txns))
  <1>1. PICK len \in Nat : /\ len = Len(txns) /\ DOMAIN txns = 1 .. len
                           /\ \A i \in 1 .. len : txns[i] \in Txns
    BY LenProperties, ElementOfSeq
  <1>2. PICK g : IsTrace(g, 0, p, txns) /\ InsertAll(p, txns) = g[len]
    BY <1>1, InsertAllTrace
  <1> DEFINE T(k) == {txns[i] : i \in 1 .. k}
             B == {k \in 0 .. len : Merged(p, g[k], T(k))}
  <1>3. 0 \in B
    <2>1. T(0) = {} /\ g[0] = p /\ 0 \in 0 .. len
      BY <1>2 DEF IsTrace
    <2> QED
      BY <2>1, MergedRefl
  <1>4. ASSUME NEW k \in 0 .. len, k < len, k \in B PROVE k + 1 \in B
    <2>1. k + 1 \in 1 .. len /\ (k + 1) - 1 = k /\ k + 1 \in 0 .. len
      BY <1>4
    <2>2. g[k + 1] = Insert(g[k], txns[k + 1])
      BY <1>1, <1>2, <2>1 DEF IsTrace, FoldStep
    <2>3. Merged(p, g[k], T(k)) /\ GoodPool(g[k])
      BY <1>4 DEF Merged
    <2>4. Merged(g[k], g[k + 1], {txns[k + 1]})
      BY <1>1, <2>1, <2>2, <2>3, InsertMerged
    <2>5. T(k) \cup {txns[k + 1]} = T(k + 1)
      BY <2>1
    <2> HIDE DEF T
    <2>6. Merged(p, g[k + 1], T(k) \cup {txns[k + 1]})
      BY <2>3, <2>4, MergedTrans
    <2> QED
      BY <2>1, <2>5, <2>6
  <1>5. \A k \in 0 .. len : k \in B
    <2> HIDE DEF B
    <2> QED
      BY <1>3, <1>4, Stepwise
  <1>6. Merged(p, g[len], T(len))
    <2>1. len \in 0 .. len
      OBVIOUS
    <2>2. len \in B
      BY <1>5, <2>1
    <2> QED
      BY <2>2
  <1>7. T(len) = ToSet(txns)
    BY <1>1 DEF ToSet
  <1> QED
    BY <1>2, <1>6, <1>7

\* PoolAfter goes through the packets one by one
LEMMA PoolAfterTrace ==
    ASSUME NEW n, epoch[n] # 0, NEW packets \in Seq(Packets)
    PROVE  \E g : /\ IsTrace(g, epoch[n], created[n], packets)
                  /\ PoolAfter(n, packets) = g[Len(packets)]
  <1> DEFINE R(f) == f = [s \in SUBSET DOMAIN packets |->
                            IF s = {} THEN created[n]
                            ELSE IF \/ packets[Max(s)].epoch + LateAllow < epoch[n]
                                    \/ Vacuous(epoch[n])
                                 THEN f[s \ {Max(s)}]
                                 ELSE InsertAll(f[s \ {Max(s)}], packets[Max(s)].txns)]
  <1>1. PICK len \in Nat : DOMAIN packets = 1 .. len
    BY LenProperties
  <1>2. \A f : R(f) <=> IsFold(f, epoch[n], created[n], packets, DOMAIN packets)
    BY DEF IsFold, FoldStep
  <1>3. PoolAfter(n, packets) = (CHOOSE f : R(f))[DOMAIN packets]
    BY DEF PoolAfter, FoldLeft, MapThenFoldSet
  <1> HIDE DEF R
  <1>4. \E f : R(f)
    <2>1. PICK f : IsFold(f, epoch[n], created[n], packets, DOMAIN packets)
      BY <1>1, FoldExists
    <2> QED
      BY <1>2, <2>1
  <1>5. PICK f : R(f) /\ PoolAfter(n, packets) = f[DOMAIN packets]
    BY <1>3, <1>4
  <1> QED
    BY <1>2, <1>5, FoldTrace

LEMMA PoolAfterMerged ==
    ASSUME NEW n, epoch[n] # 0, GoodPool(created[n]), NEW packets \in Seq(Packets)
    PROVE  \E S \in SUBSET Txns : Merged(created[n], PoolAfter(n, packets), S)
  <1>1. PICK len \in Nat : /\ len = Len(packets) /\ DOMAIN packets = 1 .. len
                           /\ \A i \in 1 .. len : packets[i] \in Packets
    BY LenProperties, ElementOfSeq
  <1>2. PICK g : /\ IsTrace(g, epoch[n], created[n], packets)
                 /\ PoolAfter(n, packets) = g[len]
    BY <1>1, PoolAfterTrace
  <1> DEFINE P(k) == \E S \in SUBSET Txns : Merged(created[n], g[k], S)
             B == {k \in 0 .. len : P(k)}
  <1>3. 0 \in B
    <2>1. g[0] = created[n] /\ 0 \in 0 .. len /\ {} \in SUBSET Txns
      BY <1>2 DEF IsTrace
    <2>2. Merged(created[n], created[n], {})
      BY MergedRefl
    <2> QED
      BY <2>1, <2>2
  <1>4. ASSUME NEW k \in 0 .. len, k < len, k \in B PROVE k + 1 \in B
    <2>1. k + 1 \in 1 .. len /\ (k + 1) - 1 = k /\ k + 1 \in 0 .. len
      BY <1>4
    <2>2. PICK x : x = packets[k + 1] /\ x \in Packets /\ x.txns \in Seq(Txns)
      BY <1>1, <2>1, ConstantsAssumption
    <2>3. g[k + 1] = FoldStep(epoch[n], g[k], x)
      BY <1>1, <1>2, <2>1, <2>2 DEF IsTrace
    <2>4. g[k + 1] = g[k] \/ g[k + 1] = InsertAll(g[k], x.txns)
      BY <2>3 DEF FoldStep
    <2>5. PICK S \in SUBSET Txns : Merged(created[n], g[k], S)
      BY <1>4
    <2>6. CASE g[k + 1] = g[k]
      BY <2>1, <2>5, <2>6
    <2>7. CASE g[k + 1] = InsertAll(g[k], x.txns)
      <3>1. GoodPool(g[k])
        BY <2>5 DEF Merged
      <3>2. Merged(g[k], g[k + 1], ToSet(x.txns))
        BY <2>2, <2>7, <3>1, InsertAllMerged
      <3>3. Merged(created[n], g[k + 1], S \cup ToSet(x.txns))
        BY <2>5, <3>2, MergedTrans
      <3>4. ToSet(x.txns) \in SUBSET Txns
        BY <2>2, ElementOfSeq DEF ToSet
      <3>5. S \cup ToSet(x.txns) \in SUBSET Txns
        BY <3>4
      <3>6. P(k + 1)
        BY <3>3, <3>5
      <3> QED
        BY <2>1, <3>6
    <2> QED
      BY <2>4, <2>6, <2>7
  <1>5. \A k \in 0 .. len : k \in B
    <2> HIDE DEF B
    <2> QED
      BY <1>3, <1>4, Stepwise
  <1>6. P(len)
    <2>1. len \in 0 .. len
      OBVIOUS
    <2>2. len \in B
      BY <1>5, <2>1
    <2> QED
      BY <2>2
  <1> QED
    BY <1>2, <1>6

\* SetToSeq lists a finite set
LEMMA SetToSeqFacts ==
    ASSUME NEW T, NEW S \in SUBSET T, IsFiniteSet(S)
    PROVE  SetToSeq(S) \in Seq(T) /\ ToSet(SetToSeq(S)) = S
  <1>1. PICK c \in Nat : c = Cardinality(S)
    BY FS_CardinalityType
  <1>2. ExistsBijection(1 .. c, S)
    BY <1>1, FS_CardinalityType
  <1>3. PICK h : h \in Injection(1 .. c, S)
    BY <1>2 DEF ExistsBijection, Bijection
  <1>4. h \in [1 .. c -> S] /\ IsInjective(h)
    BY <1>3 DEF Injection
  <1>5. PICK f : f = SetToSeq(S) /\ f \in [1 .. c -> S] /\ IsInjective(f)
    BY <1>1, <1>4 DEF SetToSeq
  <1>6. f \in Injection(1 .. c, S)
    BY <1>5 DEF Injection
  <1>7. IsFiniteSet(1 .. c) /\ Cardinality(1 .. c) = c
    BY FS_Interval
  <1>8. f \in Surjection(1 .. c, S)
    BY <1>1, <1>6, <1>7, FS_Injection
  <1>9. ToSet(f) = S
    BY <1>5, <1>8 DEF Surjection, ToSet
  <1>10. f \in Seq(T)
    <2>1. f \in [1 .. c -> T]
      BY <1>5
    <2> QED
      BY <2>1, SeqDef
  <1> QED
    BY <1>5, <1>9, <1>10

------------------------------------------------------------------------------
(* One selection *)

\* How many of the first i transactions are of sender s
Counted(txns, i, s) == Cardinality({j \in 1 .. i : Sender[txns[j]] = s})

\* The transactions carry on from the nonces of base
From(txns, base) ==
    \A i \in DOMAIN txns :
        Nonce[txns[i]] = base[Sender[txns[i]]] + 1 + Counted(txns, i - 1, Sender[txns[i]])

LEMMA ExecutableFrom ==
    ASSUME NEW txns, NEW e
    PROVE  Executable(txns, e) <=> From(txns, NonceAfter(e))
  BY DEF Executable, From, Counted

LEMMA CountedType ==
    ASSUME NEW txns, NEW i \in Int, NEW s
    PROVE  Counted(txns, i, s) \in Nat
  <1>1. IsFiniteSet(1 .. i)
    BY FS_Interval
  <1>2. IsFiniteSet({j \in 1 .. i : Sender[txns[j]] = s})
    BY <1>1, FS_Subset
  <1> QED
    BY <1>2, FS_CardinalityType DEF Counted

LEMMA CountedNone ==
    ASSUME NEW txns, NEW s
    PROVE  Counted(txns, 0, s) = 0
  <1>1. {j \in 1 .. 0 : Sender[txns[j]] = s} = {}
    OBVIOUS
  <1> QED
    BY <1>1, FS_EmptySet DEF Counted

LEMMA CountedAppend ==
    ASSUME NEW txns \in Seq(Txns), NEW t \in Txns, NEW s
    PROVE  /\ \A i \in 0 .. Len(txns) : Counted(Append(txns, t), i, s) = Counted(txns, i, s)
           /\ Counted(Append(txns, t), Len(txns) + 1, s) =
                 Counted(txns, Len(txns), s) + IF Sender[t] = s THEN 1 ELSE 0
  <1>1. PICK new : new = Append(txns, t)
    OBVIOUS
  <1>2. /\ Len(txns) \in Nat /\ new[Len(txns) + 1] = t
        /\ \A j \in 1 .. Len(txns) : new[j] = txns[j]
    BY <1>1, AppendProperties, LenProperties
  <1>3. PICK len \in Nat : len = Len(txns)
    BY <1>2
  <1>4. ASSUME NEW i \in 0 .. len PROVE Counted(new, i, s) = Counted(txns, i, s)
    <2>1. \A j \in 1 .. i : new[j] = txns[j]
      BY <1>2, <1>3
    <2>2. {j \in 1 .. i : Sender[new[j]] = s} = {j \in 1 .. i : Sender[txns[j]] = s}
      BY <2>1
    <2> QED
      BY <2>2 DEF Counted
  <1>5. Counted(new, len + 1, s) = Counted(txns, len, s) + IF Sender[t] = s THEN 1 ELSE 0
    <2> DEFINE A == {j \in 1 .. len : Sender[new[j]] = s}
               C == {j \in 1 .. len + 1 : Sender[new[j]] = s}
    <2>1. IsFiniteSet(A) /\ len + 1 \notin A
      <3>1. IsFiniteSet(1 .. len)
        BY FS_Interval
      <3>2. IsFiniteSet(A)
        BY <3>1, FS_Subset
      <3> QED
        BY <3>2
    <2>2. Cardinality(A) = Counted(txns, len, s) /\ Cardinality(C) = Counted(new, len + 1, s)
      <3>1. len \in 0 .. len
        OBVIOUS
      <3>2. Counted(new, len, s) = Counted(txns, len, s)
        BY <1>4, <3>1
      <3> QED
        BY <3>2 DEF Counted
    <2>3. Sender[t] = s => C = A \cup {len + 1}
      BY <1>2, <1>3
    <2>4. Sender[t] # s => C = A
      BY <1>2, <1>3
    <2> HIDE DEF A, C
    <2>5. Sender[t] = s => Cardinality(C) = Cardinality(A) + 1
      BY <2>1, <2>3, FS_AddElement
    <2>6. Cardinality(A) \in Nat
      BY <2>1, FS_CardinalityType
    <2> QED
      BY <2>2, <2>4, <2>5, <2>6
  <1> QED
    BY <1>1, <1>3, <1>4, <1>5

LEMMA FromAppend ==
    ASSUME NEW txns \in Seq(Txns), NEW t \in Txns, NEW base, From(txns, base),
           Nonce[t] = base[Sender[t]] + 1 + Counted(txns, Len(txns), Sender[t])
    PROVE  From(Append(txns, t), base)
  <1>1. PICK new : new = Append(txns, t)
    OBVIOUS
  <1>2. PICK len \in Nat : len = Len(txns) /\ DOMAIN txns = 1 .. len
    BY LenProperties
  <1>3. /\ new[len + 1] = t /\ DOMAIN new = 1 .. len + 1
        /\ \A j \in 1 .. len : new[j] = txns[j]
    BY <1>1, <1>2, AppendProperties, LenProperties
  <1>4. ASSUME NEW i \in 1 .. len + 1
        PROVE  Nonce[new[i]] = base[Sender[new[i]]] + 1 + Counted(new, i - 1, Sender[new[i]])
    <2>1. i - 1 \in 0 .. len
      BY <1>4
    <2>2. Counted(new, i - 1, Sender[new[i]]) = Counted(txns, i - 1, Sender[new[i]])
      BY <1>1, <1>2, <2>1, CountedAppend
    <2>3. CASE i = len + 1
      <3>1. i - 1 = len
        BY <2>3
      <3> QED
        BY <1>2, <1>3, <2>2, <2>3, <3>1
    <2>4. CASE i # len + 1
      <3>1. i \in 1 .. len
        BY <2>4
      <3> QED
        BY <1>2, <1>3, <2>2, <3>1 DEF From
    <2> QED
      BY <2>3, <2>4
  <1>5. From(new, base)
    BY <1>3, <1>4 DEF From
  <1> QED
    BY <1>1, <1>5

\* Two lists of the same transactions that both carry on from some nonces carry
\* on from the same ones
LEMMA FromSame ==
    ASSUME NEW a \in Seq(Txns), NEW b \in Seq(Txns), ToSet(a) = ToSet(b),
           NEW base \in [Senders -> Nat], From(a, base),
           NEW other \in [Senders -> Nat], From(b, other)
    PROVE  From(b, base)
  <1>1. /\ \A i \in DOMAIN a : a[i] \in Txns /\ i \in Nat \ {0}
        /\ \A i \in DOMAIN b : b[i] \in Txns /\ i \in Nat \ {0}
    BY ElementOfSeq, LenProperties
  <1>2. \A i \in DOMAIN a : \A j \in 1 .. i - 1 : j \in DOMAIN a
    BY LenProperties
  <1>3. \A i \in DOMAIN b : \A j \in 1 .. i - 1 : j \in DOMAIN b
    BY LenProperties
  <1>4. \A t \in Txns : Sender[t] \in Senders /\ Nonce[t] \in Nat
    BY TxnsAssumption DEF Senders
  <1>5. ASSUME NEW x \in Seq(Txns), NEW s \in Senders, NEW from \in [Senders -> Nat],
               From(x, from), \E i \in DOMAIN x : Sender[x[i]] = s
        PROVE  /\ \E t \in ToSet(x) : Sender[t] = s /\ Nonce[t] = from[s] + 1
               /\ \A t \in ToSet(x) : Sender[t] = s => Nonce[t] >= from[s] + 1
    <2>1. PICK len \in Nat : /\ DOMAIN x = 1 .. len
                             /\ \A i \in 1 .. len : x[i] \in Txns
      BY LenProperties, ElementOfSeq
    <2> DEFINE I == {i \in 1 .. len : Sender[x[i]] = s}
    <2>2. I \in SUBSET Nat /\ I # {}
      BY <1>5, <2>1
    <2>3. PICK i \in I : \A j \in I : i <= j
      <3> HIDE DEF I
      <3> QED
        BY <2>2, LeastElement
    <2>4. i \in 1 .. len /\ Sender[x[i]] = s
      OBVIOUS
    <2>5. {j \in 1 .. i - 1 : Sender[x[j]] = s} = {}
      <3> SUFFICES ASSUME NEW j \in 1 .. i - 1, Sender[x[j]] = s PROVE FALSE
        OBVIOUS
      <3>1. j \in I /\ ~ (i <= j)
        BY <2>4
      <3> QED
        BY <2>3, <3>1
    <2>6. Counted(x, i - 1, s) = 0
      BY <2>5, FS_EmptySet DEF Counted
    <2>7. Nonce[x[i]] = from[s] + 1
      <3>1. Nonce[x[i]] = from[s] + 1 + Counted(x, i - 1, s)
        BY <1>5, <2>1, <2>4 DEF From
      <3>2. from[s] \in Nat
        OBVIOUS
      <3> QED
        BY <2>6, <3>1, <3>2
    <2>8. ASSUME NEW t \in ToSet(x), Sender[t] = s PROVE Nonce[t] >= from[s] + 1
      <3>1. PICK j \in 1 .. len : t = x[j]
        BY <2>1 DEF ToSet
      <3>2. Counted(x, j - 1, s) \in Nat
        BY CountedType
      <3>3. Nonce[t] = from[s] + 1 + Counted(x, j - 1, s)
        BY <1>5, <2>1, <2>8, <3>1 DEF From
      <3> QED
        BY <3>2, <3>3
    <2> QED
      BY <2>1, <2>4, <2>7, <2>8 DEF ToSet
  <1>6. ASSUME NEW i \in DOMAIN b PROVE base[Sender[b[i]]] = other[Sender[b[i]]]
    <2>1. PICK s \in Senders : s = Sender[b[i]]
      BY <1>1, <1>4
    <2>2. PICK j \in DOMAIN a : b[i] = a[j]
      <3>1. b[i] \in ToSet(b)
        BY DEF ToSet
      <3>2. b[i] \in ToSet(a)
        BY <3>1
      <3> QED
        BY <3>2 DEF ToSet
    <2>3. \E k \in DOMAIN a : Sender[a[k]] = s
      BY <2>1, <2>2
    <2>4. \E k \in DOMAIN b : Sender[b[k]] = s
      BY <2>1
    <2>5. /\ \E t \in ToSet(a) : Sender[t] = s /\ Nonce[t] = base[s] + 1
          /\ \A t \in ToSet(a) : Sender[t] = s => Nonce[t] >= base[s] + 1
      BY <1>5, <2>3
    <2>6. /\ \E t \in ToSet(b) : Sender[t] = s /\ Nonce[t] = other[s] + 1
          /\ \A t \in ToSet(b) : Sender[t] = s => Nonce[t] >= other[s] + 1
      BY <1>5, <2>4
    <2>7. base[s] \in Nat /\ other[s] \in Nat
      OBVIOUS
    <2>8. base[s] + 1 >= other[s] + 1 /\ other[s] + 1 >= base[s] + 1
      BY <2>5, <2>6
    <2> QED
      BY <2>1, <2>7, <2>8
  <1> QED
    BY <1>6 DEF From

(* What every iteration of a selection preserves *)

SelectionFields == {"pool", "waiting", "order", "gas", "nonce", "exceeded", "stop"}

SelType(st) ==
    /\ DOMAIN st = SelectionFields
    /\ GoodPool(st.pool)
    /\ st.waiting \in SUBSET Txns
    /\ st.order \in Seq(Txns) /\ st.exceeded \in Seq(Txns)
    /\ st.gas \in Nat /\ st.nonce \in [Senders -> Nat]
    /\ st.stop \in {"none", "gas", "exhausted"}

\* The executed transactions carry on from the nonces the selection began with,
\* and the last one began below the gas limit
SelOrder(base, st) ==
    /\ st.order # <<>> => st.gas - Used[Last(st.order)] < GasLimit
    /\ From(st.order, base)
    /\ \A s \in Senders : st.nonce[s] = base[s] + Counted(st.order, Len(st.order), s)

\* The waiting transactions: one per sender and nonce, none of them too late
SelWaiting(st) ==
    /\ \A u \in st.waiting : Nonce[u] >= st.nonce[Sender[u]] + 1
    /\ \A u, v \in st.waiting : Key(u) = Key(v) => u = v

\* What is set aside does not fit, and came from above the empty entries
SelAside(st) ==
    /\ \A u \in ToSet(st.exceeded) : st.gas + Limit[u] > GasLimit
    /\ \A g \in DOMAIN st.pool.gas : st.pool.gas[g] = {} =>
          \A u \in st.waiting \cup ToSet(st.exceeded) : Price[u] > g

SelInv(base, st) ==
    /\ SelType(st) /\ SelOrder(base, st) /\ SelWaiting(st) /\ SelAside(st)
    /\ st.stop = "exhausted" => Ready(st) = {} /\ ~ CanFindOne(st.pool)

LEMMA TxnFacts ==
    ASSUME NEW t \in Txns
    PROVE  /\ t \in Nat /\ Sender[t] \in Nat /\ Sender[t] \in Senders
           /\ Nonce[t] \in Nat /\ Price[t] \in Nat
           /\ Limit[t] \in Nat /\ Used[t] \in Nat
  BY TxnsAssumption, ConstantsAssumption DEF Senders

LEMMA ExecuteKeeps ==
    ASSUME NEW base \in [Senders -> Nat], NEW st, SelInv(base, st), st.stop = "none",
           st.gas < GasLimit, NEW t \in Txns, Nonce[t] = Next1(st, t),
           \A u \in st.waiting : Sender[u] = Sender[t] => Nonce[u] # Nonce[t]
    PROVE  /\ SelInv(base, Execute(st, t))
           /\ Execute(st, t).pool = st.pool /\ Execute(st, t).waiting = st.waiting
  <1>1. CASE ~ Valid[t]
    BY <1>1 DEF Execute
  <1>2. CASE Valid[t]
    <2>1. PICK new : new = Execute(st, t)
      OBVIOUS
    <2>2. SelType(st) /\ SelOrder(base, st) /\ SelWaiting(st) /\ SelAside(st)
      BY DEF SelInv
    <2>3. PICK s \in Senders : s = Sender[t]
      BY TxnFacts
    <2>4. Used[t] \in Nat /\ GasLimit \in Nat /\ Nonce[t] = st.nonce[s] + 1
      BY <2>3, TxnFacts, ConstantsAssumption DEF Next1
    <2>5. new = [st EXCEPT !.order = Append(st.order, t), !.gas = st.gas + Used[t],
                           !.nonce = [st.nonce EXCEPT ![s] = st.nonce[s] + 1]]
      BY <1>2, <2>1, <2>2, <2>3 DEF Execute, SelType, SelectionFields
    <2>6. /\ DOMAIN new = SelectionFields
          /\ new.order = Append(st.order, t) /\ new.gas = st.gas + Used[t]
          /\ new.nonce = [st.nonce EXCEPT ![s] = st.nonce[s] + 1]
          /\ new.pool = st.pool /\ new.waiting = st.waiting
          /\ new.exceeded = st.exceeded /\ new.stop = st.stop
      BY <2>2, <2>5 DEF SelType, SelectionFields
    <2>7. /\ Append(st.order, t) \in Seq(Txns) /\ Len(new.order) = Len(st.order) + 1
          /\ new.order # <<>> /\ Last(new.order) = t
      <3>1. st.order \in Seq(Txns) /\ Len(st.order) \in Nat
        BY <2>2, LenProperties DEF SelType
      <3> QED
        BY <2>6, <3>1, AppendProperties DEF Last
    <2>8. SelType(new)
      BY <2>2, <2>4, <2>6, <2>7 DEF SelType
    <2>9. SelOrder(base, new)
      <3>1. new.gas - Used[Last(new.order)] < GasLimit
        <4>1. st.gas \in Nat
          BY <2>2 DEF SelType
        <4> QED
          BY <2>4, <2>6, <2>7, <4>1
      <3>2. st.order \in Seq(Txns)
        BY <2>2 DEF SelType
      <3>3. \A r \in Senders : st.nonce[r] = base[r] + Counted(st.order, Len(st.order), r)
        BY <2>2 DEF SelOrder
      <3>4. Counted(st.order, Len(st.order), s) \in Nat /\ base[s] \in Nat
        <4>1. Len(st.order) \in Int
          BY <3>2, LenProperties
        <4> QED
          BY <4>1, CountedType
      <3>5. Nonce[t] = base[s] + 1 + Counted(st.order, Len(st.order), s)
        BY <2>4, <3>3, <3>4
      <3>6. From(new.order, base)
        <4>1. From(st.order, base)
          BY <2>2 DEF SelOrder
        <4> QED
          BY <2>3, <2>6, <3>2, <3>5, <4>1, FromAppend
      <3>7. ASSUME NEW r \in Senders
            PROVE  new.nonce[r] = base[r] + Counted(new.order, Len(new.order), r)
        <4>1. Counted(new.order, Len(new.order), r) =
                 Counted(st.order, Len(st.order), r) + IF s = r THEN 1 ELSE 0
          BY <2>3, <2>6, <2>7, <3>2, CountedAppend
        <4>2. Counted(st.order, Len(st.order), r) \in Nat /\ base[r] \in Nat
          <5>1. Len(st.order) \in Int
            BY <3>2, LenProperties
          <5> QED
            BY <5>1, CountedType
        <4>3. st.nonce \in [Senders -> Nat]
          BY <2>2 DEF SelType
        <4>4. new.nonce[r] = IF s = r THEN st.nonce[s] + 1 ELSE st.nonce[r]
          BY <2>6, <4>3
        <4>5. st.nonce[r] = base[r] + Counted(st.order, Len(st.order), r)
          BY <3>3
        <4> QED
          BY <4>1, <4>2, <4>4, <4>5
      <3> QED
        BY <3>1, <3>6, <3>7 DEF SelOrder
    <2>10. SelWaiting(new)
      <3>1. ASSUME NEW u \in new.waiting PROVE Nonce[u] >= new.nonce[Sender[u]] + 1
        <4>1. u \in st.waiting /\ u \in Txns /\ Nonce[u] >= st.nonce[Sender[u]] + 1
          BY <2>2, <2>6 DEF SelType, SelWaiting
        <4>2. Sender[u] \in Senders /\ Nonce[u] \in Nat
          BY <4>1, TxnFacts
        <4>3. st.nonce \in [Senders -> Nat]
          BY <2>2 DEF SelType
        <4>4. new.nonce[Sender[u]] =
                 IF s = Sender[u] THEN st.nonce[s] + 1 ELSE st.nonce[Sender[u]]
          BY <2>6, <4>2, <4>3
        <4>5. s = Sender[u] => Nonce[u] # Nonce[t]
          BY <2>3, <4>1
        <4>6. st.nonce[s] \in Nat /\ st.nonce[Sender[u]] \in Nat
          BY <4>2, <4>3
        <4> QED
          BY <2>4, <4>1, <4>2, <4>4, <4>5, <4>6
      <3>2. \A u, v \in new.waiting : Key(u) = Key(v) => u = v
        BY <2>2, <2>6 DEF SelWaiting
      <3> QED
        BY <3>1, <3>2 DEF SelWaiting
    <2>11. SelAside(new)
      <3>1. ASSUME NEW u \in ToSet(new.exceeded) PROVE new.gas + Limit[u] > GasLimit
        <4>1. st.gas + Limit[u] > GasLimit
          BY <2>2, <2>6 DEF SelAside
        <4>2. st.gas \in Nat
          BY <2>2 DEF SelType
        <4>3. u \in Txns
          BY <2>2, <2>6, ElementOfSeq DEF SelType, ToSet
        <4>4. Limit[u] \in Nat
          BY <4>3, TxnFacts
        <4> QED
          BY <2>4, <2>6, <4>1, <4>2, <4>4
      <3>2. \A g \in DOMAIN new.pool.gas : new.pool.gas[g] = {} =>
               \A u \in new.waiting \cup ToSet(new.exceeded) : Price[u] > g
        BY <2>2, <2>6 DEF SelAside
      <3> QED
        BY <3>1, <3>2 DEF SelAside
    <2>12. SelInv(base, new)
      BY <2>6, <2>8, <2>9, <2>10, <2>11 DEF SelInv
    <2> QED
      BY <2>1, <2>6, <2>12
  <1> QED
    BY <1>1, <1>2

\* How many iterations a selection has left, at most
Measure(st) == 2 * Cardinality(st.pool.hash) + Cardinality(st.waiting)

LEMMA TxnsFinite ==
    ASSUME NEW S \in SUBSET Txns
    PROVE  /\ IsFiniteSet(S) /\ Cardinality(S) \in Nat
           /\ Cardinality(S) <= Cardinality(Txns) /\ Cardinality(Txns) \in Nat
  <1>1. IsFiniteSet(Txns)
    BY TxnsAssumption
  <1> QED
    BY <1>1, FS_Subset, FS_CardinalityType

LEMMA ReadyFacts ==
    ASSUME NEW base, NEW st, SelInv(base, st), NEW t \in Txns, Nonce[t] = Next1(st, t)
    PROVE  /\ t \in st.waiting => t \in Ready(st)
           /\ \A u \in st.waiting : Sender[u] = Sender[t] /\ Nonce[u] = Nonce[t] =>
                 u \in Ready(st)
  <1>1. ASSUME NEW u \in st.waiting, Sender[u] = Sender[t], Nonce[u] = Nonce[t]
        PROVE  u \in Ready(st)
    <2>1. Nonce[u] = Next1(st, u)
      BY <1>1 DEF Next1
    <2>2. ASSUME NEW v \in st.waiting, Sender[v] = Sender[u] PROVE Nonce[u] <= Nonce[v]
      <3>1. Nonce[v] >= st.nonce[Sender[v]] + 1
        BY DEF SelInv, SelWaiting
      <3>2. u \in Txns /\ v \in Txns
        BY DEF SelInv, SelType
      <3>3. Nonce[u] = st.nonce[Sender[v]] + 1
        BY <2>1, <2>2 DEF Next1
      <3>4. Nonce[u] \in Nat /\ Nonce[v] \in Nat
        BY <3>2, TxnFacts
      <3> QED
        BY <3>1, <3>3, <3>4
    <2> QED
      BY <2>1, <2>2 DEF Ready
  <1> QED
    BY <1>1

LEMMA FromWaitingKeeps ==
    ASSUME NEW base \in [Senders -> Nat], NEW st, SelInv(base, st), st.stop = "none",
           GasLeft(st), NEW t \in Ready(st)
    PROVE  /\ SelInv(base, FromWaiting(st, t))
           /\ Measure(FromWaiting(st, t)) < Measure(st)
  <1>1. SelType(st) /\ SelOrder(base, st) /\ SelWaiting(st) /\ SelAside(st)
    BY DEF SelInv
  <1>2. t \in st.waiting /\ t \in Txns /\ Nonce[t] = Next1(st, t)
    BY <1>1 DEF Ready, SelType
  <1>3. PICK best : best = IF HasHigherGas(st.pool, t) THEN st.pool.nonce[Key(t)] ELSE t
    OBVIOUS
  <1>4. PICK pool : pool = IF best = t THEN st.pool ELSE EraseTxn(st.pool, best)
    OBVIOUS
  <1>5. PICK rest : rest = [st EXCEPT !.waiting = st.waiting \ {t}, !.pool = pool]
    OBVIOUS
  <1>6. /\ DOMAIN rest = SelectionFields
        /\ rest.waiting = st.waiting \ {t} /\ rest.pool = pool
        /\ rest.order = st.order /\ rest.gas = st.gas /\ rest.nonce = st.nonce
        /\ rest.exceeded = st.exceeded /\ rest.stop = "none"
    BY <1>1, <1>5 DEF SelType, SelectionFields
  <1>7. FromWaiting(st, t) =
           IF st.gas + Limit[best] > GasLimit
           THEN [rest EXCEPT !.exceeded = Append(rest.exceeded, best)]
           ELSE Execute(rest, best)
    <2>1. rest = [st EXCEPT !.waiting = @ \ {t},
                            !.pool = IF best = t THEN @ ELSE EraseTxn(@, best)]
      BY <1>1, <1>4, <1>5 DEF SelType, SelectionFields
    <2> QED
      BY <1>3, <1>6, <2>1 DEF FromWaiting, SelectionFields
  <1>8. GoodPool(st.pool) /\ st.pool.hash \in SUBSET Txns
    BY <1>1 DEF SelType, GoodPool, Pool
  <1>9. /\ best \in Txns /\ Key(best) = Key(t) /\ Price[best] >= Price[t]
        /\ best # t => best \in st.pool.hash
    <2>1. CASE HasHigherGas(st.pool, t)
      <3>1. best \in st.pool.hash /\ Key(best) = Key(t) /\ Price[best] > Price[t]
        BY <1>3, <1>8, <2>1, HigherGasFacts
      <3>2. best \in Txns
        BY <1>8, <3>1
      <3> QED
        BY <1>2, <3>1, <3>2, TxnFacts
    <2>2. CASE ~ HasHigherGas(st.pool, t)
      BY <1>2, <1>3, <2>2, TxnFacts
    <2> QED
      BY <2>1, <2>2
  <1>10. /\ GoodPool(pool) /\ pool.hash \subseteq st.pool.hash
         /\ \A g \in DOMAIN pool.gas : pool.gas[g] = {} =>
               g \in DOMAIN st.pool.gas /\ st.pool.gas[g] = {}
    <2>1. CASE best = t
      BY <1>4, <1>8, <2>1
    <2>2. CASE best # t
      <3>1. pool = EraseTxn(st.pool, best) /\ best \in st.pool.hash
        BY <1>4, <1>9, <2>2
      <3> QED
        BY <1>8, <3>1, EraseGood
    <2> QED
      BY <2>1, <2>2
  <1>11. SelInv(base, rest)
    <2>1. SelType(rest)
      BY <1>1, <1>6, <1>10 DEF SelType
    <2>2. SelOrder(base, rest) /\ SelWaiting(rest)
      BY <1>1, <1>6 DEF SelOrder, SelWaiting
    <2>3. SelAside(rest)
      BY <1>1, <1>6, <1>10 DEF SelAside
    <2> QED
      BY <1>6, <2>1, <2>2, <2>3 DEF SelInv
  <1>12. Sender[best] = Sender[t] /\ Nonce[best] = Nonce[t]
    BY <1>9 DEF Key
  <1>13. SelInv(base, FromWaiting(st, t)) /\ FromWaiting(st, t).pool = pool
            /\ FromWaiting(st, t).waiting = st.waiting \ {t}
    <2>1. CASE st.gas + Limit[best] > GasLimit
      <3>1. PICK new : /\ new = FromWaiting(st, t)
                       /\ new = [rest EXCEPT !.exceeded = Append(rest.exceeded, best)]
        BY <1>7, <2>1
      <3>2. /\ DOMAIN new = SelectionFields
            /\ new.waiting = rest.waiting /\ new.pool = rest.pool
            /\ new.order = rest.order /\ new.gas = rest.gas /\ new.nonce = rest.nonce
            /\ new.exceeded = Append(rest.exceeded, best) /\ new.stop = "none"
        BY <1>6, <3>1 DEF SelectionFields
      <3>3. rest.exceeded \in Seq(Txns)
        BY <1>11 DEF SelInv, SelType
      <3>4. new.exceeded \in Seq(Txns) /\ ToSet(new.exceeded) = ToSet(rest.exceeded) \cup {best}
        <4>1. PICK x \in Seq(Txns) : x = rest.exceeded
          BY <3>3
        <4>2. PICK len \in Nat : len = Len(x) /\ DOMAIN x = 1 .. len
          BY LenProperties
        <4>3. PICK y : y = Append(x, best) /\ y \in Seq(Txns)
          BY <1>9, AppendProperties
        <4>4. /\ DOMAIN y = 1 .. len + 1 /\ y[len + 1] = best
              /\ \A i \in 1 .. len : y[i] = x[i]
          BY <1>9, <4>2, <4>3, AppendProperties, LenProperties
        <4>5. ToSet(y) = ToSet(x) \cup {best}
          <5>1. \A i \in 1 .. len + 1 : i \in 1 .. len \/ i = len + 1
            OBVIOUS
          <5>2. 1 .. len \subseteq 1 .. len + 1 /\ len + 1 \in 1 .. len + 1
            OBVIOUS
          <5> QED
            BY <4>2, <4>4, <5>1, <5>2 DEF ToSet
        <4> QED
          BY <3>2, <4>1, <4>3, <4>5
      <3>5. SelType(new)
        BY <1>11, <3>2, <3>4 DEF SelInv, SelType
      <3>6. SelOrder(base, new) /\ SelWaiting(new)
        BY <1>11, <3>2 DEF SelInv, SelOrder, SelWaiting
      <3>7. SelAside(new)
        <4>1. \A u \in ToSet(new.exceeded) : new.gas + Limit[u] > GasLimit
          BY <1>6, <1>11, <2>1, <3>2, <3>4 DEF SelInv, SelAside
        <4>2. ASSUME NEW g \in DOMAIN pool.gas, pool.gas[g] = {}
              PROVE  Price[best] > g
          <5>1. g \in DOMAIN st.pool.gas /\ st.pool.gas[g] = {}
            BY <1>10, <4>2
          <5>2. Price[t] > g
            BY <1>1, <1>2, <5>1 DEF SelAside
          <5>3. g \in Nat
            BY <1>8, <5>1 DEF GoodPool, Pool
          <5>4. Price[t] \in Nat /\ Price[best] \in Nat
            BY <1>2, <1>9, TxnFacts
          <5> QED
            BY <1>9, <5>2, <5>3, <5>4
        <4>3. \A g \in DOMAIN new.pool.gas : new.pool.gas[g] = {} =>
                 \A u \in new.waiting \cup ToSet(new.exceeded) : Price[u] > g
          BY <1>6, <1>11, <3>2, <3>4, <4>2 DEF SelInv, SelAside
        <4> QED
          BY <4>1, <4>3 DEF SelAside
      <3>8. SelInv(base, new)
        BY <3>2, <3>5, <3>6, <3>7 DEF SelInv
      <3> QED
        BY <1>6, <3>1, <3>2, <3>8
    <2>2. CASE ~ (st.gas + Limit[best] > GasLimit)
      <3>1. FromWaiting(st, t) = Execute(rest, best)
        BY <1>7, <2>2
      <3>2. Nonce[best] = Next1(rest, best)
        BY <1>2, <1>6, <1>12 DEF Next1
      <3>3. \A u \in rest.waiting : Sender[u] = Sender[best] => Nonce[u] # Nonce[best]
        BY <1>1, <1>2, <1>6, <1>12 DEF SelWaiting, Key
      <3>4. rest.gas < GasLimit
        BY <1>6 DEF GasLeft
      <3> QED
        BY <1>6, <1>9, <1>11, <3>1, <3>2, <3>3, <3>4, ExecuteKeeps
    <2> QED
      BY <2>1, <2>2
  <1>14. Measure(FromWaiting(st, t)) < Measure(st)
    <2>1. PICK a \in Nat : a = Cardinality(st.waiting) /\ Cardinality(st.waiting \ {t}) = a - 1
      <3>1. IsFiniteSet(st.waiting) /\ Cardinality(st.waiting) \in Nat
        BY <1>1, TxnsFinite DEF SelType
      <3> QED
        BY <1>2, <3>1, FS_RemoveElement
    <2>2. PICK b \in Nat : b = Cardinality(st.pool.hash)
      BY <1>8, TxnsFinite
    <2>3. PICK c \in Nat : c = Cardinality(pool.hash) /\ c <= b
      <3>1. IsFiniteSet(st.pool.hash) /\ pool.hash \in SUBSET st.pool.hash
        BY <1>8, <1>10, TxnsFinite
      <3> QED
        BY <2>2, <3>1, FS_Subset, FS_CardinalityType
    <2>4. Measure(st) = 2 * b + a /\ Measure(FromWaiting(st, t)) = 2 * c + (a - 1)
      BY <1>13, <2>1, <2>2, <2>3 DEF Measure
    <2> QED
      BY <2>1, <2>2, <2>3, <2>4
  <1> QED
    BY <1>13, <1>14

LEMMA FromPoolKeeps ==
    ASSUME NEW base \in [Senders -> Nat], NEW st, SelInv(base, st), st.stop = "none",
           GasLeft(st), Ready(st) = {}, CanFindOne(st.pool), NEW t, t = FindOne(st.pool)
    PROVE  /\ SelInv(base, FromPool(st, t))
           /\ Measure(FromPool(st, t)) < Measure(st)
  <1>1. SelType(st) /\ SelOrder(base, st) /\ SelWaiting(st) /\ SelAside(st)
    BY DEF SelInv
  <1>2. GoodPool(st.pool) /\ st.pool.hash \in SUBSET Txns /\ st.waiting \in SUBSET Txns
    BY <1>1 DEF SelType, GoodPool, Pool
  <1>3. /\ t \in st.pool.hash /\ t \in Txns
        /\ \A g \in DOMAIN st.pool.gas : st.pool.gas[g] = {} => Price[t] > g
    BY <1>2, FindOneFacts
  <1>4. PICK pool : pool = EraseTxn(st.pool, t)
    OBVIOUS
  <1>5. PICK rest : rest = [st EXCEPT !.pool = pool]
    OBVIOUS
  <1>6. /\ DOMAIN rest = SelectionFields /\ rest.pool = pool
        /\ rest.waiting = st.waiting /\ rest.order = st.order /\ rest.gas = st.gas
        /\ rest.nonce = st.nonce /\ rest.exceeded = st.exceeded /\ rest.stop = "none"
    BY <1>1, <1>5 DEF SelType, SelectionFields
  <1>7. PICK same : same = {u \in st.waiting : Key(u) = Key(t)}
    OBVIOUS
  <1>8. PICK more : more = [rest EXCEPT !.waiting = (st.waiting \ same) \cup {t}]
    OBVIOUS
  <1>9. /\ DOMAIN more = SelectionFields /\ more.pool = pool
        /\ more.waiting = (st.waiting \ same) \cup {t} /\ more.order = st.order
        /\ more.gas = st.gas /\ more.nonce = st.nonce
        /\ more.exceeded = st.exceeded /\ more.stop = "none"
    BY <1>6, <1>8 DEF SelectionFields
  <1>10. /\ Nonce[t] > Next1(st, t) => FromPool(st, t) \in {rest, more}
         /\ Nonce[t] < Next1(st, t) => FromPool(st, t) = rest
         /\ Nonce[t] = Next1(st, t) => FromPool(st, t) = Execute(rest, t)
    <2>1. rest = [st EXCEPT !.pool = EraseTxn(@, t)]
      BY <1>1, <1>4, <1>5 DEF SelType, SelectionFields
    <2>2. more = [rest EXCEPT !.waiting = (@ \ same) \cup {t}]
      BY <1>6, <1>8 DEF SelectionFields
    <2>3. Nonce[t] \in Nat /\ Next1(st, t) \in Nat
      <3>1. Sender[t] \in Senders /\ Nonce[t] \in Nat
        BY <1>3, TxnFacts
      <3>2. st.nonce \in [Senders -> Nat]
        BY <1>1 DEF SelType
      <3> QED
        BY <3>1, <3>2 DEF Next1
    <2> QED
      BY <1>7, <2>1, <2>2, <2>3 DEF FromPool
  <1>11. /\ GoodPool(pool) /\ pool.hash = st.pool.hash \ {t}
         /\ \A g \in DOMAIN pool.gas : pool.gas[g] = {} =>
               g \in DOMAIN st.pool.gas /\ st.pool.gas[g] = {}
    BY <1>2, <1>3, <1>4, EraseGood
  <1>12. SelInv(base, rest)
    <2>1. SelType(rest)
      BY <1>1, <1>6, <1>11 DEF SelType
    <2>2. SelOrder(base, rest) /\ SelWaiting(rest)
      BY <1>1, <1>6 DEF SelOrder, SelWaiting
    <2>3. SelAside(rest)
      BY <1>1, <1>6, <1>11 DEF SelAside
    <2> QED
      BY <1>6, <2>1, <2>2, <2>3 DEF SelInv
  <1>13. ASSUME Nonce[t] > Next1(st, t) PROVE SelInv(base, more)
    <2>1. SelType(more)
      BY <1>1, <1>2, <1>3, <1>9, <1>11 DEF SelType
    <2>2. SelOrder(base, more)
      BY <1>1, <1>9 DEF SelOrder
    <2>3. SelWaiting(more)
      <3>1. Nonce[t] >= st.nonce[Sender[t]] + 1
        <4>1. Sender[t] \in Senders /\ Nonce[t] \in Nat /\ st.nonce \in [Senders -> Nat]
          BY <1>1, <1>3, TxnFacts DEF SelType
        <4> QED
          BY <1>13, <4>1 DEF Next1
      <3>2. \A u \in more.waiting : Nonce[u] >= more.nonce[Sender[u]] + 1
        BY <1>1, <1>9, <3>1 DEF SelWaiting
      <3>3. \A u \in st.waiting \ same : Key(u) # Key(t)
        BY <1>7
      <3>4. \A u, v \in more.waiting : Key(u) = Key(v) => u = v
        BY <1>1, <1>9, <3>3 DEF SelWaiting
      <3> QED
        BY <3>2, <3>4 DEF SelWaiting
    <2>4. SelAside(more)
      BY <1>1, <1>3, <1>9, <1>11 DEF SelAside
    <2> QED
      BY <1>9, <2>1, <2>2, <2>3, <2>4 DEF SelInv
  <1>14. ASSUME Nonce[t] = Next1(st, t)
         PROVE  /\ SelInv(base, Execute(rest, t)) /\ Execute(rest, t).pool = pool
                /\ Execute(rest, t).waiting = st.waiting
    <2>1. \A u \in rest.waiting : Sender[u] = Sender[t] => Nonce[u] # Nonce[t]
      BY <1>3, <1>6, <1>14, ReadyFacts
    <2>2. Nonce[t] = Next1(rest, t) /\ rest.gas < GasLimit
      BY <1>6, <1>14 DEF Next1, GasLeft
    <2> QED
      BY <1>3, <1>6, <1>12, <2>1, <2>2, ExecuteKeeps
  <1>15. PICK new : new = FromPool(st, t)
    OBVIOUS
  <1>16. SelInv(base, new) /\ new.pool = pool /\ new.waiting \in {st.waiting, more.waiting}
    <2>1. Nonce[t] \in Int /\ Next1(st, t) \in Int
      <3>1. Sender[t] \in Senders /\ Nonce[t] \in Nat /\ st.nonce \in [Senders -> Nat]
        BY <1>1, <1>3, TxnFacts DEF SelType
      <3> QED
        BY <3>1 DEF Next1
    <2>2. CASE Nonce[t] > Next1(st, t)
      BY <1>6, <1>9, <1>10, <1>12, <1>13, <1>15, <2>2
    <2>3. CASE Nonce[t] < Next1(st, t)
      BY <1>6, <1>10, <1>12, <1>15, <2>3
    <2>4. CASE Nonce[t] = Next1(st, t)
      BY <1>10, <1>14, <1>15, <2>4
    <2> QED
      BY <2>1, <2>2, <2>3, <2>4
  <1>17. Measure(new) < Measure(st)
    <2>1. PICK a \in Nat : a = Cardinality(st.waiting)
      BY <1>2, TxnsFinite
    <2>2. PICK b \in Nat : b = Cardinality(st.pool.hash) /\ Cardinality(pool.hash) = b - 1
      <3>1. PICK H : H = st.pool.hash /\ IsFiniteSet(H) /\ Cardinality(H) \in Nat
        BY <1>2, TxnsFinite
      <3>2. Cardinality(H \ {t}) = Cardinality(H) - 1
        BY <1>3, <3>1, FS_RemoveElement
      <3> QED
        BY <1>11, <3>1, <3>2
    <2>3. PICK c \in Nat : c = Cardinality(new.waiting) /\ c <= a + 1
      <3>1. IsFiniteSet(st.waiting \cup {t}) /\ Cardinality(st.waiting \cup {t}) <= a + 1
        <4>1. PICK W : W = st.waiting /\ IsFiniteSet(W) /\ Cardinality(W) = a
          BY <1>2, <2>1, TxnsFinite
        <4>2. /\ IsFiniteSet(W \cup {t})
              /\ Cardinality(W \cup {t}) = IF t \in W THEN a ELSE a + 1
          BY <4>1, FS_AddElement
        <4> QED
          BY <4>1, <4>2
      <3>2. new.waiting \in SUBSET (st.waiting \cup {t})
        BY <1>9, <1>16
      <3>3. Cardinality(new.waiting) \in Nat
               /\ Cardinality(new.waiting) <= Cardinality(st.waiting \cup {t})
        BY <3>1, <3>2, FS_Subset, FS_CardinalityType
      <3>4. Cardinality(st.waiting \cup {t}) \in Nat
        BY <3>1, FS_CardinalityType
      <3> QED
        BY <3>1, <3>3, <3>4
    <2>4. Measure(st) = 2 * b + a /\ Measure(new) = 2 * (b - 1) + c
      BY <1>16, <2>1, <2>2, <2>3 DEF Measure
    <2> QED
      BY <2>1, <2>2, <2>3, <2>4
  <1> QED
    BY <1>15, <1>16, <1>17

LEMMA ReadyChosen ==
    ASSUME NEW st, SelType(st), Ready(st) # {}
    PROVE  (CHOOSE x \in Ready(st) : \A u \in Ready(st) : Sender[x] <= Sender[u]) \in Ready(st)
  <1> DEFINE S == {Sender[u] : u \in Ready(st)}
  <1>1. S \in SUBSET Nat /\ S # {}
    <2>1. Ready(st) \subseteq Txns
      BY DEF Ready, SelType
    <2>2. \A u \in Ready(st) : Sender[u] \in Nat
      BY <2>1, TxnFacts
    <2> QED
      BY <2>2
  <1>2. PICK s \in S : \A r \in S : s <= r
    <2> HIDE DEF S
    <2> QED
      BY <1>1, LeastElement
  <1>3. PICK u \in Ready(st) : s = Sender[u]
    OBVIOUS
  <1>4. \A v \in Ready(st) : Sender[u] <= Sender[v]
    BY <1>2, <1>3
  <1> QED
    BY <1>4

LEMMA IterationKeeps ==
    ASSUME NEW base \in [Senders -> Nat], NEW st, SelInv(base, st), st.stop = "none"
    PROVE  /\ SelInv(base, Iteration(st))
           /\ Iteration(st).stop = "none" => Measure(Iteration(st)) < Measure(st)
  <1>1. SelType(st) /\ SelOrder(base, st) /\ SelWaiting(st) /\ SelAside(st)
    BY DEF SelInv
  <1>2. ASSUME NEW v \in {"gas", "exhausted"},
               v = "exhausted" => Ready(st) = {} /\ ~ CanFindOne(st.pool)
        PROVE  SelInv(base, [st EXCEPT !.stop = v]) /\ [st EXCEPT !.stop = v].stop = v
    <2>1. PICK new : new = [st EXCEPT !.stop = v]
      OBVIOUS
    <2>2. /\ DOMAIN new = SelectionFields /\ new.pool = st.pool
          /\ new.waiting = st.waiting /\ new.order = st.order /\ new.gas = st.gas
          /\ new.nonce = st.nonce /\ new.exceeded = st.exceeded /\ new.stop = v
      BY <1>1, <2>1 DEF SelType, SelectionFields
    <2>3. SelType(new) /\ SelOrder(base, new) /\ SelWaiting(new) /\ SelAside(new)
      BY <1>1, <2>2 DEF SelType, SelOrder, SelWaiting, SelAside
    <2>4. Ready(new) = Ready(st)
      BY <2>2 DEF Ready, Next1
    <2> QED
      BY <1>2, <2>1, <2>2, <2>3, <2>4 DEF SelInv
  <1>3. CASE ~ GasLeft(st)
    <2>1. Iteration(st) = [st EXCEPT !.stop = "gas"]
      BY <1>3 DEF Iteration
    <2> QED
      BY <1>2, <2>1
  <1>4. CASE GasLeft(st) /\ Ready(st) # {}
    <2>1. PICK t : t = CHOOSE x \in Ready(st) : \A u \in Ready(st) : Sender[x] <= Sender[u]
      OBVIOUS
    <2>2. Iteration(st) = FromWaiting(st, t)
      BY <1>4, <2>1 DEF Iteration
    <2>3. t \in Ready(st)
      BY <1>1, <1>4, <2>1, ReadyChosen
    <2> QED
      BY <1>4, <2>2, <2>3, FromWaitingKeeps
  <1>5. CASE GasLeft(st) /\ Ready(st) = {} /\ CanFindOne(st.pool)
    <2>1. Iteration(st) = FromPool(st, FindOne(st.pool))
      BY <1>5 DEF Iteration
    <2> QED
      BY <1>5, <2>1, FromPoolKeeps
  <1>6. CASE GasLeft(st) /\ Ready(st) = {} /\ ~ CanFindOne(st.pool)
    <2>1. Iteration(st) = [st EXCEPT !.stop = "exhausted"]
      BY <1>6 DEF Iteration
    <2> QED
      BY <1>2, <1>6, <2>1
  <1> QED
    BY <1>3, <1>4, <1>5, <1>6

(* The loop of a selection *)

SelectionStart(pool, nonces) ==
    [pool |-> pool, waiting |-> {}, order |-> <<>>, gas |-> 0,
     nonce |-> nonces, exceeded |-> <<>>, stop |-> "none"]

Advance(st) == IF st.stop = "none" THEN Iteration(st) ELSE st

IsLoop(f, start, k) == f = [i \in 0 .. k |-> IF i = 0 THEN start ELSE Advance(f[i - 1])]

LEMMA LoopExists ==
    ASSUME NEW start, NEW k \in Nat
    PROVE  \E f : IsLoop(f, start, k)
  <1> DEFINE P(i) == \E f : IsLoop(f, start, i)
             B == {i \in 0 .. k : P(i)}
  <1>1. P(0)
    <2>1. PICK f : f = [i \in 0 .. 0 |-> start]
      OBVIOUS
    <2>2. \A i \in 0 .. 0 : i = 0
      OBVIOUS
    <2>3. f = [i \in 0 .. 0 |-> IF i = 0 THEN start ELSE Advance(f[i - 1])]
      BY <2>1, <2>2
    <2> QED
      BY <2>3 DEF IsLoop
  <1>2. ASSUME NEW j \in Nat, P(j) PROVE P(j + 1)
    <2>1. PICK f : f = [i \in 0 .. j |-> IF i = 0 THEN start ELSE Advance(f[i - 1])]
      BY <1>2 DEF IsLoop
    <2>2. PICK g : g = [i \in 0 .. j + 1 |-> IF i = j + 1 THEN Advance(f[j]) ELSE f[i]]
      OBVIOUS
    <2>3. ASSUME NEW i \in 0 .. j + 1
          PROVE  g[i] = IF i = 0 THEN start ELSE Advance(g[i - 1])
      <3>1. CASE i = j + 1
        <4>1. i # 0 /\ i - 1 = j /\ j \in 0 .. j + 1 /\ j # j + 1
          BY <3>1
        <4> QED
          BY <2>2, <3>1, <4>1
      <3>2. CASE i # j + 1
        <4>1. i \in 0 .. j /\ g[i] = f[i]
          BY <2>2, <3>2
        <4>2. i # 0 => i - 1 \in 0 .. j + 1 /\ i - 1 # j + 1
          BY <4>1
        <4> QED
          BY <2>1, <2>2, <4>1, <4>2
      <3> QED
        BY <3>1, <3>2
    <2>4. g = [i \in 0 .. j + 1 |-> IF i = 0 THEN start ELSE Advance(g[i - 1])]
      BY <2>2, <2>3
    <2> QED
      BY <2>4 DEF IsLoop
  <1> HIDE DEF P
  <1>3. \A i \in 0 .. k : i \in B
    <2>1. 0 \in B
      BY <1>1
    <2>2. \A i \in 0 .. k : i < k /\ i \in B => i + 1 \in B
      BY <1>2
    <2> HIDE DEF B
    <2> QED
      BY <2>1, <2>2, Stepwise
  <1>4. k \in B
    <2>1. k \in 0 .. k
      OBVIOUS
    <2> QED
      BY <1>3, <2>1
  <1> QED
    BY <1>4 DEF P

LEMMA SelectionLoop ==
    ASSUME NEW pool, NEW nonces, NEW k \in Nat
    PROVE  \E f : /\ IsLoop(f, SelectionStart(pool, nonces), k)
                  /\ Selection(pool, nonces, k) =
                        IF f[k].stop = "none" THEN [f[k] EXCEPT !.stop = "timeout"] ELSE f[k]
  <1> DEFINE R(f) == f = [i \in 0 .. k |->
                            IF i = 0 THEN [pool |-> pool, waiting |-> {}, order |-> <<>>, gas |-> 0,
                                nonce |-> nonces, exceeded |-> <<>>, stop |-> "none"]
                            ELSE IF f[i - 1].stop = "none" THEN Iteration(f[i - 1]) ELSE f[i - 1]]
             L == CHOOSE f : R(f)
  <1>1. \A f : R(f) <=> IsLoop(f, SelectionStart(pool, nonces), k)
    BY DEF IsLoop, SelectionStart, Advance
  <1>2. Selection(pool, nonces, k) =
           IF L[k].stop = "none" THEN [L[k] EXCEPT !.stop = "timeout"] ELSE L[k]
    BY DEF Selection
  <1> HIDE DEF R
  <1>3. \E f : R(f)
    <2>1. PICK f : IsLoop(f, SelectionStart(pool, nonces), k)
      BY LoopExists
    <2> QED
      BY <1>1, <2>1
  <1>4. R(L)
    BY <1>3
  <1> QED
    BY <1>1, <1>2, <1>4

\* Every iteration keeps the invariant and uses up part of the measure
LEMMA LoopKeeps ==
    ASSUME NEW pool, GoodPool(pool), NEW nonces \in [Senders -> Nat], NEW k \in Nat,
           NEW f, IsLoop(f, SelectionStart(pool, nonces), k)
    PROVE  /\ SelInv(nonces, f[k])
           /\ f[k].stop = "none" => k <= 2 * Cardinality(Txns)
  <1>1. /\ f[0] = SelectionStart(pool, nonces)
        /\ \A i \in 1 .. k : f[i] = Advance(f[i - 1])
    <2>1. f = [i \in 0 .. k |-> IF i = 0 THEN SelectionStart(pool, nonces)
                                ELSE Advance(f[i - 1])]
      BY DEF IsLoop
    <2>2. 0 \in 0 .. k /\ \A i \in 1 .. k : i \in 0 .. k /\ i # 0
      OBVIOUS
    <2> QED
      BY <2>1, <2>2
  <1>2. PICK c \in Nat : c = Cardinality(Txns)
    BY TxnsFinite
  <1>3. pool.hash \in SUBSET Txns
    BY DEF GoodPool, Pool
  <1> DEFINE P(i) == /\ SelInv(nonces, f[i])
                     /\ f[i].stop = "none" => Measure(f[i]) + i <= 2 * c
             B == {i \in 0 .. k : P(i)}
  <1>4. P(0)
    <2>1. PICK st : st = f[0]
      OBVIOUS
    <2>2. /\ DOMAIN st = SelectionFields
          /\ st.pool = pool /\ st.waiting = {} /\ st.order = <<>> /\ st.gas = 0
          /\ st.nonce = nonces /\ st.exceeded = <<>> /\ st.stop = "none"
      BY <1>1, <2>1 DEF SelectionStart, SelectionFields
    <2>3. <<>> \in Seq(Txns) /\ Len(<<>>) = 0 /\ ToSet(<<>>) = {} /\ DOMAIN <<>> = {}
      BY EmptySeq DEF ToSet
    <2>4. SelType(st)
      BY <2>2, <2>3 DEF SelType
    <2>5. SelOrder(nonces, st)
      <3>1. From(st.order, nonces)
        BY <2>2, <2>3 DEF From
      <3>2. \A s \in Senders : st.nonce[s] = nonces[s] + Counted(st.order, Len(st.order), s)
        <4> TAKE s \in Senders
        <4>1. Counted(st.order, Len(st.order), s) = 0
          BY <2>2, <2>3, CountedNone
        <4>2. nonces[s] \in Nat
          OBVIOUS
        <4> QED
          BY <2>2, <4>1, <4>2
      <3> QED
        BY <2>2, <3>1, <3>2 DEF SelOrder
    <2>6. SelWaiting(st) /\ SelAside(st)
      BY <2>2, <2>3 DEF SelWaiting, SelAside
    <2>7. SelInv(nonces, st)
      BY <2>2, <2>4, <2>5, <2>6 DEF SelInv
    <2>8. Measure(st) + 0 <= 2 * c
      <3>1. PICK h \in Nat : h = Cardinality(pool.hash) /\ h <= c
        BY <1>2, <1>3, TxnsFinite
      <3>2. Measure(st) = 2 * h + 0
        BY <2>2, <3>1, FS_EmptySet DEF Measure
      <3> QED
        BY <3>1, <3>2
    <2> QED
      BY <2>1, <2>7, <2>8
  <1>5. ASSUME NEW i \in 0 .. k, i < k, P(i) PROVE P(i + 1)
    <2>1. i + 1 \in 1 .. k /\ (i + 1) - 1 = i
      BY <1>5
    <2>2. f[i + 1] = Advance(f[i])
      BY <1>1, <2>1
    <2>3. PICK st : st = f[i]
      OBVIOUS
    <2>4. PICK new : new = f[i + 1] /\ new = Advance(st)
      BY <2>2, <2>3
    <2>5. SelInv(nonces, st) /\ (st.stop = "none" => Measure(st) + i <= 2 * c)
      BY <1>5, <2>3
    <2>6. CASE st.stop # "none"
      <3>1. new = st
        BY <2>4, <2>6 DEF Advance
      <3> QED
        BY <2>4, <2>5, <2>6, <3>1
    <2>7. CASE st.stop = "none"
      <3>1. new = Iteration(st)
        BY <2>4, <2>7 DEF Advance
      <3>2. SelInv(nonces, new) /\ (new.stop = "none" => Measure(new) < Measure(st))
        BY <2>5, <2>7, <3>1, IterationKeeps
      <3>3. Measure(st) \in Nat /\ Measure(new) \in Nat
        <4>1. ASSUME NEW x, SelInv(nonces, x) PROVE Measure(x) \in Nat
          <5>1. x.pool.hash \in SUBSET Txns /\ x.waiting \in SUBSET Txns
            BY <4>1 DEF SelInv, SelType, GoodPool, Pool
          <5>2. Cardinality(x.pool.hash) \in Nat /\ Cardinality(x.waiting) \in Nat
            BY <5>1, TxnsFinite
          <5> QED
            BY <5>2 DEF Measure
        <4> QED
          BY <2>5, <3>2, <4>1
      <3>4. new.stop = "none" => Measure(new) + (i + 1) <= 2 * c
        BY <2>5, <2>7, <3>2, <3>3
      <3> QED
        BY <2>4, <3>2, <3>4
    <2> QED
      BY <2>6, <2>7
  <1> HIDE DEF P
  <1>6. \A i \in 0 .. k : i \in B
    <2>1. 0 \in B
      BY <1>4
    <2>2. \A i \in 0 .. k : i < k /\ i \in B => i + 1 \in B
      BY <1>5
    <2> HIDE DEF B
    <2> QED
      BY <2>1, <2>2, Stepwise
  <1>7. P(k)
    <2>1. k \in 0 .. k
      OBVIOUS
    <2>2. k \in B
      BY <1>6, <2>1
    <2> QED
      BY <2>2
  <1>8. SelInv(nonces, f[k])
    BY <1>7 DEF P
  <1>9. f[k].stop = "none" => k <= 2 * c
    <2>1. PICK a \in Nat, b \in Nat : Measure(f[k]) = 2 * a + b
      <3>1. f[k].pool.hash \in SUBSET Txns /\ f[k].waiting \in SUBSET Txns
        BY <1>8 DEF SelInv, SelType, GoodPool, Pool
      <3>2. Cardinality(f[k].pool.hash) \in Nat /\ Cardinality(f[k].waiting) \in Nat
        BY <3>1, TxnsFinite
      <3> QED
        BY <3>2 DEF Measure
    <2>2. f[k].stop = "none" => Measure(f[k]) + k <= 2 * c
      BY <1>7 DEF P
    <2> QED
      BY <2>1, <2>2
  <1> QED
    BY <1>2, <1>8, <1>9

\* What a selection leaves nothing executable means for one pool
NothingLeft(pool, nonces, gas) ==
    \A t \in pool.hash :
        \/ Nonce[t] # nonces[Sender[t]] + 1
        \/ gas + Limit[t] > GasLimit
        \/ \E g \in DOMAIN pool.gas : g > Price[t] /\ pool.gas[g] = {}

\* The outcome of a selection that ran on a pool from given nonces
Outcome(nonces, st) ==
    /\ GoodPool(ReinstateMemPool(st))
    /\ st.order \in Seq(Txns) /\ st.gas \in Nat /\ st.nonce \in [Senders -> Nat]
    /\ st.stop \in {"timeout", "gas", "exhausted"}
    /\ st.order # <<>> => st.gas - Used[Last(st.order)] < GasLimit
    /\ From(st.order, nonces)
    /\ st.stop = "exhausted" => NothingLeft(ReinstateMemPool(st), st.nonce, st.gas)

LEMMA SelectionOutcome ==
    ASSUME NEW pool, GoodPool(pool), NEW nonces \in [Senders -> Nat], NEW k \in Nat
    PROVE  /\ Outcome(nonces, Selection(pool, nonces, k))
           /\ k = MaxIterations => Selection(pool, nonces, k).stop # "timeout"
  <1>1. PICK f : /\ IsLoop(f, SelectionStart(pool, nonces), k)
                 /\ Selection(pool, nonces, k) =
                       IF f[k].stop = "none" THEN [f[k] EXCEPT !.stop = "timeout"] ELSE f[k]
    BY SelectionLoop
  <1>2. PICK end : end = f[k]
    OBVIOUS
  <1>3. PICK st : st = Selection(pool, nonces, k)
    OBVIOUS
  <1>4. SelInv(nonces, end) /\ (end.stop = "none" => k <= 2 * Cardinality(Txns))
    BY <1>1, <1>2, LoopKeeps
  <1>5. SelType(end) /\ SelOrder(nonces, end) /\ SelWaiting(end) /\ SelAside(end)
    BY <1>4 DEF SelInv
  <1>6. /\ st.pool = end.pool /\ st.waiting = end.waiting /\ st.order = end.order
        /\ st.gas = end.gas /\ st.nonce = end.nonce /\ st.exceeded = end.exceeded
        /\ st.stop = IF end.stop = "none" THEN "timeout" ELSE end.stop
    BY <1>1, <1>2, <1>3, <1>5 DEF SelType, SelectionFields
  <1>7. PICK q : q = ReinstateMemPool(st)
    OBVIOUS
  <1>8. st.waiting \in SUBSET Txns /\ st.exceeded \in Seq(Txns) /\ GoodPool(st.pool)
    BY <1>5, <1>6 DEF SelType
  <1>9. Merged(st.pool, q, st.waiting \cup ToSet(st.exceeded))
    <2>1. SetToSeq(st.waiting) \in Seq(Txns) /\ ToSet(SetToSeq(st.waiting)) = st.waiting
      BY <1>8, TxnsFinite, SetToSeqFacts
    <2>2. PICK mid : mid = InsertAll(st.pool, SetToSeq(st.waiting))
      OBVIOUS
    <2>3. Merged(st.pool, mid, st.waiting)
      <3>1. Merged(st.pool, mid, ToSet(SetToSeq(st.waiting)))
        BY <1>8, <2>1, <2>2, InsertAllMerged
      <3> QED
        BY <2>1, <3>1
    <2>4. GoodPool(mid) /\ q = InsertAll(mid, st.exceeded)
      BY <1>7, <2>2, <2>3 DEF Merged, ReinstateMemPool
    <2>5. Merged(mid, q, ToSet(st.exceeded))
      BY <1>8, <2>4, InsertAllMerged
    <2> QED
      BY <2>3, <2>5, MergedTrans
  <1>10. ASSUME st.stop = "exhausted" PROVE NothingLeft(q, st.nonce, st.gas)
    <2>1. Ready(end) = {} /\ ~ CanFindOne(end.pool)
      BY <1>4, <1>6, <1>10 DEF SelInv
    <2>2. ASSUME NEW t \in q.hash
          PROVE  \/ Nonce[t] # st.nonce[Sender[t]] + 1
                 \/ st.gas + Limit[t] > GasLimit
                 \/ \E g \in DOMAIN q.gas : g > Price[t] /\ q.gas[g] = {}
      <3>1. t \in st.pool.hash \/ t \in st.waiting \/ t \in ToSet(st.exceeded)
        BY <1>9 DEF Merged
      <3>2. CASE t \in st.pool.hash
        <4>1. PICK g \in DOMAIN st.pool.gas : g > Price[t] /\ st.pool.gas[g] = {}
          BY <1>6, <1>8, <2>1, <3>2, NothingFound
        <4>2. \A u \in st.waiting \cup ToSet(st.exceeded) : Price[u] > g
          BY <1>5, <1>6, <4>1 DEF SelAside
        <4>3. g \in Nat
          BY <1>8, <4>1 DEF GoodPool, Pool
        <4>4. \A u \in st.waiting \cup ToSet(st.exceeded) : Price[u] # g
          BY <4>2, <4>3
        <4>5. g \in DOMAIN q.gas /\ q.gas[g] = {}
          BY <1>9, <4>1, <4>4 DEF Merged
        <4> QED
          BY <4>1, <4>5
      <3>3. CASE t \in st.waiting
        <4>1. t \in Txns /\ t \in end.waiting /\ t \notin Ready(end)
          BY <1>6, <1>8, <2>1, <3>3
        <4>2. Nonce[t] # Next1(end, t)
          BY <1>4, <4>1, ReadyFacts
        <4> QED
          BY <1>6, <4>2 DEF Next1
      <3>4. CASE t \in ToSet(st.exceeded)
        BY <1>5, <1>6, <3>4 DEF SelAside
      <3> QED
        BY <3>1, <3>2, <3>3, <3>4
    <2> QED
      BY <2>2 DEF NothingLeft
  <1>11. GoodPool(q)
    BY <1>9 DEF Merged
  <1>12. Outcome(nonces, st)
    <2>1. /\ st.order \in Seq(Txns) /\ st.gas \in Nat /\ st.nonce \in [Senders -> Nat]
          /\ st.stop \in {"timeout", "gas", "exhausted"}
      BY <1>5, <1>6 DEF SelType
    <2>2. /\ st.order # <<>> => st.gas - Used[Last(st.order)] < GasLimit
          /\ From(st.order, nonces)
      BY <1>5, <1>6 DEF SelOrder
    <2> QED
      BY <1>7, <1>10, <1>11, <2>1, <2>2 DEF Outcome
  <1>13. k = MaxIterations => st.stop # "timeout"
    <2>1. PICK c \in Nat : c = Cardinality(Txns)
      BY TxnsFinite
    <2>2. k = MaxIterations => end.stop # "none"
      BY <1>4, <2>1 DEF MaxIterations
    <2>3. end.stop \in {"none", "gas", "exhausted"}
      BY <1>5 DEF SelType
    <2> QED
      BY <1>6, <2>2, <2>3
  <1> QED
    BY <1>3, <1>12, <1>13

(* What a selection keeps of the pool it began with *)

\* The pools of a selection that began with pool p hold transactions of p only,
\* and every transaction of p is there, fails or has its nonce used up
SelKept(p, st) ==
    /\ st.pool.hash \cup st.waiting \cup ToSet(st.exceeded) \subseteq p.hash
    /\ \A t \in p.hash : \/ t \in st.pool.hash \cup st.waiting \cup ToSet(st.exceeded)
                         \/ ~ Valid[t] \/ Nonce[t] <= st.nonce[Sender[t]]

\* A pool has one transaction per sender and nonce
LEMMA OnePerKey ==
    ASSUME NEW p, GoodPool(p), NEW t \in p.hash, NEW u \in p.hash, Key(t) = Key(u)
    PROVE  t = u
  BY DEF GoodPool, Indexed

LEMMA ToSetAppend ==
    ASSUME NEW x \in Seq(Txns), NEW t \in Txns
    PROVE  ToSet(Append(x, t)) = ToSet(x) \cup {t}
  <1>1. PICK len \in Nat : len = Len(x) /\ DOMAIN x = 1 .. len
    BY LenProperties
  <1>2. PICK y : y = Append(x, t)
    OBVIOUS
  <1>3. /\ DOMAIN y = 1 .. len + 1 /\ y[len + 1] = t
        /\ \A i \in 1 .. len : y[i] = x[i]
    BY <1>1, <1>2, AppendProperties, LenProperties
  <1>4. \A i \in 1 .. len + 1 : i \in 1 .. len \/ i = len + 1
    OBVIOUS
  <1>5. 1 .. len \subseteq 1 .. len + 1 /\ len + 1 \in 1 .. len + 1
    OBVIOUS
  <1>6. ToSet(y) = ToSet(x) \cup {t}
    BY <1>1, <1>3, <1>4, <1>5 DEF ToSet
  <1> QED
    BY <1>2, <1>6

LEMMA ExecuteUses ==
    ASSUME NEW st, SelType(st), NEW t \in Txns, Nonce[t] = Next1(st, t)
    PROVE  /\ Execute(st, t).pool = st.pool /\ Execute(st, t).waiting = st.waiting
           /\ Execute(st, t).exceeded = st.exceeded
           /\ Execute(st, t).nonce \in [Senders -> Nat]
           /\ \A s \in Senders : st.nonce[s] <= Execute(st, t).nonce[s]
           /\ ~ Valid[t] \/ Nonce[t] <= Execute(st, t).nonce[Sender[t]]
  <1>1. /\ Sender[t] \in Senders /\ Nonce[t] \in Nat /\ st.nonce \in [Senders -> Nat]
        /\ DOMAIN st = SelectionFields
    BY TxnFacts DEF SelType
  <1>2. PICK new : new = Execute(st, t)
    OBVIOUS
  <1>3. CASE Valid[t]
    <2>1. new = [st EXCEPT !.order = Append(@, t), !.gas = @ + Used[t],
                           !.nonce[Sender[t]] = @ + 1]
      BY <1>2, <1>3 DEF Execute
    <2>2. /\ new.pool = st.pool /\ new.waiting = st.waiting /\ new.exceeded = st.exceeded
          /\ new.nonce = [st.nonce EXCEPT ![Sender[t]] = @ + 1]
      BY <1>1, <2>1 DEF SelectionFields
    <2>3. PICK f \in [Senders -> Nat] : f = st.nonce
      BY <1>1
    <2>4. PICK g : g = new.nonce /\ g = [f EXCEPT ![Sender[t]] = f[Sender[t]] + 1]
      BY <2>2, <2>3
    <2>5. /\ g \in [Senders -> Nat] /\ \A s \in Senders : f[s] <= g[s]
          /\ g[Sender[t]] = f[Sender[t]] + 1
      BY <1>1, <2>4
    <2>6. Nonce[t] <= g[Sender[t]]
      BY <1>1, <2>3, <2>5 DEF Next1
    <2> QED
      BY <1>2, <2>2, <2>3, <2>4, <2>5, <2>6
  <1>4. CASE ~ Valid[t]
    <2>1. new = st
      BY <1>2, <1>4 DEF Execute
    <2> QED
      BY <1>1, <1>2, <1>4, <2>1
  <1> QED
    BY <1>3, <1>4

\* A step that takes t out of the pools, once it is executed or too late
LEMMA KeptWithout ==
    ASSUME NEW p, GoodPool(p), NEW st, SelType(st), SelKept(p, st), NEW new, NEW t \in Txns,
           new.pool.hash \cup new.waiting \cup ToSet(new.exceeded) \subseteq
               st.pool.hash \cup st.waiting \cup ToSet(st.exceeded),
           \A u \in st.pool.hash \cup st.waiting \cup ToSet(st.exceeded) :
               u = t \/ u \in new.pool.hash \cup new.waiting \cup ToSet(new.exceeded),
           new.nonce \in [Senders -> Nat],
           \A s \in Senders : st.nonce[s] <= new.nonce[s],
           \/ t \in new.pool.hash \cup new.waiting \cup ToSet(new.exceeded)
           \/ ~ Valid[t] \/ Nonce[t] <= new.nonce[Sender[t]]
    PROVE  SelKept(p, new)
  <1>1. p.hash \subseteq Txns /\ st.nonce \in [Senders -> Nat]
    BY DEF GoodPool, Pool, SelType
  <1>2. ASSUME NEW u \in p.hash, u \notin new.pool.hash \cup new.waiting \cup ToSet(new.exceeded),
               Valid[u]
        PROVE  Nonce[u] <= new.nonce[Sender[u]]
    <2>1. Sender[u] \in Senders /\ Nonce[u] \in Nat
      BY <1>1, TxnFacts
    <2>2. CASE u = t
      BY <1>2, <2>2
    <2>3. CASE u # t
      <3>1. Nonce[u] <= st.nonce[Sender[u]]
        BY <1>2, <2>3 DEF SelKept
      <3>2. st.nonce[Sender[u]] <= new.nonce[Sender[u]]
        BY <2>1
      <3>3. st.nonce[Sender[u]] \in Nat /\ new.nonce[Sender[u]] \in Nat
        BY <1>1, <2>1
      <3> QED
        BY <2>1, <3>1, <3>2, <3>3
    <2> QED
      BY <2>2, <2>3
  <1>3. new.pool.hash \cup new.waiting \cup ToSet(new.exceeded) \subseteq p.hash
    BY DEF SelKept
  <1> QED
    BY <1>2, <1>3 DEF SelKept

LEMMA FromWaitingKept ==
    ASSUME NEW p, GoodPool(p), NEW st, SelType(st), SelKept(p, st), NEW t \in Ready(st)
    PROVE  SelKept(p, FromWaiting(st, t))
  <1>1. t \in st.waiting /\ t \in Txns /\ Nonce[t] = Next1(st, t) /\ t \in p.hash
    BY DEF Ready, SelType, SelKept
  <1>2. ~ HasHigherGas(st.pool, t)
    <2> SUFFICES ASSUME HasHigherGas(st.pool, t) PROVE FALSE
      OBVIOUS
    <2>1. PICK best : best = st.pool.nonce[Key(t)]
      OBVIOUS
    <2>2. best \in st.pool.hash /\ Key(best) = Key(t) /\ Price[best] > Price[t]
      BY <2>1, HigherGasFacts DEF SelType
    <2>3. best \in p.hash
      BY <2>2 DEF SelKept
    <2>4. best = t
      BY <1>1, <2>2, <2>3, OnePerKey
    <2>5. Price[t] \in Nat
      BY <1>1, TxnFacts
    <2> QED
      BY <2>2, <2>4, <2>5
  <1>3. PICK rest : rest = [st EXCEPT !.waiting = st.waiting \ {t}]
    OBVIOUS
  <1>4. /\ DOMAIN rest = SelectionFields
        /\ rest.waiting = st.waiting \ {t} /\ rest.pool = st.pool
        /\ rest.order = st.order /\ rest.gas = st.gas /\ rest.nonce = st.nonce
        /\ rest.exceeded = st.exceeded /\ rest.stop = st.stop
    BY <1>3 DEF SelType, SelectionFields
  <1>5. FromWaiting(st, t) =
           IF st.gas + Limit[t] > GasLimit
           THEN [rest EXCEPT !.exceeded = Append(rest.exceeded, t)]
           ELSE Execute(rest, t)
    <2>1. rest = [st EXCEPT !.waiting = @ \ {t}, !.pool = IF t = t THEN @ ELSE EraseTxn(@, t)]
      BY <1>3 DEF SelType, SelectionFields
    <2> QED
      BY <1>2, <1>4, <2>1 DEF FromWaiting, SelectionFields
  <1>6. SelType(rest)
    BY <1>4 DEF SelType
  <1>7. PICK new : new = FromWaiting(st, t)
    OBVIOUS
  <1>8. st.nonce \in [Senders -> Nat] /\ \A s \in Senders : st.nonce[s] <= st.nonce[s]
    BY DEF SelType
  <1>9. CASE st.gas + Limit[t] > GasLimit
    <2>1. new = [rest EXCEPT !.exceeded = Append(rest.exceeded, t)]
      BY <1>5, <1>7, <1>9
    <2>2. /\ new.waiting = rest.waiting /\ new.pool = rest.pool /\ new.nonce = rest.nonce
          /\ new.exceeded = Append(st.exceeded, t)
      BY <1>4, <2>1 DEF SelectionFields
    <2>3. ToSet(new.exceeded) = ToSet(st.exceeded) \cup {t}
      <3>1. st.exceeded \in Seq(Txns)
        BY DEF SelType
      <3> QED
        BY <1>1, <2>2, <3>1, ToSetAppend
    <2>4. /\ new.pool.hash = st.pool.hash /\ new.waiting = st.waiting \ {t}
          /\ new.nonce = st.nonce
      BY <1>4, <2>2
    <2>5. SelKept(p, new)
      BY <1>1, <1>8, <2>3, <2>4, KeptWithout
    <2> QED
      BY <1>7, <2>5
  <1>10. CASE ~ (st.gas + Limit[t] > GasLimit)
    <2>1. new = Execute(rest, t)
      BY <1>5, <1>7, <1>10
    <2>2. Nonce[t] = Next1(rest, t)
      BY <1>1, <1>4 DEF Next1
    <2>3. /\ new.pool = rest.pool /\ new.waiting = rest.waiting
          /\ new.exceeded = rest.exceeded /\ new.nonce \in [Senders -> Nat]
          /\ \A s \in Senders : rest.nonce[s] <= new.nonce[s]
          /\ ~ Valid[t] \/ Nonce[t] <= new.nonce[Sender[t]]
      BY <1>1, <1>6, <2>1, <2>2, ExecuteUses
    <2>4. /\ new.pool.hash = st.pool.hash /\ new.waiting = st.waiting \ {t}
          /\ new.exceeded = st.exceeded
          /\ \A s \in Senders : st.nonce[s] <= new.nonce[s]
      BY <1>4, <2>3
    <2>5. SelKept(p, new)
      BY <1>1, <2>3, <2>4, KeptWithout
    <2> QED
      BY <1>7, <2>5
  <1> QED
    BY <1>9, <1>10

LEMMA FromPoolKept ==
    ASSUME NEW p, GoodPool(p), NEW st, SelType(st), SelKept(p, st),
           CanFindOne(st.pool), NEW t, t = FindOne(st.pool)
    PROVE  SelKept(p, FromPool(st, t))
  <1>1. GoodPool(st.pool) /\ st.pool.hash \in SUBSET Txns /\ st.nonce \in [Senders -> Nat]
    BY DEF SelType, GoodPool, Pool
  <1>2. t \in st.pool.hash /\ t \in Txns /\ t \in p.hash
    BY <1>1, FindOneFacts DEF SelKept
  <1>3. PICK pool : pool = EraseTxn(st.pool, t) /\ pool.hash = st.pool.hash \ {t} /\ GoodPool(pool)
    BY <1>1, <1>2, EraseGood
  <1>4. PICK rest : rest = [st EXCEPT !.pool = pool]
    OBVIOUS
  <1>5. /\ DOMAIN rest = SelectionFields /\ rest.pool = pool
        /\ rest.waiting = st.waiting /\ rest.order = st.order /\ rest.gas = st.gas
        /\ rest.nonce = st.nonce /\ rest.exceeded = st.exceeded /\ rest.stop = st.stop
    BY <1>4 DEF SelType, SelectionFields
  <1>6. PICK same : same = {u \in st.waiting : Key(u) = Key(t)}
    OBVIOUS
  <1>7. PICK more : more = [rest EXCEPT !.waiting = (st.waiting \ same) \cup {t}]
    OBVIOUS
  <1>8. /\ more.pool = pool /\ more.waiting = (st.waiting \ same) \cup {t}
        /\ more.nonce = st.nonce /\ more.exceeded = st.exceeded
    BY <1>5, <1>7 DEF SelectionFields
  <1>9. /\ Sender[t] \in Senders /\ Nonce[t] \in Nat /\ Next1(st, t) \in Nat
        /\ Next1(st, t) = st.nonce[Sender[t]] + 1 /\ st.nonce[Sender[t]] \in Nat
    <2>1. Sender[t] \in Senders /\ Nonce[t] \in Nat
      BY <1>2, TxnFacts
    <2> QED
      BY <1>1, <2>1 DEF Next1
  <1>10. /\ Nonce[t] > Next1(st, t) =>
               FromPool(st, t) = IF \E u \in same : Price[u] >= Price[t] THEN rest ELSE more
         /\ Nonce[t] < Next1(st, t) => FromPool(st, t) = rest
         /\ Nonce[t] = Next1(st, t) => FromPool(st, t) = Execute(rest, t)
    <2>1. rest = [st EXCEPT !.pool = EraseTxn(@, t)]
      BY <1>3, <1>4 DEF SelType, SelectionFields
    <2>2. more = [rest EXCEPT !.waiting = (@ \ same) \cup {t}]
      BY <1>5, <1>7 DEF SelectionFields
    <2> QED
      BY <1>6, <1>9, <2>1, <2>2 DEF FromPool
  <1>11. same \subseteq {t}
    <2> SUFFICES ASSUME NEW u \in same PROVE u = t
      OBVIOUS
    <2>1. u \in st.waiting /\ Key(u) = Key(t)
      BY <1>6
    <2>2. u \in p.hash
      BY <2>1 DEF SelKept
    <2> QED
      BY <1>2, <2>1, <2>2, OnePerKey
  <1>12. \A s \in Senders : st.nonce[s] <= st.nonce[s]
    BY <1>1
  <1>13. ASSUME t \in st.waiting \/ Nonce[t] <= st.nonce[Sender[t]] PROVE SelKept(p, rest)
    <2>1. /\ rest.pool.hash = st.pool.hash \ {t} /\ rest.waiting = st.waiting
          /\ rest.exceeded = st.exceeded /\ rest.nonce = st.nonce
      BY <1>3, <1>5
    <2> QED
      BY <1>1, <1>2, <1>12, <1>13, <2>1, KeptWithout
  <1>14. SelKept(p, more)
    <2>1. /\ more.pool.hash = st.pool.hash \ {t} /\ more.waiting = st.waiting \cup {t}
          /\ more.exceeded = st.exceeded /\ more.nonce = st.nonce
      BY <1>3, <1>8, <1>11
    <2> QED
      BY <1>1, <1>2, <1>12, <2>1, KeptWithout
  <1>15. CASE Nonce[t] > Next1(st, t)
    <2>1. CASE \E u \in same : Price[u] >= Price[t]
      <3>1. t \in st.waiting
        BY <1>6, <1>11, <2>1
      <3> QED
        BY <1>10, <1>13, <1>15, <2>1, <3>1
    <2>2. CASE ~ \E u \in same : Price[u] >= Price[t]
      BY <1>10, <1>14, <1>15, <2>2
    <2> QED
      BY <2>1, <2>2
  <1>16. CASE Nonce[t] < Next1(st, t)
    <2>1. Nonce[t] <= st.nonce[Sender[t]]
      BY <1>9, <1>16
    <2> QED
      BY <1>10, <1>13, <1>16, <2>1
  <1>17. CASE Nonce[t] = Next1(st, t)
    <2>1. SelType(rest)
      BY <1>3, <1>5 DEF SelType
    <2>2. Nonce[t] = Next1(rest, t)
      BY <1>5, <1>17 DEF Next1
    <2>3. PICK new : new = Execute(rest, t)
      OBVIOUS
    <2>4. /\ new.pool = rest.pool /\ new.waiting = rest.waiting
          /\ new.exceeded = rest.exceeded /\ new.nonce \in [Senders -> Nat]
          /\ \A s \in Senders : rest.nonce[s] <= new.nonce[s]
          /\ ~ Valid[t] \/ Nonce[t] <= new.nonce[Sender[t]]
      BY <1>2, <2>1, <2>2, <2>3, ExecuteUses
    <2>5. /\ new.pool.hash = st.pool.hash \ {t} /\ new.waiting = st.waiting
          /\ new.exceeded = st.exceeded
          /\ \A s \in Senders : st.nonce[s] <= new.nonce[s]
      BY <1>3, <1>5, <2>4
    <2>6. SelKept(p, new)
      BY <1>2, <2>4, <2>5, KeptWithout
    <2> QED
      BY <1>10, <1>17, <2>3, <2>6
  <1> QED
    BY <1>9, <1>15, <1>16, <1>17

LEMMA IterationKept ==
    ASSUME NEW p, GoodPool(p), NEW st, SelType(st), SelKept(p, st)
    PROVE  SelKept(p, Iteration(st))
  <1>1. ASSUME NEW v PROVE SelKept(p, [st EXCEPT !.stop = v])
    <2>1. PICK new : new = [st EXCEPT !.stop = v]
      OBVIOUS
    <2>2. /\ new.pool = st.pool /\ new.waiting = st.waiting
          /\ new.nonce = st.nonce /\ new.exceeded = st.exceeded
      BY <2>1 DEF SelType, SelectionFields
    <2>3. SelKept(p, new)
      BY <2>2 DEF SelKept
    <2> QED
      BY <2>1, <2>3
  <1>2. CASE ~ GasLeft(st)
    BY <1>1, <1>2 DEF Iteration
  <1>3. CASE GasLeft(st) /\ Ready(st) # {}
    <2>1. PICK t : t = CHOOSE x \in Ready(st) : \A u \in Ready(st) : Sender[x] <= Sender[u]
      OBVIOUS
    <2>2. Iteration(st) = FromWaiting(st, t)
      BY <1>3, <2>1 DEF Iteration
    <2>3. t \in Ready(st)
      BY <1>3, <2>1, ReadyChosen
    <2> QED
      BY <2>2, <2>3, FromWaitingKept
  <1>4. CASE GasLeft(st) /\ Ready(st) = {} /\ CanFindOne(st.pool)
    <2>1. Iteration(st) = FromPool(st, FindOne(st.pool))
      BY <1>4 DEF Iteration
    <2> QED
      BY <1>4, <2>1, FromPoolKept
  <1>5. CASE GasLeft(st) /\ Ready(st) = {} /\ ~ CanFindOne(st.pool)
    BY <1>1, <1>5 DEF Iteration
  <1> QED
    BY <1>2, <1>3, <1>4, <1>5

LEMMA LoopKept ==
    ASSUME NEW pool, GoodPool(pool), NEW nonces \in [Senders -> Nat], NEW k \in Nat,
           NEW f, IsLoop(f, SelectionStart(pool, nonces), k)
    PROVE  SelKept(pool, f[k])
  <1>1. /\ f[0] = SelectionStart(pool, nonces)
        /\ \A i \in 1 .. k : f[i] = Advance(f[i - 1])
    <2>1. f = [i \in 0 .. k |-> IF i = 0 THEN SelectionStart(pool, nonces)
                                ELSE Advance(f[i - 1])]
      BY DEF IsLoop
    <2>2. 0 \in 0 .. k /\ \A i \in 1 .. k : i \in 0 .. k /\ i # 0
      OBVIOUS
    <2> QED
      BY <2>1, <2>2
  <1> DEFINE P(i) == SelInv(nonces, f[i]) /\ SelKept(pool, f[i])
             B == {i \in 0 .. k : P(i)}
  <1>2. P(0)
    <2>1. PICK g : IsLoop(g, SelectionStart(pool, nonces), 0)
      BY LoopExists
    <2>2. g[0] = f[0]
      <3>1. g = [i \in 0 .. 0 |-> IF i = 0 THEN SelectionStart(pool, nonces)
                                  ELSE Advance(g[i - 1])]
        BY <2>1 DEF IsLoop
      <3>2. 0 \in 0 .. 0
        OBVIOUS
      <3> QED
        BY <1>1, <3>1, <3>2
    <2>3. SelInv(nonces, f[0])
      BY <2>1, <2>2, LoopKeeps
    <2>4. f[0].pool = pool /\ f[0].waiting = {} /\ f[0].exceeded = <<>>
      BY <1>1 DEF SelectionStart
    <2>5. ToSet(<<>>) = {}
      BY EmptySeq DEF ToSet
    <2>6. SelKept(pool, f[0])
      BY <2>4, <2>5 DEF SelKept
    <2> QED
      BY <2>3, <2>6
  <1>3. ASSUME NEW i \in 0 .. k, i < k, P(i) PROVE P(i + 1)
    <2>1. i + 1 \in 1 .. k /\ (i + 1) - 1 = i
      BY <1>3
    <2>2. f[i + 1] = Advance(f[i])
      BY <1>1, <2>1
    <2>3. PICK st : st = f[i] /\ SelInv(nonces, st) /\ SelKept(pool, st)
      BY <1>3
    <2>4. CASE st.stop # "none"
      <3>1. f[i + 1] = st
        BY <2>2, <2>3, <2>4 DEF Advance
      <3> QED
        BY <2>3, <3>1
    <2>5. CASE st.stop = "none"
      <3>1. f[i + 1] = Iteration(st)
        BY <2>2, <2>3, <2>5 DEF Advance
      <3>2. SelInv(nonces, Iteration(st))
        BY <2>3, <2>5, IterationKeeps
      <3>3. SelType(st)
        BY <2>3 DEF SelInv
      <3>4. SelKept(pool, Iteration(st))
        BY <2>3, <3>3, IterationKept
      <3> QED
        BY <3>1, <3>2, <3>4
    <2> QED
      BY <2>4, <2>5
  <1> HIDE DEF P
  <1>4. \A i \in 0 .. k : i \in B
    <2>1. 0 \in B
      BY <1>2
    <2>2. \A i \in 0 .. k : i < k /\ i \in B => i + 1 \in B
      BY <1>3
    <2> HIDE DEF B
    <2> QED
      BY <2>1, <2>2, Stepwise
  <1>5. P(k)
    <2>1. k \in 0 .. k
      OBVIOUS
    <2>2. k \in B
      BY <1>4, <2>1
    <2> QED
      BY <2>2
  <1> QED
    BY <1>5 DEF P

\* What a selection leaves of the pool hash, and the nonces it ends with
KeptOutcome(hash, nonces, st) ==
    /\ \A t \in hash : \/ t \in ReinstateMemPool(st).hash \/ ~ Valid[t]
                       \/ Nonce[t] <= st.nonce[Sender[t]]
    /\ \A s \in Senders : st.nonce[s] = nonces[s] + Counted(st.order, Len(st.order), s)

LEMMA SelectionKept ==
    ASSUME NEW pool, GoodPool(pool), NEW nonces \in [Senders -> Nat], NEW k \in Nat
    PROVE  KeptOutcome(pool.hash, nonces, Selection(pool, nonces, k))
  <1>1. PICK f : /\ IsLoop(f, SelectionStart(pool, nonces), k)
                 /\ Selection(pool, nonces, k) =
                       IF f[k].stop = "none" THEN [f[k] EXCEPT !.stop = "timeout"] ELSE f[k]
    BY SelectionLoop
  <1>2. PICK end : end = f[k]
    OBVIOUS
  <1>3. PICK st : st = Selection(pool, nonces, k)
    OBVIOUS
  <1>4. SelInv(nonces, end) /\ SelKept(pool, end)
    BY <1>1, <1>2, LoopKeeps, LoopKept
  <1>5. SelType(end) /\ SelOrder(nonces, end)
    BY <1>4 DEF SelInv
  <1>6. /\ st.pool = end.pool /\ st.waiting = end.waiting /\ st.order = end.order
        /\ st.nonce = end.nonce /\ st.exceeded = end.exceeded
    BY <1>1, <1>2, <1>3, <1>5 DEF SelType, SelectionFields
  <1>7. PICK q : q = ReinstateMemPool(st)
    OBVIOUS
  <1>8. st.waiting \in SUBSET Txns /\ st.exceeded \in Seq(Txns) /\ GoodPool(st.pool)
    BY <1>5, <1>6 DEF SelType
  <1>9. Merged(st.pool, q, st.waiting \cup ToSet(st.exceeded))
    <2>1. SetToSeq(st.waiting) \in Seq(Txns) /\ ToSet(SetToSeq(st.waiting)) = st.waiting
      BY <1>8, TxnsFinite, SetToSeqFacts
    <2>2. PICK mid : mid = InsertAll(st.pool, SetToSeq(st.waiting))
      OBVIOUS
    <2>3. Merged(st.pool, mid, st.waiting)
      <3>1. Merged(st.pool, mid, ToSet(SetToSeq(st.waiting)))
        BY <1>8, <2>1, <2>2, InsertAllMerged
      <3> QED
        BY <2>1, <3>1
    <2>4. GoodPool(mid) /\ q = InsertAll(mid, st.exceeded)
      BY <1>7, <2>2, <2>3 DEF Merged, ReinstateMemPool
    <2>5. Merged(mid, q, ToSet(st.exceeded))
      BY <1>8, <2>4, InsertAllMerged
    <2> QED
      BY <2>3, <2>5, MergedTrans
  <1>10. ASSUME NEW t \in pool.hash, t \notin q.hash
         PROVE  ~ Valid[t] \/ Nonce[t] <= st.nonce[Sender[t]]
    <2>1. CASE t \in st.pool.hash \cup st.waiting \cup ToSet(st.exceeded)
      <3>1. t \in Txns
        BY DEF GoodPool, Pool
      <3>2. Covered(q, t)
        BY <1>9, <2>1, <3>1 DEF Merged, Covered
      <3>3. PICK u : u = q.nonce[Key(t)] /\ u \in q.hash /\ Key(u) = Key(t)
        BY <1>9, <1>10, <3>2 DEF Covered, Merged, GoodPool, Indexed
      <3>4. u \in pool.hash
        BY <1>4, <1>6, <1>9, <3>3 DEF Merged, SelKept
      <3>5. u = t
        BY <3>3, <3>4, OnePerKey
      <3> QED
        BY <1>10, <3>3, <3>5
    <2>2. CASE t \notin st.pool.hash \cup st.waiting \cup ToSet(st.exceeded)
      BY <1>4, <1>6, <2>2 DEF SelKept
    <2> QED
      BY <2>1, <2>2
  <1>11. \A s \in Senders : st.nonce[s] = nonces[s] + Counted(st.order, Len(st.order), s)
    BY <1>5, <1>6 DEF SelOrder
  <1>12. KeptOutcome(pool.hash, nonces, st)
    BY <1>7, <1>10, <1>11 DEF KeptOutcome
  <1> QED
    BY <1>3, <1>12

------------------------------------------------------------------------------
(* The inductive invariant *)

TypeNode ==
    /\ epoch \in [Nodes -> Epochs]
    /\ state \in [Nodes -> {"WAITING_FINALBLOCK", "MICROBLOCK_CONSENSUS_PREP",
                            "MICROBLOCK_CONSENSUS"}]
    /\ window \in [Nodes -> BOOLEAN] /\ begin \in [Nodes -> SUBSET {"run", "prep", "commit"}]
    /\ stop \in [Nodes -> {"none", "timeout", "gas", "exhausted"}]
    /\ accepted \in [Nodes -> BOOLEAN] /\ cosig \in [Nodes -> BOOLEAN]
    /\ handler \in [Nodes -> [epoch : 0 .. MaxEpoch,
                              phase : {"none", "missing", "waiting"}]]
    /\ rerun \in [Nodes -> SUBSET Epochs]
    /\ stale \in [Nodes -> BOOLEAN] /\ fetched \in [Nodes -> BOOLEAN]

TypeTxns ==
    /\ \A n \in Nodes : /\ created[n].hash \subseteq Txns
                        /\ temp[n].hash \subseteq Txns
                        /\ buffer[n] \in Seq(Packets)
                        /\ order[n] \in Seq(Txns)
    /\ arrived \in [Nodes -> SUBSET Packets]
    /\ nonceTemp \in [Nodes -> [Senders -> Nat]]
    /\ gasUsed \in [Nodes -> Nat]
    /\ timeouts \in 0 .. MaxTimeouts
    /\ known \in [Nodes -> SUBSET Txns] /\ copied \in [Nodes -> SUBSET Txns]
    /\ lost \in [Nodes -> SUBSET Txns]

TypeShared ==
    /\ DOMAIN micro \subseteq Epochs
    /\ request \subseteq [from : Nodes, epoch : Epochs, txns : SUBSET Txns]
    /\ answered \subseteq Nodes \X Epochs
    /\ reply \subseteq [to : Nodes, epoch : Epochs, txns : SUBSET Txns]
    /\ signed \subseteq Epochs
    /\ chain \in Seq([included : BOOLEAN, txns : Seq(Txns)])
    /\ Len(chain) < MaxEpoch
    /\ replies \in 0 .. MaxReplies

LEMMA TypeParts ==
    /\ TypeOK <=> TypeNode /\ TypeTxns /\ TypeShared
    /\ TypeOK' <=> TypeNode' /\ TypeTxns' /\ TypeShared'
  BY DEF TypeOK, TypeNode, TypeTxns, TypeShared

\* The functions whose values TypeOK does not describe are functions on Nodes
ShapeInv ==
    /\ DOMAIN created = Nodes /\ DOMAIN temp = Nodes
    /\ buffer \in [Nodes -> Seq(Packets)] /\ DOMAIN order = Nodes

\* The indexes of both pools agree
PoolInv == \A n \in Nodes : GoodPool(created[n]) /\ GoodPool(temp[n])

\* The node is past the wait for packets of its epoch
Started(n) == begin[n] \cap {"run", "prep"} = {}

\* The announcement of the node's epoch lacks transactions, and its handler
\* waits for them or a thread is to process it again
Waits(n) == handler[n].phase # "none" /\ handler[n].epoch = epoch[n]
Busy(n) == epoch[n] \in rerun[n] \/ Waits(n)

\* Nothing is about an epoch that its node is not yet in
EpochInv ==
    /\ \A n \in Nodes : epoch[n] <= Len(chain) + 1
    /\ \A n \in Nodes : \A e \in rerun[n] : e <= epoch[n]
    /\ \A n \in Nodes : handler[n].phase # "none" => handler[n].epoch \in 1 .. epoch[n]
    /\ \A q \in request : q.epoch <= epoch[q.from]
    /\ \A r \in reply : r.epoch <= epoch[r.to]
    /\ \A e \in DOMAIN micro : \/ epoch[Leader[e]] > e
                               \/ epoch[Leader[e]] = e /\ Started(Leader[e])

\* How far a node has come in its epoch
BeginInv ==
    /\ \A n \in Nodes : ~ ({"run", "prep"} \subseteq begin[n])
    /\ \A n \in Nodes : state[n] = "MICROBLOCK_CONSENSUS" => Started(n)
    /\ \A n \in Nodes : fetched[n] => Started(n)

\* A microblock that somebody relies on exists
MicroKnown ==
    /\ \A n \in Nodes : accepted[n] => epoch[n] \in DOMAIN micro
    /\ \A n \in Nodes : state[n] = "MICROBLOCK_CONSENSUS" /\ n = Leader[epoch[n]] =>
          epoch[n] \in DOMAIN micro
    /\ signed \subseteq DOMAIN micro

\* The nonces after the final blocks ch before epoch e
NonceOf(ch, e) ==
    LET done == UNION {ToSet(ch[i].txns) : i \in 1 .. e - 1}
    IN  [s \in Senders |-> Cardinality({t \in done : Sender[t] = s})]

\* When AccountStoreTemp holds the accounts of the last final block
NonceAt(n) ==
    /\ stop[n] = "none" /\ ~ stale[n] => nonceTemp[n] = NonceOf(chain, epoch[n])
    /\ ~ Started(n) /\ ~ stale[n] => stop[n] = "none"
    /\ Busy(n) => Started(n) /\ (stale[n] \/ stop[n] = "none")
    /\ ~ (epoch[n] \in rerun[n] /\ Waits(n))
    /\ state[n] = "MICROBLOCK_CONSENSUS" /\ stop[n] = "none" => Busy(n)

NonceInv == \A n \in Nodes : NonceAt(n)

\* Announced microblocks carry on from some nonces, if not the right ones
MicroInv ==
    \A e \in DOMAIN micro :
        /\ micro[e].order \in Seq(Txns) /\ micro[e].delta = ToSet(micro[e].order)
        /\ \E base \in [Senders -> Nat] : From(micro[e].order, base)

SelectedAt(n) ==
    stop[n] # "none" /\ ~ stale[n] => From(order[n], NonceOf(chain, epoch[n]))

SelectedInv == \A n \in Nodes : SelectedAt(n)

AcceptedAt(n) ==
    accepted[n] /\ ~ stale[n] => From(micro[epoch[n]].order, NonceOf(chain, epoch[n]))

AcceptedInv == \A n \in Nodes : AcceptedAt(n)

\* What a node did not ask for it had, and what it has fetched it keeps
FetchInv ==
    /\ \A q \in request : epoch[q.from] = q.epoch =>
          /\ q.epoch \in DOMAIN micro /\ Started(q.from)
          /\ \A t \in ToSet(micro[q.epoch].order) \ q.txns : Covered(created[q.from], t)
    /\ \A r \in reply : epoch[r.to] = r.epoch =>
          \E q \in request : q.from = r.to /\ q.epoch = r.epoch
    /\ \A n \in Nodes : fetched[n] =>
          /\ epoch[n] \in DOMAIN micro
          /\ \A t \in ToSet(micro[epoch[n]].order) : Covered(created[n], t)

IInv ==
    /\ TypeOK /\ ShapeInv /\ PoolInv /\ GasOvershootBounded /\ NothingExecutableLeft
    /\ EpochInv /\ BeginInv /\ MicroKnown /\ NonceInv /\ MicroInv /\ SelectedInv
    /\ AcceptedInv /\ FetchInv

LEMMA LeaderFacts ==
    /\ MaxEpoch \in Nat \ {0} /\ Epochs = 1 .. MaxEpoch
    /\ \A e \in Epochs : Leader[e] \in Nodes
  <1>1. Leader \in Seq(Nodes) /\ Leader # <<>>
    BY ConstantsAssumption
  <1>2. Len(Leader) \in Nat \ {0} /\ DOMAIN Leader = 1 .. Len(Leader)
    BY <1>1, LenProperties, EmptySeq
  <1>3. \A e \in 1 .. Len(Leader) : Leader[e] \in Nodes
    BY <1>1, <1>2, ElementOfSeq
  <1> QED
    BY <1>2, <1>3 DEF Epochs, MaxEpoch

LEMMA NonceOfFacts ==
    ASSUME NEW ch \in Seq([included : BOOLEAN, txns : Seq(Txns)]),
           NEW e \in Nat \ {0}, e <= Len(ch) + 1
    PROVE  /\ NonceOf(ch, e) \in [Senders -> Nat]
           /\ \A x : NonceOf(Append(ch, x), e) = NonceOf(ch, e)
  <1> DEFINE done == UNION {ToSet(ch[i].txns) : i \in 1 .. e - 1}
  <1>1. \A i \in 1 .. e - 1 : i \in 1 .. Len(ch) /\ i \in DOMAIN ch
    BY LenProperties
  <1>2. \A i \in 1 .. e - 1 : ch[i].txns \in Seq(Txns)
    <2> TAKE i \in 1 .. e - 1
    <2>1. ch[i] \in [included : BOOLEAN, txns : Seq(Txns)]
      BY <1>1, ElementOfSeq
    <2> QED
      BY <2>1
  <1>3. \A i \in 1 .. e - 1 : ToSet(ch[i].txns) \subseteq Txns
    <2> TAKE i \in 1 .. e - 1
    <2>1. PICK x \in Seq(Txns) : x = ch[i].txns
      BY <1>2
    <2>2. \A j \in DOMAIN x : x[j] \in Txns
      BY ElementOfSeq, LenProperties
    <2> QED
      BY <2>1, <2>2 DEF ToSet
  <1>4. done \in SUBSET Txns
    BY <1>3
  <1>5. NonceOf(ch, e) = [s \in Senders |-> Cardinality({t \in done : Sender[t] = s})]
    BY DEF NonceOf
  <1>6. ASSUME NEW x PROVE NonceOf(Append(ch, x), e) = NonceOf(ch, e)
    <2>1. PICK new : new = Append(ch, x)
      OBVIOUS
    <2>2. \A i \in 1 .. e - 1 : new[i] = ch[i]
      BY <1>1, <2>1, LenProperties
    <2>3. {ToSet(ch[i].txns) : i \in 1 .. e - 1} = {ToSet(new[i].txns) : i \in 1 .. e - 1}
      BY <2>2
    <2> QED
      BY <2>1, <2>3 DEF NonceOf
  <1> HIDE DEF done
  <1>7. \A s \in Senders : Cardinality({t \in done : Sender[t] = s}) \in Nat
    <2> TAKE s \in Senders
    <2>1. {t \in done : Sender[t] = s} \in SUBSET Txns
      BY <1>4
    <2> QED
      BY <2>1, TxnsFinite
  <1> QED
    BY <1>5, <1>6, <1>7

LEMMA NonceAfterIs ==
    ASSUME NEW e
    PROVE  NonceAfter(e) = NonceOf(chain, e)
  BY DEF NonceAfter, NonceOf

LEMMA InitInv == Init => IInv
  <1> SUFFICES ASSUME Init PROVE IInv
    OBVIOUS
  <1>1. TypeOK
    <2>1. 1 \in Epochs /\ 0 \in 0 .. MaxEpoch /\ 0 < MaxEpoch
      BY LeaderFacts
    <2>2. MaxTimeouts \in Nat /\ MaxReplies \in Nat
      BY ConstantsAssumption
    <2>3. TypeNode
      BY <2>1 DEF Init, TypeNode, NoHandler
    <2>4. TypeTxns
      BY <2>2, EmptySeq DEF Init, TypeTxns, EmptyPool
    <2>5. TypeShared
      BY <2>1, <2>2, EmptySeq DEF Init, TypeShared
    <2> QED
      BY <2>3, <2>4, <2>5, TypeParts
  <1>2. ShapeInv /\ PoolInv
    BY EmptyPoolGood, EmptySeq DEF Init, ShapeInv, PoolInv
  <1>3. GasOvershootBounded /\ NothingExecutableLeft
    BY DEF Init, GasOvershootBounded, NothingExecutableLeft
  <1>4. EpochInv
    BY LeaderFacts, EmptySeq DEF Init, EpochInv, NoHandler
  <1>5. BeginInv /\ MicroKnown
    BY DEF Init, BeginInv, MicroKnown
  <1>6. NonceInv
    <2>1. NonceOf(chain, 1) = [s \in Senders |-> 0]
      <3>1. 1 .. 1 - 1 = {}
        OBVIOUS
      <3>2. UNION {ToSet(chain[i].txns) : i \in 1 .. 1 - 1} = {}
        BY <3>1
      <3>3. \A s \in Senders : {t \in {} : Sender[t] = s} = {}
        OBVIOUS
      <3> QED
        BY <3>2, <3>3, FS_EmptySet DEF NonceOf
    <2> QED
      BY <2>1 DEF Init, NonceInv, NonceAt, Busy, Waits, NoHandler
  <1>7. MicroInv /\ SelectedInv /\ AcceptedInv /\ FetchInv
    BY DEF Init, MicroInv, SelectedInv, SelectedAt, AcceptedInv, AcceptedAt, FetchInv
  <1> QED
    BY <1>1, <1>2, <1>3, <1>4, <1>5, <1>6, <1>7 DEF IInv

(* The steps of the actions that several parts of the invariant need *)

\* The variables after a selection of node n with outcome st
Selected(n, st) ==
    /\ Outcome(nonceTemp[n], st) /\ KeptOutcome(created[n].hash, nonceTemp[n], st)
    /\ temp' = [temp EXCEPT ![n] = ReinstateMemPool(st)]
    /\ nonceTemp' = [nonceTemp EXCEPT ![n] = st.nonce]
    /\ order' = [order EXCEPT ![n] = st.order]
    /\ gasUsed' = [gasUsed EXCEPT ![n] = st.gas]
    /\ stop' = [stop EXCEPT ![n] = st.stop]
    /\ copied' = [copied EXCEPT ![n] = created[n].hash]
    /\ timeouts' \in 0 .. MaxTimeouts

LEMMA SelectedStep ==
    ASSUME IInv, NEW n \in Nodes, NEW k \in TimerStops(n), ProcessTransaction(n, k)
    PROVE  \E st : Selected(n, st)
  <1>1. PICK st : st = Selection(created[n], nonceTemp[n], k)
    OBVIOUS
  <1>2. GoodPool(created[n]) /\ nonceTemp[n] \in [Senders -> Nat] /\ timeouts \in 0 .. MaxTimeouts
    BY DEF IInv, PoolInv, TypeOK
  <1>3. /\ k \in Nat /\ MaxTimeouts \in Nat
        /\ k = MaxIterations \/ timeouts < MaxTimeouts
    <2>1. MaxIterations \in Nat
      BY TxnsFinite DEF MaxIterations
    <2> QED
      BY <2>1, ConstantsAssumption DEF TimerStops
  <1>4. Outcome(nonceTemp[n], st) /\ (k = MaxIterations => st.stop # "timeout")
    BY <1>1, <1>2, <1>3, SelectionOutcome
  <1>5. timeouts' = timeouts + (IF st.stop = "timeout" THEN 1 ELSE 0)
    BY <1>1 DEF ProcessTransaction
  <1>6. timeouts' \in 0 .. MaxTimeouts
    BY <1>2, <1>3, <1>4, <1>5
  <1>7. KeptOutcome(created[n].hash, nonceTemp[n], st)
    BY <1>1, <1>2, <1>3, SelectionKept
  <1> QED
    BY <1>1, <1>4, <1>6, <1>7 DEF ProcessTransaction, Selected

\* The pools take in transactions, and keep what they cover
PoolsGrow ==
    /\ DOMAIN created' = Nodes
    /\ \A m \in Nodes : /\ GoodPool(created'[m])
                        /\ \A u \in Txns : Covered(created[m], u) => Covered(created'[m], u)
                        /\ created'[m].hash \subseteq Txns

LEMMA GrowAt ==
    ASSUME ShapeInv, PoolInv, NEW n \in Nodes, NEW q, NEW S,
           Merged(created[n], q, S), created' = [created EXCEPT ![n] = q]
    PROVE  PoolsGrow
  <1>1. GoodPool(q) /\ \A u \in Txns : Covered(created[n], u) => Covered(q, u)
    BY DEF Merged
  <1>2. \A m \in Nodes : created'[m] = IF m = n THEN q ELSE created[m]
    BY DEF ShapeInv
  <1>3. \A m \in Nodes : GoodPool(created'[m])
    BY <1>1, <1>2 DEF PoolInv
  <1>4. \A m \in Nodes : created'[m].hash \subseteq Txns
    BY <1>3 DEF GoodPool, Pool
  <1>5. DOMAIN created' = Nodes
    BY DEF ShapeInv
  <1>6. \A m \in Nodes : \A u \in Txns : Covered(created[m], u) => Covered(created'[m], u)
    BY <1>1, <1>2
  <1> QED
    BY <1>3, <1>4, <1>5, <1>6 DEF PoolsGrow

LEMMA GrowNot ==
    ASSUME ShapeInv, PoolInv, created' = created
    PROVE  PoolsGrow
  BY DEF ShapeInv, PoolInv, PoolsGrow, GoodPool, Pool

LEMMA InsertPacketsGrow ==
    ASSUME IInv, NEW n \in Nodes, NEW packets \in Seq(Packets), InsertPackets(n, packets)
    PROVE  PoolsGrow
  <1>0. epoch[n] \in 1 .. MaxEpoch /\ MaxEpoch \in Nat
    BY LeaderFacts DEF IInv, TypeOK
  <1>1. epoch[n] # 0 /\ GoodPool(created[n]) /\ ShapeInv /\ PoolInv
    BY <1>0 DEF IInv, PoolInv
  <1>2. PICK S \in SUBSET Txns : Merged(created[n], PoolAfter(n, packets), S)
    BY <1>1, PoolAfterMerged
  <1>3. created' = [created EXCEPT ![n] = PoolAfter(n, packets)]
    BY DEF InsertPackets
  <1> QED
    BY <1>1, <1>2, <1>3, GrowAt

LEMMA PacketGrow ==
    ASSUME IInv, NEW n \in Nodes, NEW p \in Packets, ProcessTxnPacketFromLookup(n, p)
    PROVE  PoolsGrow
  <1>1. ShapeInv /\ PoolInv
    BY DEF IInv
  <1>2. CASE UNCHANGED created
    BY <1>1, <1>2, GrowNot
  <1>3. CASE InsertPackets(n, <<p>>)
    <2>1. <<p>> \in Seq(Packets)
      OBVIOUS
    <2> QED
      BY <1>3, <2>1, InsertPacketsGrow
  <1> QED
    BY <1>2, <1>3 DEF ProcessTxnPacketFromLookup

LEMMA CommitGrow ==
    ASSUME IInv, NEW n \in Nodes, CommitTxnPacketBuffer(n)
    PROVE  PoolsGrow
  <1>1. buffer[n] \in Seq(Packets)
    BY DEF IInv, TypeOK
  <1> QED
    BY <1>1, InsertPacketsGrow DEF CommitTxnPacketBuffer

\* The reply leaves its transactions covered
LEMMA SubmitGrow ==
    ASSUME IInv, NEW n \in Nodes, NEW r \in reply, ProcessSubmitMissingTxn(n, r)
    PROVE  /\ PoolsGrow
           /\ state[n] = "MICROBLOCK_CONSENSUS" => \A u \in r.txns : Covered(created'[n], u)
  <1>1. ShapeInv /\ PoolInv /\ r.txns \in SUBSET Txns
    <2>1. r \in [to : Nodes, epoch : Epochs, txns : SUBSET Txns]
      BY DEF IInv, TypeOK
    <2> QED
      BY <2>1 DEF IInv
  <1>2. CASE state[n] # "MICROBLOCK_CONSENSUS"
    <2>1. created' = created
      BY <1>2 DEF ProcessSubmitMissingTxn
    <2> QED
      BY <1>1, <1>2, <2>1, GrowNot
  <1>3. CASE state[n] = "MICROBLOCK_CONSENSUS"
    <2>1. PICK q : q = InsertAll(created[n], SetToSeq(r.txns))
      OBVIOUS
    <2>2. created' = [created EXCEPT ![n] = q]
      BY <1>1, <1>3, <2>1 DEF ProcessSubmitMissingTxn, SubmittedTxns, ShapeInv
    <2>3. SetToSeq(r.txns) \in Seq(Txns) /\ ToSet(SetToSeq(r.txns)) = r.txns
      BY <1>1, TxnsFinite, SetToSeqFacts
    <2>4. Merged(created[n], q, r.txns)
      <3>1. GoodPool(created[n])
        BY <1>1 DEF PoolInv
      <3>2. Merged(created[n], q, ToSet(SetToSeq(r.txns)))
        BY <2>1, <2>3, <3>1, InsertAllMerged
      <3> QED
        BY <2>3, <3>2
    <2>5. PoolsGrow
      BY <1>1, <2>2, <2>4, GrowAt
    <2>6. created'[n] = q
      BY <1>1, <2>2 DEF ShapeInv
    <2>7. \A u \in r.txns : Covered(q, u)
      BY <1>1, <2>4 DEF Merged
    <2> QED
      BY <2>5, <2>6, <2>7
  <1> QED
    BY <1>2, <1>3

\* The leader announces one microblock per epoch
LEMMA LeaderPuts ==
    ASSUME IInv, NEW n \in Nodes, NEW k, RunConsensusOnMicroBlockWhenShardLeader(n, k)
    PROVE  /\ epoch[n] \notin DOMAIN micro
           /\ DOMAIN micro' = DOMAIN micro \cup {epoch[n]}
           /\ \A e \in DOMAIN micro : micro'[e] = micro[e]
           /\ micro'[epoch[n]].order = order'[n]
           /\ micro'[epoch[n]].delta = ToSet(order'[n])
  <1>1. /\ "prep" \in begin[n] /\ n = Leader[epoch[n]]
        /\ micro' = Put(micro, epoch[n], Block(n)')
    BY DEF RunConsensusOnMicroBlockWhenShardLeader, FinishPrep
  <1>2. ~ Started(n)
    BY <1>1 DEF Started
  <1>3. epoch[n] \notin DOMAIN micro
    <2>1. epoch[n] \in 1 .. MaxEpoch /\ MaxEpoch \in Nat
      BY LeaderFacts DEF IInv, TypeOK
    <2> QED
      BY <1>1, <1>2, <2>1 DEF IInv, EpochInv
  <1>4. PICK b : /\ b = Block(n)' /\ b.order = order'[n]
                 /\ b.delta = ToSet(order'[n])
    <2>1. Block(n)' = [order |-> order'[n], gas |-> gasUsed'[n], delta |-> ToSet(order'[n])]
      BY DEF Block, ToSet
    <2> QED
      BY <2>1
  <1>5. micro' = Put(micro, epoch[n], b)
    BY <1>1, <1>4
  <1> HIDE DEF Started
  <1>6. /\ DOMAIN micro' = DOMAIN micro \cup {epoch[n]}
        /\ \A e \in DOMAIN micro : e # epoch[n] => micro'[e] = micro[e]
        /\ micro'[epoch[n]] = b
    BY <1>5 DEF Put
  <1> QED
    BY <1>3, <1>4, <1>6

\* A final block takes the node to the next epoch; only what is about an epoch
\* that some node is in stays
LEMMA FinalBlockStep ==
    ASSUME IInv, NEW n \in Nodes, ProcessFinalBlock(n)
    PROVE  /\ epoch[n] + 1 \in Epochs /\ epoch[n] \in Nat /\ epoch[n] <= Len(chain)
           /\ \A m \in Nodes : epoch'[m] = IF m = n THEN epoch[n] + 1 ELSE epoch[m]
           /\ DOMAIN micro' \subseteq DOMAIN micro
           /\ \A e \in DOMAIN micro' : micro'[e] = micro[e]
           /\ \A e \in DOMAIN micro : (\E m \in Nodes : epoch'[m] = e) => e \in DOMAIN micro'
           /\ request' \subseteq request
           /\ \A q \in request : (\E m \in Nodes : epoch'[m] = q.epoch) => q \in request'
           /\ signed' = {x \in signed : \E m \in Nodes : epoch'[m] = x}
           /\ answered' \subseteq answered
  <1>1. epoch \in [Nodes -> Epochs] /\ Len(chain) < MaxEpoch /\ Len(chain) \in Nat
    BY LenProperties DEF IInv, TypeOK
  <1>2. epoch[n] <= Len(chain) /\ epoch' = [epoch EXCEPT ![n] = epoch[n] + 1]
    BY DEF ProcessFinalBlock
  <1>3. epoch[n] + 1 \in Epochs /\ epoch[n] \in Nat
    BY <1>1, <1>2, LeaderFacts
  <1>4. \A m \in Nodes : epoch'[m] = IF m = n THEN epoch[n] + 1 ELSE epoch[m]
    BY <1>1, <1>2
  <1>5. /\ micro' = [x \in {y \in DOMAIN micro : \E m \in Nodes : epoch'[m] = y} |-> micro[x]]
        /\ request' = {q \in request : \E m \in Nodes : epoch'[m] = q.epoch}
        /\ answered' = {a \in answered : \E m \in Nodes : epoch'[m] = a[2]}
        /\ signed' = {x \in signed : \E m \in Nodes : epoch'[m] = x}
    BY DEF ProcessFinalBlock
  <1> QED
    BY <1>2, <1>3, <1>4, <1>5

(* Every step keeps the types *)

LEMMA TypeNodeKept ==
    ASSUME IInv, [Next]_vars
    PROVE  TypeNode'
  <1>1. TypeNode
    BY TypeParts DEF IInv
  <1>2. CASE UNCHANGED vars
    BY <1>1, <1>2 DEF TypeNode, vars, nodeVars
  <1>3. ASSUME NEW n \in Nodes, NEW p \in Packets, ProcessTxnPacketFromLookup(n, p)
        PROVE  TypeNode'
    BY <1>1, <1>3 DEF TypeNode, ProcessTxnPacketFromLookup, selection, consensus
  <1>4. ASSUME NEW n \in Nodes, CommitTxnPacketBuffer(n) PROVE TypeNode'
    BY <1>1, <1>4 DEF TypeNode, CommitTxnPacketBuffer, selection, consensus
  <1>5. ASSUME NEW n \in Nodes, RunConsensusOnMicroBlock(n) PROVE TypeNode'
    BY <1>1, <1>5 DEF TypeNode, RunConsensusOnMicroBlock, selection, consensus
  <1>6. ASSUME NEW n \in Nodes, NEW k \in TimerStops(n),
               RunConsensusOnMicroBlockWhenShardLeader(n, k)
        PROVE  TypeNode'
    <2>1. PICK st : Selected(n, st)
      BY <1>6, SelectedStep DEF RunConsensusOnMicroBlockWhenShardLeader, FinishPrep
    <2>2. st.stop \in {"none", "timeout", "gas", "exhausted"}
      BY <2>1 DEF Selected, Outcome
    <2>3. stop' = [stop EXCEPT ![n] = st.stop]
      BY <2>1 DEF Selected
    <2> QED
      BY <1>1, <1>6, <2>2, <2>3
         DEF TypeNode, RunConsensusOnMicroBlockWhenShardLeader, FinishPrep
  <1>7. ASSUME NEW n \in Nodes, NEW k \in TimerStops(n),
               RunConsensusOnMicroBlockWhenShardBackup(n, k)
        PROVE  TypeNode'
    <2>1. PICK st : Selected(n, st)
      BY <1>7, SelectedStep DEF RunConsensusOnMicroBlockWhenShardBackup, FinishPrep
    <2>2. st.stop \in {"none", "timeout", "gas", "exhausted"}
      BY <2>1 DEF Selected, Outcome
    <2>3. stop' = [stop EXCEPT ![n] = st.stop]
      BY <2>1 DEF Selected
    <2> QED
      BY <1>1, <1>7, <2>2, <2>3
         DEF TypeNode, RunConsensusOnMicroBlockWhenShardBackup, FinishPrep
  <1>8. ASSUME NEW n \in Nodes, NEW k \in TimerStops(n), NEW e \in rerun[n],
               ReprocessConsensus(n, e, k)
        PROVE  TypeNode'
    <2>1. PICK st : Selected(n, st)
      BY <1>8, SelectedStep DEF ReprocessConsensus
    <2>2. st.stop \in {"none", "timeout", "gas", "exhausted"}
      BY <2>1 DEF Selected, Outcome
    <2>3. stop' = [stop EXCEPT ![n] = st.stop]
      BY <2>1 DEF Selected
    <2>4. stale' \in [Nodes -> BOOLEAN]
      BY <1>1, <1>8, Zenon DEF TypeNode, ReprocessConsensus
    <2> QED
      BY <1>1, <1>8, <2>2, <2>3, <2>4 DEF TypeNode, ReprocessConsensus, fetching
  <1>9. ASSUME NEW n \in Nodes, MicroBlockValidator(n) PROVE TypeNode'
    <2>1. epoch[n] \in 0 .. MaxEpoch
      BY <1>1, LeaderFacts DEF TypeNode
    <2>2. stop' \in [Nodes -> {"none", "timeout", "gas", "exhausted"}]
             /\ stale' \in [Nodes -> BOOLEAN] /\ accepted' \in [Nodes -> BOOLEAN]
      BY <1>1, <1>9 DEF TypeNode, MicroBlockValidator, RevertTemp, InitTemp
    <2>3. handler' \in [Nodes -> [epoch : 0 .. MaxEpoch,
                                  phase : {"none", "missing", "waiting"}]]
      BY <1>1, <1>9, <2>1 DEF TypeNode, MicroBlockValidator
    <2> QED
      BY <1>1, <1>9, <2>2, <2>3 DEF TypeNode, MicroBlockValidator
  <1>10. ASSUME NEW n \in Nodes, NEW r \in request, OnNodeMissingTxns(n, r) PROVE TypeNode'
    BY <1>1, <1>10 DEF TypeNode, OnNodeMissingTxns, fetching, selection
  <1>11. ASSUME NEW n \in Nodes, WaitMissingTxn(n) PROVE TypeNode'
    BY <1>1, <1>11 DEF TypeNode, WaitMissingTxn, fetching, selection
  <1>12. ASSUME NEW n \in Nodes, NEW r \in reply, ProcessSubmitMissingTxn(n, r)
         PROVE  TypeNode'
    <2>1. /\ handler' \in [Nodes -> [epoch : 0 .. MaxEpoch,
                                     phase : {"none", "missing", "waiting"}]]
          /\ rerun' \in [Nodes -> SUBSET Epochs]
      <3>1. handler[n].phase # "none" => handler[n].epoch \in Epochs
        <4>1. epoch[n] \in 1 .. MaxEpoch /\ MaxEpoch \in Nat /\ Epochs = 1 .. MaxEpoch
          BY <1>1, LeaderFacts DEF TypeNode
        <4>2. handler[n].phase # "none" => handler[n].epoch \in 1 .. epoch[n]
          BY DEF IInv, EpochInv
        <4> QED
          BY <4>1, <4>2
      <3>2. NoHandler \in [epoch : 0 .. MaxEpoch, phase : {"none", "missing", "waiting"}]
        BY LeaderFacts DEF NoHandler
      <3>3. CASE UNCHANGED <<handler, rerun>>
        BY <1>1, <3>3 DEF TypeNode
      <3>4. CASE /\ handler[n].phase = "waiting"
                 /\ handler' = [handler EXCEPT ![n] = NoHandler]
                 /\ rerun' = [rerun EXCEPT ![n] = @ \cup {handler[n].epoch}]
        <4>1. handler[n].epoch \in Epochs
          BY <3>1, <3>4
        <4> QED
          BY <1>1, <3>2, <3>4, <4>1 DEF TypeNode
      <3> QED
        BY <1>12, <3>3, <3>4 DEF ProcessSubmitMissingTxn
    <2>2. fetched' \in [Nodes -> BOOLEAN]
      BY <1>1, <1>12, Zenon DEF TypeNode, ProcessSubmitMissingTxn
    <2> QED
      BY <1>1, <1>12, <2>1, <2>2 DEF TypeNode, ProcessSubmitMissingTxn, fetching, selection
  <1>13. ASSUME NEW n \in Nodes, MissingTxnTimeout(n) PROVE TypeNode'
    <2>1. NoHandler \in [epoch : 0 .. MaxEpoch, phase : {"none", "missing", "waiting"}]
      BY LeaderFacts DEF NoHandler
    <2> QED
      BY <1>1, <1>13, <2>1 DEF TypeNode, MissingTxnTimeout, fetching, selection
  <1>14. ASSUME NEW n \in Nodes, MicroBlockDone(n) PROVE TypeNode'
    BY <1>1, <1>14 DEF TypeNode, MicroBlockDone, pools, selection
  <1>15. ASSUME NEW n \in Nodes, BackupDone(n) PROVE TypeNode'
    BY <1>1, <1>15 DEF TypeNode, BackupDone, pools, selection
  <1>16. ASSUME NEW n \in Nodes, ProcessFinalBlock(n) PROVE TypeNode'
    <2>1. epoch[n] + 1 \in Epochs
      BY <1>16, FinalBlockStep
    <2> QED
      BY <1>1, <1>16, <2>1 DEF TypeNode, ProcessFinalBlock, InitTemp
  <1>17. ASSUME MakeFinalBlock PROVE TypeNode'
    BY <1>1, <1>17 DEF TypeNode, MakeFinalBlock, nodeVars
  <1> QED
    BY <1>2, <1>3, <1>4, <1>5, <1>6, <1>7, <1>8, <1>9, <1>10, <1>11, <1>12, <1>13,
       <1>14, <1>15, <1>16, <1>17 DEF Next

\* The parts about what a selection writes
SelectedParts == TypeTxns /\ ShapeInv /\ PoolInv /\ GasOvershootBounded /\ NothingExecutableLeft

LEMMA SelectionKeeps ==
    ASSUME IInv, NEW n \in Nodes, NEW st, Selected(n, st),
           UNCHANGED <<created, buffer, arrived, known, lost>>
    PROVE  SelectedParts'
  <1>1. TypeTxns /\ ShapeInv /\ PoolInv /\ GasOvershootBounded /\ NothingExecutableLeft
    BY TypeParts DEF IInv
  <1>2. PICK q : q = ReinstateMemPool(st) /\ GoodPool(q) /\ q.hash \subseteq Txns
    BY DEF Selected, Outcome, GoodPool, Pool
  <1>3. /\ st.order \in Seq(Txns) /\ st.gas \in Nat /\ st.nonce \in [Senders -> Nat]
        /\ st.order # <<>> => st.gas - Used[Last(st.order)] < GasLimit
        /\ st.stop = "exhausted" => NothingLeft(q, st.nonce, st.gas)
    BY <1>2 DEF Selected, Outcome
  <1>4. /\ DOMAIN temp' = Nodes /\ DOMAIN order' = Nodes
        /\ \A m \in Nodes : temp'[m] = IF m = n THEN q ELSE temp[m]
        /\ \A m \in Nodes : order'[m] = IF m = n THEN st.order ELSE order[m]
    BY <1>1, <1>2 DEF Selected, ShapeInv
  <1>5. \A m \in Nodes : /\ gasUsed'[m] = IF m = n THEN st.gas ELSE gasUsed[m]
                         /\ nonceTemp'[m] = IF m = n THEN st.nonce ELSE nonceTemp[m]
    BY <1>1 DEF Selected, TypeTxns
  <1>6. \A m \in Nodes : stop'[m] = IF m = n THEN st.stop ELSE stop[m]
    BY DEF Selected, IInv, TypeOK
  <1>7. TypeTxns'
    <2>1. nonceTemp' \in [Nodes -> [Senders -> Nat]] /\ gasUsed' \in [Nodes -> Nat]
      BY <1>1, <1>3 DEF Selected, TypeTxns
    <2>2. copied' \in [Nodes -> SUBSET Txns] /\ timeouts' \in 0 .. MaxTimeouts
      BY <1>1 DEF Selected, TypeTxns
    <2>3. \A m \in Nodes : temp'[m].hash \subseteq Txns /\ order'[m] \in Seq(Txns)
      BY <1>1, <1>2, <1>3, <1>4 DEF TypeTxns
    <2> QED
      BY <1>1, <2>1, <2>2, <2>3 DEF TypeTxns
  <1>8. ShapeInv' /\ PoolInv'
    BY <1>1, <1>2, <1>4 DEF ShapeInv, PoolInv
  <1>9. GasOvershootBounded'
    BY <1>1, <1>3, <1>4, <1>5 DEF GasOvershootBounded
  <1>10. NothingExecutableLeft'
    <2> SUFFICES ASSUME NEW m \in Nodes, stop'[m] = "exhausted"
                 PROVE  NothingLeft(temp'[m], nonceTemp'[m], gasUsed'[m])
      BY DEF NothingExecutableLeft, NothingLeft
    <2>1. CASE m = n
      BY <1>3, <1>4, <1>5, <1>6, <2>1
    <2>2. CASE m # n
      <3>1. NothingLeft(temp[m], nonceTemp[m], gasUsed[m])
        BY <1>1, <1>6, <2>2 DEF NothingExecutableLeft, NothingLeft
      <3> QED
        BY <1>4, <1>5, <2>2, <3>1
    <2> QED
      BY <2>1, <2>2
  <1> QED
    BY <1>7, <1>8, <1>9, <1>10 DEF SelectedParts

\* The pools take in transactions; nothing else of the parts changes but known
LEMMA GrowKeeps ==
    ASSUME IInv, PoolsGrow, buffer' \in [Nodes -> Seq(Packets)],
           arrived' \in [Nodes -> SUBSET Packets], known' \in [Nodes -> SUBSET Txns],
           UNCHANGED <<temp, nonceTemp, order, gasUsed, stop, copied, timeouts, lost>>
    PROVE  SelectedParts'
  <1>1. TypeTxns /\ ShapeInv /\ PoolInv /\ GasOvershootBounded /\ NothingExecutableLeft
    BY TypeParts DEF IInv
  <1>2. TypeTxns'
    BY <1>1 DEF TypeTxns, PoolsGrow
  <1>3. ShapeInv' /\ PoolInv'
    BY <1>1 DEF ShapeInv, PoolInv, PoolsGrow
  <1>4. GasOvershootBounded' /\ NothingExecutableLeft'
    BY <1>1 DEF GasOvershootBounded, NothingExecutableLeft
  <1> QED
    BY <1>2, <1>3, <1>4 DEF SelectedParts

LEMMA SameParts ==
    ASSUME IInv, UNCHANGED <<created, temp, buffer, arrived, nonceTemp, order, gasUsed,
                             stop, copied, timeouts, known, lost>>
    PROVE  SelectedParts'
  <1>1. TypeTxns /\ ShapeInv /\ PoolInv /\ GasOvershootBounded /\ NothingExecutableLeft
    BY TypeParts DEF IInv
  <1> QED
    BY <1>1 DEF SelectedParts, TypeTxns, ShapeInv, PoolInv, GasOvershootBounded,
                NothingExecutableLeft

LEMMA SelectedPartsKept ==
    ASSUME IInv, [Next]_vars
    PROVE  SelectedParts'
  <1>1. TypeTxns /\ ShapeInv /\ PoolInv /\ GasOvershootBounded /\ NothingExecutableLeft
    BY TypeParts DEF IInv
  <1>2. buffer \in [Nodes -> Seq(Packets)]
    BY <1>1 DEF ShapeInv
  <1>2a. CASE UNCHANGED vars
    BY <1>2a, SameParts DEF vars, nodeVars
  <1>3. ASSUME NEW n \in Nodes, NEW p \in Packets, ProcessTxnPacketFromLookup(n, p)
        PROVE  SelectedParts'
    <2>1. PoolsGrow
      BY <1>3, PacketGrow
    <2>2. arrived' \in [Nodes -> SUBSET Packets]
      BY <1>1, <1>3 DEF TypeTxns, ProcessTxnPacketFromLookup
    <2>3. buffer' \in [Nodes -> Seq(Packets)]
      <3>1. Append(buffer[n], p) \in Seq(Packets)
        BY <1>2, AppendProperties
      <3>2. buffer' = buffer \/ buffer' = [buffer EXCEPT ![n] = Append(@, p)]
        BY <1>3 DEF ProcessTxnPacketFromLookup
      <3> QED
        BY <1>2, <3>1, <3>2
    <2>4. known' \in [Nodes -> SUBSET Txns]
      <3>1. known' = known \/ known' = [known EXCEPT ![n] = @ \cup created'[n].hash]
        BY <1>3 DEF ProcessTxnPacketFromLookup, InsertPackets
      <3> QED
        BY <1>1, <2>1, <3>1 DEF TypeTxns, PoolsGrow
    <2> QED
      BY <1>3, <2>1, <2>2, <2>3, <2>4, GrowKeeps DEF ProcessTxnPacketFromLookup, selection
  <1>4. ASSUME NEW n \in Nodes, CommitTxnPacketBuffer(n) PROVE SelectedParts'
    <2>1. PoolsGrow
      BY <1>4, CommitGrow
    <2>2. arrived' \in [Nodes -> SUBSET Packets]
      BY <1>1, <1>4 DEF TypeTxns, CommitTxnPacketBuffer
    <2>3. buffer' \in [Nodes -> Seq(Packets)]
      BY <1>2, <1>4, EmptySeq DEF CommitTxnPacketBuffer
    <2>4. known' \in [Nodes -> SUBSET Txns]
      <3>1. known' = [known EXCEPT ![n] = @ \cup created'[n].hash]
        BY <1>4 DEF CommitTxnPacketBuffer, InsertPackets
      <3> QED
        BY <1>1, <2>1, <3>1 DEF TypeTxns, PoolsGrow
    <2> QED
      BY <1>4, <2>1, <2>2, <2>3, <2>4, GrowKeeps DEF CommitTxnPacketBuffer, selection
  <1>5. ASSUME NEW n \in Nodes, RunConsensusOnMicroBlock(n) PROVE SelectedParts'
    <2>1. CASE UNCHANGED <<created, temp, buffer, order, gasUsed, known>>
      BY <1>5, <2>1, SameParts DEF RunConsensusOnMicroBlock
    <2>2. CASE CleanCreatedTransaction(n)
      <3>1. UNCHANGED <<arrived, nonceTemp, stop, copied, timeouts, lost>>
        BY <1>5 DEF RunConsensusOnMicroBlock
      <3>2. /\ DOMAIN created' = Nodes /\ DOMAIN temp' = Nodes /\ DOMAIN order' = Nodes
            /\ \A m \in Nodes : /\ created'[m] = IF m = n THEN EmptyPool ELSE created[m]
                                /\ temp'[m] = IF m = n THEN EmptyPool ELSE temp[m]
                                /\ order'[m] = IF m = n THEN <<>> ELSE order[m]
        BY <1>1, <2>2 DEF ShapeInv, CleanCreatedTransaction
      <3>3. gasUsed' \in [Nodes -> Nat] /\ \A m \in Nodes : m # n => gasUsed'[m] = gasUsed[m]
        BY <1>1, <2>2 DEF TypeTxns, CleanCreatedTransaction
      <3>4. buffer' \in [Nodes -> Seq(Packets)] /\ <<>> \in Seq(Txns)
        BY <1>2, <2>2, EmptySeq DEF CleanCreatedTransaction
      <3>5. known' \in [Nodes -> SUBSET Txns] /\ EmptyPool.hash = {}
        BY <1>1, <2>2 DEF TypeTxns, CleanCreatedTransaction, EmptyPool
      <3>6. TypeTxns'
        <4>1. \A m \in Nodes : /\ created'[m].hash \subseteq Txns
                               /\ temp'[m].hash \subseteq Txns
                               /\ order'[m] \in Seq(Txns)
          BY <1>1, <3>2, <3>4, <3>5 DEF TypeTxns
        <4> QED
          BY <1>1, <3>1, <3>3, <3>4, <3>5, <4>1 DEF TypeTxns
      <3>7. ShapeInv' /\ PoolInv'
        BY <1>1, <3>2, <3>4, EmptyPoolGood DEF ShapeInv, PoolInv
      <3>8. GasOvershootBounded'
        BY <1>1, <3>2, <3>3 DEF GasOvershootBounded
      <3>9. NothingExecutableLeft'
        BY <1>1, <3>1, <3>2, <3>3, <3>5 DEF NothingExecutableLeft
      <3> QED
        BY <3>6, <3>7, <3>8, <3>9 DEF SelectedParts
    <2> QED
      BY <1>5, <2>1, <2>2 DEF RunConsensusOnMicroBlock
  <1>6. ASSUME NEW n \in Nodes, NEW k \in TimerStops(n), FinishPrep(n, k)
        PROVE  SelectedParts'
    <2>1. PICK st : Selected(n, st)
      BY <1>6, SelectedStep DEF FinishPrep
    <2> QED
      BY <1>6, <2>1, SelectionKeeps DEF FinishPrep
  <1>7. ASSUME NEW n \in Nodes, NEW k \in TimerStops(n), NEW e, ReprocessConsensus(n, e, k)
        PROVE  SelectedParts'
    <2>1. PICK st : Selected(n, st)
      BY <1>7, SelectedStep DEF ReprocessConsensus
    <2> QED
      BY <1>7, <2>1, SelectionKeeps DEF ReprocessConsensus, fetching
  <1>8. ASSUME NEW n \in Nodes, MicroBlockValidator(n) PROVE SelectedParts'
    <2>1. UNCHANGED <<created, temp, buffer, arrived, order, gasUsed, copied, timeouts,
                      known, lost>>
      BY <1>8 DEF MicroBlockValidator
    <2>2. CASE UNCHANGED <<nonceTemp, stop>>
      BY <2>1, <2>2, SameParts
    <2>3. CASE RevertTemp(n)
      <3>1. epoch[n] \in Nat \ {0} /\ epoch[n] <= Len(chain) + 1
        <4>1. epoch[n] \in 1 .. MaxEpoch /\ MaxEpoch \in Nat
          BY LeaderFacts DEF IInv, TypeOK
        <4> QED
          BY <4>1 DEF IInv, EpochInv
      <3>2. NonceAfter(epoch[n]) \in [Senders -> Nat]
        <4>1. chain \in Seq([included : BOOLEAN, txns : Seq(Txns)])
          BY DEF IInv, TypeOK
        <4> QED
          BY <3>1, <4>1, NonceOfFacts, NonceAfterIs
      <3>3. nonceTemp' = [nonceTemp EXCEPT ![n] = NonceAfter(epoch[n])]
               /\ stop' = [stop EXCEPT ![n] = "none"]
        BY <2>3 DEF RevertTemp, InitTemp
      <3>4. nonceTemp' \in [Nodes -> [Senders -> Nat]]
               /\ \A m \in Nodes : m # n => nonceTemp'[m] = nonceTemp[m]
        BY <1>1, <3>2, <3>3 DEF TypeTxns
      <3>5. \A m \in Nodes : stop'[m] = IF m = n THEN "none" ELSE stop[m]
        BY <3>3 DEF IInv, TypeOK
      <3>6. TypeTxns' /\ ShapeInv' /\ PoolInv' /\ GasOvershootBounded'
        BY <1>1, <2>1, <3>4 DEF TypeTxns, ShapeInv, PoolInv, GasOvershootBounded
      <3>7. NothingExecutableLeft'
        <4> SUFFICES ASSUME NEW m \in Nodes, stop'[m] = "exhausted"
                     PROVE  NothingLeft(temp'[m], nonceTemp'[m], gasUsed'[m])
          BY DEF NothingExecutableLeft, NothingLeft
        <4>1. m # n /\ stop[m] = "exhausted"
          BY <3>5
        <4>2. NothingLeft(temp[m], nonceTemp[m], gasUsed[m])
          BY <1>1, <4>1 DEF NothingExecutableLeft, NothingLeft
        <4> QED
          BY <2>1, <3>4, <4>1, <4>2
      <3> QED
        BY <3>6, <3>7 DEF SelectedParts
    <2> QED
      BY <1>8, <2>2, <2>3 DEF MicroBlockValidator
  <1>9. ASSUME NEW n \in Nodes,
               \/ \E r \in request : OnNodeMissingTxns(n, r)
               \/ WaitMissingTxn(n) \/ MissingTxnTimeout(n)
        PROVE  SelectedParts'
    BY <1>9, SameParts
       DEF OnNodeMissingTxns, WaitMissingTxn, MissingTxnTimeout, fetching, selection
  <1>10. ASSUME NEW n \in Nodes, NEW r \in reply, ProcessSubmitMissingTxn(n, r)
         PROVE  SelectedParts'
    <2>1. PoolsGrow
      BY <1>10, SubmitGrow
    <2>2. known' \in [Nodes -> SUBSET Txns]
      <3>1. known' = known \/ known' = [known EXCEPT ![n] = @ \cup created'[n].hash]
        BY <1>10 DEF ProcessSubmitMissingTxn
      <3> QED
        BY <1>1, <2>1, <3>1 DEF TypeTxns, PoolsGrow
    <2>3. UNCHANGED <<buffer, arrived, temp, nonceTemp, order, gasUsed, stop, copied,
                      timeouts, lost>>
      BY <1>10 DEF ProcessSubmitMissingTxn, fetching, selection
    <2>4. buffer' \in [Nodes -> Seq(Packets)] /\ arrived' \in [Nodes -> SUBSET Packets]
      BY <1>1, <1>2, <2>3 DEF TypeTxns
    <2> QED
      BY <2>1, <2>2, <2>3, <2>4, GrowKeeps
  <1>11. ASSUME NEW n \in Nodes, MicroBlockDone(n) \/ BackupDone(n) PROVE SelectedParts'
    BY <1>11, SameParts DEF MicroBlockDone, BackupDone, pools, selection
  <1>12. ASSUME NEW n \in Nodes, ProcessFinalBlock(n) PROVE SelectedParts'
    <2>1. /\ UNCHANGED <<buffer, arrived, timeouts, known>>
          /\ temp' = [temp EXCEPT ![n] = EmptyPool]
          /\ order' = [order EXCEPT ![n] = <<>>]
          /\ gasUsed' = [gasUsed EXCEPT ![n] = 0]
          /\ copied' = [copied EXCEPT ![n] = {}]
          /\ nonceTemp' = [nonceTemp EXCEPT ![n] = NonceAfter(epoch[n] + 1)]
          /\ stop' = [stop EXCEPT ![n] = "none"]
      BY <1>12 DEF ProcessFinalBlock, InitTemp
    <2>2. \/ UNCHANGED <<created, lost>>
          \/ /\ created' = [created EXCEPT ![n] = temp[n]]
             /\ lost' = [lost EXCEPT ![n] = @ \cup {t \in created[n].hash \ temp[n].hash :
                                                t \notin copied[n] \/ stale[n]}]
      BY <1>12 DEF ProcessFinalBlock, UpdateProcessedTransactions
    <2>3. NonceAfter(epoch[n] + 1) \in [Senders -> Nat]
      <3>1. chain \in Seq([included : BOOLEAN, txns : Seq(Txns)])
        BY DEF IInv, TypeOK
      <3>2. epoch[n] + 1 \in Nat \ {0} /\ epoch[n] + 1 <= Len(chain) + 1
        <4>1. epoch[n] \in Nat /\ epoch[n] <= Len(chain) /\ Len(chain) \in Nat
          BY <1>12, <3>1, FinalBlockStep, LenProperties
        <4> QED
          BY <4>1
      <3> QED
        BY <3>1, <3>2, NonceOfFacts, NonceAfterIs
    <2>4. /\ DOMAIN created' = Nodes /\ DOMAIN temp' = Nodes /\ DOMAIN order' = Nodes
          /\ \A m \in Nodes : /\ created'[m] \in {created[m], temp[m]}
                              /\ temp'[m] = IF m = n THEN EmptyPool ELSE temp[m]
                              /\ order'[m] = IF m = n THEN <<>> ELSE order[m]
      BY <1>1, <2>1, <2>2 DEF ShapeInv
    <2>5. /\ gasUsed' \in [Nodes -> Nat] /\ \A m \in Nodes : m # n => gasUsed'[m] = gasUsed[m]
          /\ nonceTemp' \in [Nodes -> [Senders -> Nat]]
          /\ \A m \in Nodes : m # n => nonceTemp'[m] = nonceTemp[m]
          /\ copied' \in [Nodes -> SUBSET Txns]
      BY <1>1, <2>1, <2>3 DEF TypeTxns
    <2>6. lost' \in [Nodes -> SUBSET Txns]
      BY <1>1, <2>2 DEF TypeTxns
    <2>7. \A m \in Nodes : stop'[m] = IF m = n THEN "none" ELSE stop[m]
      BY <2>1 DEF IInv, TypeOK
    <2>8. <<>> \in Seq(Txns) /\ EmptyPool.hash = {}
      BY EmptySeq DEF EmptyPool
    <2>9. TypeTxns'
      <3>1. \A m \in Nodes : /\ created'[m].hash \subseteq Txns
                             /\ temp'[m].hash \subseteq Txns
                             /\ order'[m] \in Seq(Txns)
        BY <1>1, <2>4, <2>8 DEF TypeTxns
      <3> QED
        BY <1>1, <2>1, <2>5, <2>6, <3>1 DEF TypeTxns
    <2>10. ShapeInv' /\ PoolInv'
      BY <1>1, <2>1, <2>4, EmptyPoolGood DEF ShapeInv, PoolInv
    <2>11. GasOvershootBounded'
      BY <1>1, <2>4, <2>5 DEF GasOvershootBounded
    <2>12. NothingExecutableLeft'
      <3> SUFFICES ASSUME NEW m \in Nodes, stop'[m] = "exhausted"
                   PROVE  NothingLeft(temp'[m], nonceTemp'[m], gasUsed'[m])
        BY DEF NothingExecutableLeft, NothingLeft
      <3>1. m # n /\ stop[m] = "exhausted"
        BY <2>7
      <3>2. NothingLeft(temp[m], nonceTemp[m], gasUsed[m])
        BY <1>1, <3>1 DEF NothingExecutableLeft, NothingLeft
      <3> QED
        BY <2>4, <2>5, <3>1, <3>2
    <2> QED
      BY <2>9, <2>10, <2>11, <2>12 DEF SelectedParts
  <1>13. ASSUME MakeFinalBlock PROVE SelectedParts'
    BY <1>13, SameParts DEF MakeFinalBlock, nodeVars
  <1> QED
    BY <1>2a, <1>3, <1>4, <1>5, <1>6, <1>7, <1>8, <1>9, <1>10, <1>11, <1>12, <1>13
       DEF Next, RunConsensusOnMicroBlockWhenShardLeader, RunConsensusOnMicroBlockWhenShardBackup

LEMMA TypeSharedKept ==
    ASSUME IInv, [Next]_vars
    PROVE  TypeShared'
  <1>1. TypeShared /\ TypeNode
    BY TypeParts DEF IInv
  <1>2. CASE UNCHANGED <<micro, request, answered, reply, signed, chain, replies>>
    BY <1>1, <1>2 DEF TypeShared
  <1>3. ASSUME NEW n \in Nodes, NEW k \in TimerStops(n),
               RunConsensusOnMicroBlockWhenShardLeader(n, k)
        PROVE  TypeShared'
    <2>1. DOMAIN micro' = DOMAIN micro \cup {epoch[n]}
      BY <1>3, LeaderPuts
    <2>2. UNCHANGED <<request, answered, reply, signed, chain, replies>>
      BY <1>3 DEF RunConsensusOnMicroBlockWhenShardLeader, FinishPrep
    <2> QED
      BY <1>1, <2>1, <2>2 DEF TypeShared, TypeNode
  <1>4. ASSUME NEW n \in Nodes, MicroBlockValidator(n) PROVE TypeShared'
    <2>1. \/ request' = request
          \/ request' = request \cup {[from |-> n, epoch |-> epoch[n],
                                       txns |-> Missing(n, micro[epoch[n]])]}
      BY <1>4 DEF MicroBlockValidator
    <2>2. epoch[n] \in DOMAIN micro
      BY <1>4 DEF MicroBlockValidator
    <2>3. Missing(n, micro[epoch[n]]) \in SUBSET Txns
      <3>1. PICK x \in Seq(Txns) : x = micro[epoch[n]].order
        BY <2>2 DEF IInv, MicroInv
      <3>2. \A i \in DOMAIN x : x[i] \in Txns
        BY ElementOfSeq, LenProperties
      <3> QED
        BY <3>1, <3>2 DEF Missing, ToSet
    <2>4. [from |-> n, epoch |-> epoch[n], txns |-> Missing(n, micro[epoch[n]])]
             \in [from : Nodes, epoch : Epochs, txns : SUBSET Txns]
      BY <1>1, <2>3 DEF TypeNode
    <2>5. UNCHANGED <<micro, answered, reply, signed, chain, replies>>
      BY <1>4 DEF MicroBlockValidator
    <2> QED
      BY <1>1, <2>1, <2>4, <2>5 DEF TypeShared
  <1>5. ASSUME NEW n \in Nodes, NEW r \in request, OnNodeMissingTxns(n, r) PROVE TypeShared'
    <2>1. r \in [from : Nodes, epoch : Epochs, txns : SUBSET Txns]
      BY <1>1 DEF TypeShared
    <2>2. r.from \in Nodes /\ r.epoch \in Epochs /\ r.txns \in SUBSET Txns
      BY <2>1
    <2>3. PICK T : T = r.txns \cap ToSet(order[n]) /\ T \in SUBSET Txns
      BY <2>2
    <2>4. /\ answered' = answered \cup {<<r.from, r.epoch>>}
          /\ replies < MaxReplies /\ replies' = replies + 1
          /\ reply' = reply \cup {[to |-> r.from, epoch |-> r.epoch, txns |-> T]}
          /\ UNCHANGED <<micro, request, signed, chain>>
      BY <1>5, <2>3 DEF OnNodeMissingTxns, fetching
    <2>5. [to |-> r.from, epoch |-> r.epoch, txns |-> T]
             \in [to : Nodes, epoch : Epochs, txns : SUBSET Txns]
      BY <2>2, <2>3
    <2>6. reply' \subseteq [to : Nodes, epoch : Epochs, txns : SUBSET Txns]
      BY <1>1, <2>4, <2>5 DEF TypeShared
    <2>7. answered' \subseteq Nodes \X Epochs
      BY <1>1, <2>2, <2>4 DEF TypeShared
    <2>8. replies' \in 0 .. MaxReplies
      <3>1. MaxReplies \in Nat /\ replies \in 0 .. MaxReplies
        BY <1>1, ConstantsAssumption DEF TypeShared
      <3> QED
        BY <2>4, <3>1
    <2> QED
      BY <1>1, <2>4, <2>6, <2>7, <2>8 DEF TypeShared
  <1>6. ASSUME NEW n \in Nodes, NEW r \in reply, ProcessSubmitMissingTxn(n, r)
        PROVE  TypeShared'
    <2>1. /\ reply' = reply \ {r}
          /\ UNCHANGED <<micro, request, answered, signed, chain, replies>>
      BY <1>6 DEF ProcessSubmitMissingTxn, fetching
    <2> QED
      BY <1>1, <2>1 DEF TypeShared
  <1>7. ASSUME NEW n \in Nodes, MicroBlockDone(n) PROVE TypeShared'
    <2>1. /\ signed' = signed \cup {epoch[n]}
          /\ UNCHANGED <<micro, request, answered, reply, chain, replies>>
      BY <1>7 DEF MicroBlockDone
    <2> QED
      BY <1>1, <2>1 DEF TypeShared, TypeNode
  <1>8. ASSUME NEW n \in Nodes, ProcessFinalBlock(n) PROVE TypeShared'
    <2>1. /\ DOMAIN micro' \subseteq DOMAIN micro /\ request' \subseteq request
          /\ signed' \subseteq signed /\ answered' \subseteq answered
      BY <1>8, FinalBlockStep
    <2>2. UNCHANGED <<reply, replies, chain>>
      BY <1>8 DEF ProcessFinalBlock
    <2> QED
      BY <1>1, <2>1, <2>2 DEF TypeShared
  <1>9. ASSUME MakeFinalBlock PROVE TypeShared'
    <2>1. PICK e : e = Len(chain) + 1
      OBVIOUS
    <2>2. ~ Vacuous(e) /\ UNCHANGED <<micro, request, answered, reply, signed, replies>>
      BY <1>9, <2>1 DEF MakeFinalBlock
    <2>3. PICK b \in [included : BOOLEAN, txns : Seq(Txns)] : chain' = Append(chain, b)
      <3>1. CASE e \in signed /\ chain' = Append(chain, [included |-> TRUE,
                                                         txns |-> micro[e].order])
        <4>1. micro[e].order \in Seq(Txns)
          BY <3>1 DEF IInv, MicroKnown, MicroInv
        <4> QED
          BY <3>1, <4>1
      <3>2. CASE chain' = Append(chain, [included |-> FALSE, txns |-> <<>>])
        BY <3>2, EmptySeq
      <3> QED
        BY <1>9, <2>1, <3>1, <3>2 DEF MakeFinalBlock
    <2>4. chain' \in Seq([included : BOOLEAN, txns : Seq(Txns)]) /\ Len(chain') = e
      BY <1>1, <2>1, <2>3, AppendProperties DEF TypeShared
    <2>5. e < MaxEpoch
      <3>1. Len(chain) \in Nat /\ MaxEpoch \in Nat
        BY <1>1, LenProperties, LeaderFacts DEF TypeShared
      <3> QED
        BY <2>1, <2>2, <3>1 DEF Vacuous
    <2> QED
      BY <1>1, <2>2, <2>4, <2>5 DEF TypeShared
  <1>10. ASSUME NEW n \in Nodes,
                \/ \E p \in Packets : ProcessTxnPacketFromLookup(n, p)
                \/ CommitTxnPacketBuffer(n) \/ RunConsensusOnMicroBlock(n)
                \/ \E k \in TimerStops(n) : RunConsensusOnMicroBlockWhenShardBackup(n, k)
                \/ \E k \in TimerStops(n) : \E e \in rerun[n] : ReprocessConsensus(n, e, k)
                \/ WaitMissingTxn(n) \/ MissingTxnTimeout(n) \/ BackupDone(n)
         PROVE  TypeShared'
    <2>1. UNCHANGED <<micro, request, answered, reply, signed, chain, replies>>
      BY <1>10 DEF ProcessTxnPacketFromLookup, CommitTxnPacketBuffer,
                   RunConsensusOnMicroBlock, RunConsensusOnMicroBlockWhenShardBackup,
                   FinishPrep, ReprocessConsensus, WaitMissingTxn, MissingTxnTimeout,
                   BackupDone, consensus, fetching
    <2> QED
      BY <1>2, <2>1
  <1>11. CASE UNCHANGED vars
    BY <1>2, <1>11 DEF vars
  <1> QED
    BY <1>3, <1>4, <1>5, <1>6, <1>7, <1>8, <1>9, <1>10, <1>11 DEF Next

LEMMA TypeKept ==
    ASSUME IInv, [Next]_vars
    PROVE  TypeOK'
  <1>1. TypeTxns'
    BY SelectedPartsKept DEF SelectedParts
  <1> QED
    BY <1>1, TypeNodeKept, TypeSharedKept, TypeParts

(* Every step keeps the order of the epochs *)

LEMMA EpochKept ==
    ASSUME IInv, [Next]_vars
    PROVE  EpochInv'
  <1>1. EpochInv /\ TypeNode /\ TypeShared /\ BeginInv
    BY TypeParts DEF IInv
  <1>2. /\ \A n \in Nodes : epoch[n] \in Nat \ {0}
        /\ \A e \in DOMAIN micro : e \in Nat /\ Leader[e] \in Nodes
    BY <1>1, LeaderFacts DEF TypeNode, TypeShared
  <1>3. CASE /\ UNCHANGED <<epoch, chain, rerun, handler, request, micro>>
             /\ reply' \subseteq reply
             /\ \A n \in Nodes : Started(n) => Started(n)'
    BY <1>1, <1>2, <1>3 DEF EpochInv
  <1>4. ASSUME NEW n \in Nodes,
                \/ \E p \in Packets : ProcessTxnPacketFromLookup(n, p)
                \/ MicroBlockDone(n) \/ BackupDone(n)
        PROVE  EpochInv'
    <2>1. UNCHANGED <<epoch, chain, rerun, handler, request, micro, reply, begin>>
      BY <1>4 DEF ProcessTxnPacketFromLookup, MicroBlockDone, BackupDone, consensus
    <2> QED
      BY <1>3, <2>1 DEF Started
  <1>5. ASSUME NEW n \in Nodes, CommitTxnPacketBuffer(n) PROVE EpochInv'
    <2>1. /\ UNCHANGED <<epoch, chain, rerun, handler, request, micro, reply>>
          /\ begin' = [begin EXCEPT ![n] = @ \ {"commit"}]
      BY <1>5 DEF CommitTxnPacketBuffer, consensus
    <2>2. \A m \in Nodes : Started(m) => Started(m)'
      BY <1>1, <2>1 DEF Started, TypeNode
    <2> QED
      BY <1>3, <2>1, <2>2
  <1>6. ASSUME NEW n \in Nodes, RunConsensusOnMicroBlock(n) PROVE EpochInv'
    <2>1. /\ UNCHANGED <<epoch, chain, rerun, handler, request, micro, reply>>
          /\ "run" \in begin[n] /\ \A m \in Nodes : m # n => begin'[m] = begin[m]
      BY <1>1, <1>6 DEF RunConsensusOnMicroBlock, consensus, TypeNode
    <2>2. \A m \in Nodes : Started(m) => Started(m)'
      BY <2>1 DEF Started
    <2> QED
      BY <1>3, <2>1, <2>2
  <1>7. ASSUME NEW n \in Nodes, NEW k, RunConsensusOnMicroBlockWhenShardLeader(n, k)
        PROVE  EpochInv'
    <2>1. /\ UNCHANGED <<epoch, chain, rerun, handler, request, reply>>
          /\ "prep" \in begin[n] /\ begin' = [begin EXCEPT ![n] = @ \ {"prep"}]
          /\ n = Leader[epoch[n]]
      BY <1>7 DEF RunConsensusOnMicroBlockWhenShardLeader, FinishPrep
    <2>2. DOMAIN micro' = DOMAIN micro \cup {epoch[n]}
      BY <1>7, LeaderPuts
    <2>3. Started(n)' /\ \A m \in Nodes : Started(m) => Started(m)'
      BY <1>1, <2>1 DEF Started, TypeNode, BeginInv
    <2> QED
      BY <1>1, <1>2, <2>1, <2>2, <2>3 DEF EpochInv
  <1>8. ASSUME NEW n \in Nodes, NEW k, RunConsensusOnMicroBlockWhenShardBackup(n, k)
        PROVE  EpochInv'
    <2>1. /\ UNCHANGED <<epoch, chain, rerun, handler, request, reply, micro>>
          /\ begin' = [begin EXCEPT ![n] = @ \ {"prep"}]
      BY <1>8 DEF RunConsensusOnMicroBlockWhenShardBackup, FinishPrep
    <2>2. \A m \in Nodes : Started(m) => Started(m)'
      BY <1>1, <2>1 DEF Started, TypeNode
    <2> QED
      BY <1>3, <2>1, <2>2
  <1>9. ASSUME NEW n \in Nodes, NEW k, NEW e, ReprocessConsensus(n, e, k) PROVE EpochInv'
    <2>1. /\ UNCHANGED <<epoch, chain, handler, request, reply, micro, begin>>
          /\ rerun' = [rerun EXCEPT ![n] = @ \ {e}]
      BY <1>9 DEF ReprocessConsensus, fetching
    <2>2. \A m \in Nodes : rerun'[m] \subseteq rerun[m]
      BY <1>1, <2>1 DEF TypeNode
    <2> QED
      BY <1>1, <2>1, <2>2 DEF EpochInv, Started
  <1>10. ASSUME NEW n \in Nodes, MicroBlockValidator(n) PROVE EpochInv'
    <2>1. /\ UNCHANGED <<epoch, chain, rerun, reply, micro, begin>>
          /\ \/ UNCHANGED <<handler, request>>
             \/ /\ handler' = [handler EXCEPT ![n] = [epoch |-> epoch[n], phase |-> "missing"]]
                /\ request' = request \cup {[from |-> n, epoch |-> epoch[n],
                                             txns |-> Missing(n, micro[epoch[n]])]}
      BY <1>10 DEF MicroBlockValidator
    <2>2. \A q \in request' : q.epoch <= epoch[q.from]
      BY <1>1, <1>2, <2>1 DEF EpochInv
    <2>3. \A m \in Nodes : handler'[m].phase # "none" => handler'[m].epoch \in 1 .. epoch[m]
      <3> TAKE m \in Nodes
      <3>1. CASE handler'[m] = handler[m]
        BY <1>1, <3>1 DEF EpochInv
      <3>2. CASE m = n /\ handler'[m] = [epoch |-> epoch[n], phase |-> "missing"]
        BY <1>2, <3>2
      <3> QED
        BY <1>1, <2>1, <3>1, <3>2 DEF TypeNode
    <2> QED
      BY <1>1, <2>1, <2>2, <2>3 DEF EpochInv, Started
  <1>11. ASSUME NEW n \in Nodes, NEW r \in request, OnNodeMissingTxns(n, r) PROVE EpochInv'
    <2>1. PICK x : x = [to |-> r.from, epoch |-> r.epoch, txns |-> r.txns \cap ToSet(order[n])]
      OBVIOUS
    <2>2. /\ UNCHANGED <<epoch, chain, rerun, handler, request, micro, begin>>
          /\ reply' = reply \cup {x} /\ x.to = r.from /\ x.epoch = r.epoch
      BY <1>11, <2>1 DEF OnNodeMissingTxns, fetching
    <2> QED
      BY <1>1, <2>2 DEF EpochInv, Started
  <1>12. ASSUME NEW n \in Nodes, WaitMissingTxn(n) \/ MissingTxnTimeout(n) PROVE EpochInv'
    <2>1. /\ UNCHANGED <<epoch, chain, rerun, request, reply, micro, begin>>
          /\ handler[n].phase # "none"
          /\ \/ handler' = [handler EXCEPT ![n].phase = "waiting"]
             \/ handler' = [handler EXCEPT ![n] = NoHandler]
      BY <1>12 DEF WaitMissingTxn, MissingTxnTimeout, fetching
    <2>2. \A m \in Nodes : handler'[m].phase # "none" =>
             handler[m].phase # "none" /\ handler'[m].epoch = handler[m].epoch
      BY <1>1, <2>1 DEF TypeNode, NoHandler
    <2> QED
      BY <1>1, <2>1, <2>2 DEF EpochInv, Started
  <1>13. ASSUME NEW n \in Nodes, NEW r \in reply, ProcessSubmitMissingTxn(n, r)
         PROVE  EpochInv'
    <2>1. /\ UNCHANGED <<epoch, chain, request, micro, begin>> /\ reply' \subseteq reply
          /\ \/ UNCHANGED <<handler, rerun>>
             \/ /\ handler[n].phase = "waiting"
                /\ handler' = [handler EXCEPT ![n] = NoHandler]
                /\ rerun' = [rerun EXCEPT ![n] = @ \cup {handler[n].epoch}]
      BY <1>13 DEF ProcessSubmitMissingTxn, fetching
    <2>2. \A m \in Nodes : handler'[m].phase # "none" => handler'[m] = handler[m]
      BY <1>1, <2>1 DEF TypeNode, NoHandler
    <2>3. \A m \in Nodes : \A e \in rerun'[m] : e <= epoch[m]
      <3>1. CASE rerun' = rerun
        BY <1>1, <3>1 DEF EpochInv
      <3>2. CASE /\ handler[n].phase = "waiting"
                 /\ rerun' = [rerun EXCEPT ![n] = @ \cup {handler[n].epoch}]
        <4>1. handler[n].epoch \in 1 .. epoch[n] /\ epoch[n] \in Nat
          BY <1>1, <1>2, <3>2 DEF EpochInv
        <4>2. handler[n].epoch <= epoch[n]
          BY <4>1
        <4> QED
          BY <1>1, <3>2, <4>2 DEF EpochInv, TypeNode
      <3> QED
        BY <2>1, <3>1, <3>2
    <2> QED
      BY <1>1, <2>1, <2>2, <2>3 DEF EpochInv, Started
  <1>14. ASSUME NEW n \in Nodes, ProcessFinalBlock(n) PROVE EpochInv'
    <2>1. /\ epoch[n] \in Nat /\ epoch[n] <= Len(chain)
          /\ \A m \in Nodes : epoch'[m] = IF m = n THEN epoch[n] + 1 ELSE epoch[m]
          /\ DOMAIN micro' \subseteq DOMAIN micro /\ request' \subseteq request
      BY <1>14, FinalBlockStep
    <2>2. /\ UNCHANGED <<chain, rerun, handler, reply>>
          /\ \A m \in Nodes : m # n => begin'[m] = begin[m]
      BY <1>1, <1>14 DEF ProcessFinalBlock, TypeNode
    <2>3. Len(chain) \in Nat
      BY <1>1, LenProperties DEF TypeShared
    <2>4. \A m \in Nodes : epoch'[m] <= Len(chain) + 1 /\ epoch'[m] >= epoch[m] /\ epoch'[m] \in Nat
      BY <1>1, <1>2, <2>1, <2>3 DEF EpochInv
    <2>5. \A m \in Nodes : \A e \in rerun[m] : e \in Nat /\ e <= epoch'[m]
      <3>1. \A m \in Nodes : \A e \in rerun[m] : e \in Nat /\ e <= epoch[m]
        BY <1>1, LeaderFacts DEF TypeNode, EpochInv
      <3> QED
        BY <1>2, <2>4, <3>1
    <2>6. \A m \in Nodes : handler[m].phase # "none" => handler[m].epoch \in 1 .. epoch'[m]
      BY <1>1, <1>2, <2>4 DEF EpochInv
    <2>7. \A q \in request : q.epoch <= epoch'[q.from]
      <3> TAKE q \in request
      <3>1. q \in [from : Nodes, epoch : Epochs, txns : SUBSET Txns]
        BY <1>1 DEF TypeShared
      <3>2. q.from \in Nodes /\ q.epoch \in Nat /\ q.epoch <= epoch[q.from]
        BY <1>1, <3>1, LeaderFacts DEF EpochInv
      <3> QED
        BY <1>2, <2>4, <3>2
    <2>8. \A r \in reply : r.epoch <= epoch'[r.to]
      <3> TAKE r \in reply
      <3>1. r \in [to : Nodes, epoch : Epochs, txns : SUBSET Txns]
        BY <1>1 DEF TypeShared
      <3>2. r.to \in Nodes /\ r.epoch \in Nat /\ r.epoch <= epoch[r.to]
        BY <1>1, <3>1, LeaderFacts DEF EpochInv
      <3> QED
        BY <1>2, <2>4, <3>2
    <2>9. ASSUME NEW e \in DOMAIN micro
          PROVE  \/ epoch'[Leader[e]] > e
                 \/ epoch'[Leader[e]] = e /\ Started(Leader[e])'
      <3>1. PICK m \in Nodes : m = Leader[e] /\ e \in Nat
        BY <1>2
      <3>2. epoch[m] > e \/ (epoch[m] = e /\ Started(m))
        BY <1>1, <3>1 DEF EpochInv
      <3>3. CASE m = n
        <4>1. epoch'[m] = epoch[n] + 1 /\ (epoch[n] > e \/ epoch[n] = e)
          BY <2>1, <3>2, <3>3
        <4> QED
          BY <2>1, <3>1, <4>1
      <3>4. CASE m # n
        <4>1. epoch'[m] = epoch[m] /\ (Started(m) => Started(m)')
          BY <2>1, <2>2, <3>4 DEF Started
        <4> QED
          BY <3>1, <3>2, <4>1
      <3> QED
        BY <3>3, <3>4
    <2> QED
      BY <2>1, <2>2, <2>4, <2>5, <2>6, <2>7, <2>8, <2>9 DEF EpochInv
  <1>15. ASSUME MakeFinalBlock PROVE EpochInv'
    <2>1. /\ UNCHANGED <<epoch, rerun, handler, request, reply, micro, begin>>
          /\ Len(chain') = Len(chain) + 1 /\ Len(chain) \in Nat
      <3>1. Len(chain) \in Nat
        BY <1>1, LenProperties DEF TypeShared
      <3>2. Len(chain') = Len(chain) + 1
        BY <1>1, <1>15, AppendProperties DEF MakeFinalBlock, TypeShared
      <3> QED
        BY <1>15, <3>1, <3>2 DEF MakeFinalBlock, nodeVars
    <2>2. \A m \in Nodes : epoch[m] <= Len(chain') + 1
      BY <1>1, <1>2, <2>1 DEF EpochInv
    <2> QED
      BY <1>1, <2>1, <2>2 DEF EpochInv, Started
  <1>16. CASE UNCHANGED vars
    BY <1>3, <1>16 DEF vars, nodeVars, Started
  <1> QED
    BY <1>4, <1>5, <1>6, <1>7, <1>8, <1>9, <1>10, <1>11, <1>12, <1>13, <1>14, <1>15,
       <1>16 DEF Next

(* Every step keeps how far the nodes have come *)

LEMMA BeginKept ==
    ASSUME IInv, [Next]_vars
    PROVE  BeginInv'
  <1>1. BeginInv /\ TypeNode
    BY TypeParts DEF IInv
  <1>2. CASE /\ UNCHANGED begin
             /\ \A n \in Nodes : state'[n] = "MICROBLOCK_CONSENSUS" => state[n] = "MICROBLOCK_CONSENSUS"
             /\ \A n \in Nodes : fetched'[n] => fetched[n]
    BY <1>1, <1>2 DEF BeginInv, Started
  <1>3. ASSUME NEW n \in Nodes,
               \/ \E p \in Packets : ProcessTxnPacketFromLookup(n, p)
               \/ \E k \in TimerStops(n) : \E e \in rerun[n] : ReprocessConsensus(n, e, k)
               \/ \E r \in request : OnNodeMissingTxns(n, r)
               \/ WaitMissingTxn(n)
        PROVE  BeginInv'
    <2>1. UNCHANGED <<begin, state, fetched>>
      BY <1>3 DEF ProcessTxnPacketFromLookup, ReprocessConsensus, OnNodeMissingTxns,
                  WaitMissingTxn, consensus, fetching
    <2> QED
      BY <1>2, <2>1
  <1>4. ASSUME NEW n \in Nodes,
               MicroBlockValidator(n) \/ MissingTxnTimeout(n) \/ MicroBlockDone(n) \/ BackupDone(n)
        PROVE  BeginInv'
    <2>1. /\ UNCHANGED <<begin, fetched>>
          /\ state' = state \/ state' = [state EXCEPT ![n] = "WAITING_FINALBLOCK"]
      BY <1>4 DEF MicroBlockValidator, MissingTxnTimeout, MicroBlockDone, BackupDone, fetching
    <2>2. \A m \in Nodes : state'[m] = "MICROBLOCK_CONSENSUS" => state[m] = "MICROBLOCK_CONSENSUS"
      BY <1>1, <2>1 DEF TypeNode
    <2> QED
      BY <1>2, <2>1, <2>2
  <1>5. ASSUME NEW n \in Nodes, CommitTxnPacketBuffer(n) PROVE BeginInv'
    <2>1. /\ UNCHANGED <<state, fetched>>
          /\ begin' = [begin EXCEPT ![n] = @ \ {"commit"}]
      BY <1>5 DEF CommitTxnPacketBuffer, consensus
    <2>2. \A m \in Nodes : begin'[m] \subseteq begin[m]
      BY <1>1, <2>1 DEF TypeNode
    <2> QED
      BY <1>1, <2>1, <2>2 DEF BeginInv, Started
  <1>6. ASSUME NEW n \in Nodes, RunConsensusOnMicroBlock(n) PROVE BeginInv'
    <2>1. /\ "run" \in begin[n] /\ UNCHANGED fetched
          /\ begin' = [begin EXCEPT ![n] = (@ \ {"run"}) \cup
                          IF Vacuous(epoch[n]) THEN {} ELSE {"prep"}]
          /\ state' = [state EXCEPT ![n] = "MICROBLOCK_CONSENSUS_PREP"]
      BY <1>6 DEF RunConsensusOnMicroBlock, consensus
    <2>2. /\ "run" \notin begin'[n] /\ state'[n] # "MICROBLOCK_CONSENSUS" /\ ~ Started(n)
          /\ \A m \in Nodes : m # n => begin'[m] = begin[m] /\ state'[m] = state[m]
      BY <1>1, <2>1 DEF TypeNode, Started
    <2>3. ~ fetched'[n]
      BY <1>1, <2>1, <2>2 DEF BeginInv
    <2> QED
      BY <1>1, <2>1, <2>2, <2>3 DEF BeginInv, Started
  <1>7. ASSUME NEW n \in Nodes, NEW k, FinishPrep(n, k) PROVE BeginInv'
    <2>1. /\ "prep" \in begin[n] /\ UNCHANGED fetched
          /\ begin' = [begin EXCEPT ![n] = @ \ {"prep"}]
          /\ state' = [state EXCEPT ![n] = "MICROBLOCK_CONSENSUS"]
      BY <1>7 DEF FinishPrep
    <2>2. /\ begin'[n] \cap {"run", "prep"} = {} /\ \A m \in Nodes : begin'[m] \subseteq begin[m]
          /\ \A m \in Nodes : m # n => state'[m] = state[m]
      BY <1>1, <2>1 DEF TypeNode, BeginInv
    <2> QED
      BY <1>1, <2>1, <2>2 DEF BeginInv, Started
  <1>8. ASSUME NEW n \in Nodes, NEW r \in reply, ProcessSubmitMissingTxn(n, r)
        PROVE  BeginInv'
    <2>1. /\ UNCHANGED <<begin, state>>
          /\ \A m \in Nodes : fetched'[m] =>
                fetched[m] \/ (m = n /\ state[n] = "MICROBLOCK_CONSENSUS")
      <3>1. CASE UNCHANGED fetched
        BY <1>8, <3>1 DEF ProcessSubmitMissingTxn, fetching
      <3>2. CASE state[n] = "MICROBLOCK_CONSENSUS"
        BY <1>1, <1>8, <3>2 DEF TypeNode, ProcessSubmitMissingTxn, fetching
      <3> QED
        BY <1>8, <3>1, <3>2 DEF ProcessSubmitMissingTxn
    <2> QED
      BY <1>1, <2>1 DEF BeginInv, Started
  <1>9. ASSUME NEW n \in Nodes, ProcessFinalBlock(n) PROVE BeginInv'
    <2>1. /\ begin' = [begin EXCEPT ![n] = IF Vacuous(epoch[n] + 1) THEN {"run"}
                                           ELSE {"run", "commit"}]
          /\ state' = [state EXCEPT ![n] = "WAITING_FINALBLOCK"]
          /\ fetched' = [fetched EXCEPT ![n] = FALSE]
      BY <1>9 DEF ProcessFinalBlock
    <2>2. /\ "prep" \notin begin'[n] /\ state'[n] # "MICROBLOCK_CONSENSUS" /\ ~ fetched'[n]
          /\ \A m \in Nodes : m # n => /\ begin'[m] = begin[m] /\ state'[m] = state[m]
                                       /\ fetched'[m] = fetched[m]
      BY <1>1, <2>1 DEF TypeNode
    <2> QED
      BY <1>1, <2>2 DEF BeginInv, Started
  <1>10. CASE MakeFinalBlock \/ UNCHANGED vars
    BY <1>2, <1>10 DEF MakeFinalBlock, vars, nodeVars
  <1> QED
    BY <1>3, <1>4, <1>5, <1>6, <1>7, <1>8, <1>9, <1>10
       DEF Next, RunConsensusOnMicroBlockWhenShardLeader, RunConsensusOnMicroBlockWhenShardBackup

(* Every step keeps the microblocks that somebody relies on *)

LEMMA MicroKnownKept ==
    ASSUME IInv, [Next]_vars
    PROVE  MicroKnown'
  <1>1. MicroKnown /\ TypeNode /\ TypeShared
    BY TypeParts DEF IInv
  <1>2. CASE /\ UNCHANGED <<epoch, signed, accepted>> /\ DOMAIN micro \subseteq DOMAIN micro'
             /\ \A n \in Nodes : state'[n] = "MICROBLOCK_CONSENSUS" =>
                   \/ state[n] = "MICROBLOCK_CONSENSUS"
                   \/ n # Leader[epoch[n]] \/ epoch[n] \in DOMAIN micro'
    BY <1>1, <1>2 DEF MicroKnown
  <1>3. ASSUME NEW n \in Nodes,
               \/ \E p \in Packets : ProcessTxnPacketFromLookup(n, p)
               \/ CommitTxnPacketBuffer(n)
               \/ \E k \in TimerStops(n) : \E e \in rerun[n] : ReprocessConsensus(n, e, k)
               \/ \E r \in request : OnNodeMissingTxns(n, r)
               \/ WaitMissingTxn(n)
               \/ \E r \in reply : ProcessSubmitMissingTxn(n, r)
        PROVE  MicroKnown'
    <2>1. UNCHANGED <<epoch, signed, accepted, micro, state>>
      BY <1>3 DEF ProcessTxnPacketFromLookup, CommitTxnPacketBuffer, ReprocessConsensus,
                  OnNodeMissingTxns, WaitMissingTxn, ProcessSubmitMissingTxn, consensus,
                  fetching
    <2> QED
      BY <1>2, <2>1
  <1>4. ASSUME NEW n \in Nodes, RunConsensusOnMicroBlock(n) \/ MissingTxnTimeout(n)
        PROVE  MicroKnown'
    <2>1. /\ UNCHANGED <<epoch, signed, accepted, micro>>
          /\ \/ state' = [state EXCEPT ![n] = "MICROBLOCK_CONSENSUS_PREP"]
             \/ state' = [state EXCEPT ![n] = "WAITING_FINALBLOCK"]
      BY <1>4 DEF RunConsensusOnMicroBlock, MissingTxnTimeout, consensus, fetching
    <2>2. \A m \in Nodes : state'[m] = "MICROBLOCK_CONSENSUS" => state[m] = "MICROBLOCK_CONSENSUS"
      BY <1>1, <2>1 DEF TypeNode
    <2> QED
      BY <1>2, <2>1, <2>2
  <1>5. ASSUME NEW n \in Nodes, NEW k, RunConsensusOnMicroBlockWhenShardLeader(n, k)
        PROVE  MicroKnown'
    <2>1. /\ UNCHANGED <<epoch, signed, accepted>>
          /\ state' = [state EXCEPT ![n] = "MICROBLOCK_CONSENSUS"]
      BY <1>5 DEF RunConsensusOnMicroBlockWhenShardLeader, FinishPrep
    <2>2. DOMAIN micro' = DOMAIN micro \cup {epoch[n]}
      BY <1>5, LeaderPuts
    <2>3. \A m \in Nodes : m # n => state'[m] = state[m]
      BY <1>1, <2>1 DEF TypeNode
    <2> QED
      BY <1>2, <2>1, <2>2, <2>3
  <1>6. ASSUME NEW n \in Nodes, NEW k, RunConsensusOnMicroBlockWhenShardBackup(n, k)
        PROVE  MicroKnown'
    <2>1. /\ UNCHANGED <<epoch, signed, accepted, micro>> /\ n # Leader[epoch[n]]
          /\ state' = [state EXCEPT ![n] = "MICROBLOCK_CONSENSUS"]
      BY <1>6 DEF RunConsensusOnMicroBlockWhenShardBackup, FinishPrep
    <2>2. \A m \in Nodes : m # n => state'[m] = state[m]
      BY <1>1, <2>1 DEF TypeNode
    <2> QED
      BY <1>2, <2>1, <2>2
  <1>7. ASSUME NEW n \in Nodes, MicroBlockValidator(n) PROVE MicroKnown'
    <2>1. /\ UNCHANGED <<epoch, signed, micro>> /\ epoch[n] \in DOMAIN micro
          /\ accepted' = accepted \/ accepted' = [accepted EXCEPT ![n] = TRUE]
          /\ state' = state \/ state' = [state EXCEPT ![n] = "WAITING_FINALBLOCK"]
      BY <1>7 DEF MicroBlockValidator
    <2>2. \A m \in Nodes : /\ state'[m] = "MICROBLOCK_CONSENSUS" => state[m] = "MICROBLOCK_CONSENSUS"
                           /\ accepted'[m] => accepted[m] \/ m = n
      BY <1>1, <2>1 DEF TypeNode
    <2> QED
      BY <1>1, <2>1, <2>2 DEF MicroKnown
  <1>8. ASSUME NEW n \in Nodes, MicroBlockDone(n) \/ BackupDone(n) PROVE MicroKnown'
    <2>1. /\ UNCHANGED <<epoch, micro, accepted>> /\ epoch[n] \in DOMAIN micro
          /\ signed' \subseteq signed \cup {epoch[n]}
          /\ state' = [state EXCEPT ![n] = "WAITING_FINALBLOCK"]
      BY <1>1, <1>8 DEF MicroBlockDone, BackupDone, MicroKnown
    <2>2. \A m \in Nodes : state'[m] = "MICROBLOCK_CONSENSUS" => state[m] = "MICROBLOCK_CONSENSUS"
      BY <1>1, <2>1 DEF TypeNode
    <2> QED
      BY <1>1, <2>1, <2>2 DEF MicroKnown
  <1>9. ASSUME NEW n \in Nodes, ProcessFinalBlock(n) PROVE MicroKnown'
    <2>1. /\ \A m \in Nodes : epoch'[m] = IF m = n THEN epoch[n] + 1 ELSE epoch[m]
          /\ \A e \in DOMAIN micro : (\E m \in Nodes : epoch'[m] = e) => e \in DOMAIN micro'
          /\ signed' = {x \in signed : \E m \in Nodes : epoch'[m] = x}
      BY <1>9, FinalBlockStep
    <2>2. /\ state' = [state EXCEPT ![n] = "WAITING_FINALBLOCK"]
          /\ accepted' = [accepted EXCEPT ![n] = FALSE]
      BY <1>9 DEF ProcessFinalBlock
    <2>3. /\ state'[n] # "MICROBLOCK_CONSENSUS" /\ ~ accepted'[n]
          /\ \A m \in Nodes : m # n => state'[m] = state[m] /\ accepted'[m] = accepted[m]
      BY <1>1, <2>2 DEF TypeNode
    <2>4. \A m \in Nodes : m # n /\ epoch[m] \in DOMAIN micro => epoch'[m] \in DOMAIN micro'
      BY <2>1
    <2>5. signed' \subseteq DOMAIN micro'
      BY <1>1, <2>1 DEF MicroKnown
    <2> QED
      BY <1>1, <2>1, <2>3, <2>4, <2>5 DEF MicroKnown
  <1>10. CASE MakeFinalBlock \/ UNCHANGED vars
    BY <1>2, <1>10 DEF MakeFinalBlock, vars, nodeVars
  <1> QED
    BY <1>3, <1>4, <1>5, <1>6, <1>7, <1>8, <1>9, <1>10 DEF Next

(* Every step keeps what is known of AccountStoreTemp *)

\* The accounts of the node's epoch
LEMMA NonceOfType ==
    ASSUME IInv, NEW n \in Nodes
    PROVE  NonceOf(chain, epoch[n]) \in [Senders -> Nat]
  <1>1. epoch[n] \in 1 .. MaxEpoch /\ MaxEpoch \in Nat
    BY LeaderFacts DEF IInv, TypeOK
  <1>2. /\ epoch[n] \in Nat \ {0} /\ epoch[n] <= Len(chain) + 1
        /\ chain \in Seq([included : BOOLEAN, txns : Seq(Txns)])
    BY <1>1 DEF IInv, EpochInv, TypeOK
  <1> QED
    BY <1>2, NonceOfFacts

\* A new final block does not change them
LEMMA ChainGrows ==
    ASSUME IInv, \E x : chain' = Append(chain, x), NEW n \in Nodes
    PROVE  NonceOf(chain', epoch[n]) = NonceOf(chain, epoch[n])
  <1>1. PICK x : chain' = Append(chain, x)
    OBVIOUS
  <1>2. epoch[n] \in 1 .. MaxEpoch /\ MaxEpoch \in Nat
    BY LeaderFacts DEF IInv, TypeOK
  <1>3. /\ epoch[n] \in Nat \ {0} /\ epoch[n] <= Len(chain) + 1
        /\ chain \in Seq([included : BOOLEAN, txns : Seq(Txns)])
    BY <1>2 DEF IInv, EpochInv, TypeOK
  <1> QED
    BY <1>1, <1>3, NonceOfFacts

\* A node that the step does not concern
LEMMA NonceFrame ==
    ASSUME IInv, NEW m \in Nodes, UNCHANGED <<epoch[m], chain, stop[m], stale[m], nonceTemp[m]>>,
           UNCHANGED <<rerun[m], handler[m]>>, Started(m)' <=> Started(m),
           state'[m] = "MICROBLOCK_CONSENSUS" => state[m] = "MICROBLOCK_CONSENSUS"
    PROVE  NonceAt(m)'
  <1>1. NonceAt(m)
    BY DEF NonceInv, IInv
  <1>2. (Busy(m)' <=> Busy(m)) /\ (Waits(m)' <=> Waits(m))
    BY DEF Busy, Waits
  <1> QED
    BY <1>1, <1>2 DEF NonceAt

LEMMA NonceKept ==
    ASSUME IInv, [Next]_vars
    PROVE  NonceInv'
  <1>1. /\ TypeNode /\ TypeTxns /\ TypeShared /\ BeginInv /\ EpochInv
        /\ \A n \in Nodes : NonceAt(n)
    BY TypeParts DEF NonceInv, IInv
  <1>3. ASSUME NEW n \in Nodes,
               \/ \E p \in Packets : ProcessTxnPacketFromLookup(n, p)
               \/ \E r \in request : OnNodeMissingTxns(n, r)
        PROVE  NonceInv'
    <2>1. UNCHANGED <<epoch, chain, stop, stale, nonceTemp, rerun, handler, begin, state>>
      BY <1>3 DEF ProcessTxnPacketFromLookup, OnNodeMissingTxns, selection, consensus, fetching
    <2> QED
      BY <2>1, NonceFrame DEF NonceInv, Started
  <1>4. ASSUME NEW n \in Nodes, CommitTxnPacketBuffer(n) PROVE NonceInv'
    <2>1. /\ UNCHANGED <<epoch, chain, stop, stale, nonceTemp, rerun, handler, state>>
          /\ begin' = [begin EXCEPT ![n] = @ \ {"commit"}]
      BY <1>4 DEF CommitTxnPacketBuffer, selection, consensus
    <2>2. \A m \in Nodes : Started(m)' <=> Started(m)
      BY <1>1, <2>1 DEF TypeNode, Started
    <2> QED
      BY <2>1, <2>2, NonceFrame DEF NonceInv
  <1>5. ASSUME NEW n \in Nodes, RunConsensusOnMicroBlock(n) PROVE NonceInv'
    <2>1. /\ UNCHANGED <<epoch, chain, stop, stale, nonceTemp, rerun, handler>>
          /\ "run" \in begin[n]
          /\ state'[n] = "MICROBLOCK_CONSENSUS_PREP"
          /\ \A m \in Nodes : m # n => begin'[m] = begin[m] /\ state'[m] = state[m]
      BY <1>1, <1>5 DEF RunConsensusOnMicroBlock, consensus, TypeNode
    <2>2. ~ Started(n)
      BY <2>1 DEF Started
    <2>3. NonceAt(n)'
      <3>1. NonceAt(n)
        BY <1>1
      <3>2. (Busy(n)' <=> Busy(n)) /\ (Waits(n)' <=> Waits(n))
        BY <2>1 DEF Busy, Waits
      <3> QED
        BY <2>1, <2>2, <3>1, <3>2 DEF NonceAt
    <2>4. \A m \in Nodes : m # n => NonceAt(m)'
      BY <2>1, NonceFrame DEF Started
    <2> QED
      BY <2>3, <2>4 DEF NonceInv
  <1>6. ASSUME NEW n \in Nodes, NEW k \in TimerStops(n), FinishPrep(n, k) PROVE NonceInv'
    <2>1. PICK st : Selected(n, st)
      BY <1>6, SelectedStep DEF FinishPrep
    <2>2. /\ stop'[n] # "none" 
          /\ \A m \in Nodes : m # n => stop'[m] = stop[m] /\ nonceTemp'[m] = nonceTemp[m]
      BY <1>1, <2>1 DEF Selected, Outcome, TypeNode, TypeTxns
    <2>3. /\ UNCHANGED <<epoch, chain, stale, rerun, handler>>
          /\ "prep" \in begin[n] /\ begin'[n] = begin[n] \ {"prep"}
          /\ \A m \in Nodes : m # n => begin'[m] = begin[m] /\ state'[m] = state[m]
      BY <1>1, <1>6 DEF FinishPrep, TypeNode
    <2>4. ~ Started(n) /\ Started(n)'
      BY <1>1, <2>3 DEF Started, BeginInv
    <2>5. NonceAt(n)'
      <3>1. NonceAt(n)
        BY <1>1
      <3>2. (Busy(n)' <=> Busy(n)) /\ (Waits(n)' <=> Waits(n))
        BY <2>3 DEF Busy, Waits
      <3> QED
        BY <2>2, <2>3, <2>4, <3>1, <3>2 DEF NonceAt
    <2>6. \A m \in Nodes : m # n => NonceAt(m)'
      BY <2>2, <2>3, NonceFrame DEF Started
    <2> QED
      BY <2>5, <2>6 DEF NonceInv
  <1>7. ASSUME NEW n \in Nodes, NEW k \in TimerStops(n), NEW e \in rerun[n],
               ReprocessConsensus(n, e, k)
        PROVE  NonceInv'
    <2>1. PICK st : Selected(n, st)
      BY <1>7, SelectedStep DEF ReprocessConsensus
    <2>2. /\ stop'[n] # "none" 
          /\ \A m \in Nodes : m # n => stop'[m] = stop[m] /\ nonceTemp'[m] = nonceTemp[m]
      BY <1>1, <2>1 DEF Selected, Outcome, TypeNode, TypeTxns
    <2>3. /\ UNCHANGED <<epoch, chain, state, handler, begin>>
          /\ rerun'[n] = rerun[n] \ {e} /\ (stale'[n] <=> stale[n] \/ e # epoch[n])
          /\ \A m \in Nodes : m # n => rerun'[m] = rerun[m] /\ stale'[m] = stale[m]
      BY <1>1, <1>7 DEF ReprocessConsensus, TypeNode, fetching
    <2>4. NonceAt(n)'
      <3>1. NonceAt(n)
        BY <1>1
      <3>2. (Waits(n)' <=> Waits(n)) /\ (Started(n)' <=> Started(n))
        BY <2>3 DEF Waits, Started
      <3>3. CASE e = epoch[n]
        <4>1. Started(n) /\ ~ Waits(n) /\ ~ Busy(n)'
          BY <2>3, <3>1, <3>2, <3>3 DEF NonceAt, Busy
        <4> QED
          BY <2>2, <3>2, <4>1 DEF NonceAt
      <3>4. CASE e # epoch[n]
        <4>1. stale'[n] /\ (epoch'[n] \in rerun'[n] <=> epoch[n] \in rerun[n])
          BY <2>3, <3>4
        <4>2. Busy(n)' <=> Busy(n)
          BY <3>2, <4>1 DEF Busy
        <4> QED
          BY <2>2, <3>1, <3>2, <4>1, <4>2 DEF NonceAt
      <3> QED
        BY <3>3, <3>4
    <2>5. \A m \in Nodes : m # n => NonceAt(m)'
      BY <2>2, <2>3, NonceFrame DEF Started
    <2> QED
      BY <2>4, <2>5 DEF NonceInv
  <1>8. ASSUME NEW n \in Nodes, MicroBlockValidator(n) PROVE NonceInv'
    <2>1. /\ UNCHANGED <<epoch, chain, rerun, begin>>
          /\ state[n] = "MICROBLOCK_CONSENSUS" /\ epoch[n] \notin rerun[n]
          /\ state' = state \/ state' = [state EXCEPT ![n] = "WAITING_FINALBLOCK"]
          /\ \/ UNCHANGED <<nonceTemp, stop, stale, handler>>
             \/ /\ RevertTemp(n)
                /\ handler' = [handler EXCEPT ![n] = [epoch |-> epoch[n], phase |-> "missing"]]
      BY <1>8 DEF MicroBlockValidator
    <2>2. \A m \in Nodes : /\ state'[m] = "MICROBLOCK_CONSENSUS" => state[m] = "MICROBLOCK_CONSENSUS"
                           /\ Started(m)' <=> Started(m)
      BY <1>1, <2>1 DEF TypeNode, Started
    <2>3. CASE UNCHANGED <<nonceTemp, stop, stale, handler>>
      BY <2>1, <2>2, <2>3, NonceFrame DEF NonceInv
    <2>4. CASE /\ RevertTemp(n)
               /\ handler' = [handler EXCEPT ![n] = [epoch |-> epoch[n], phase |-> "missing"]]
      <3>1. /\ stop'[n] = "none" /\ ~ stale'[n] /\ nonceTemp'[n] = NonceOf(chain, epoch[n])
            /\ \A m \in Nodes : m # n => /\ stop'[m] = stop[m] /\ stale'[m] = stale[m]
                                         /\ nonceTemp'[m] = nonceTemp[m]
        BY <1>1, <2>4, NonceAfterIs DEF RevertTemp, InitTemp, TypeNode, TypeTxns
      <3>2. /\ handler'[n].phase = "missing" /\ handler'[n].epoch = epoch[n]
            /\ \A m \in Nodes : m # n => handler'[m] = handler[m]
        BY <1>1, <2>4 DEF TypeNode
      <3>3. Busy(n)' /\ Started(n)'
        BY <1>1, <2>1, <2>2, <3>2 DEF Busy, Waits, BeginInv
      <3>4. NonceAt(n)'
        BY <2>1, <3>1, <3>3 DEF NonceAt
      <3>5. \A m \in Nodes : m # n => NonceAt(m)'
        BY <2>1, <2>2, <3>1, <3>2, NonceFrame
      <3> QED
        BY <3>4, <3>5 DEF NonceInv
    <2> QED
      BY <2>1, <2>3, <2>4
  <1>9. ASSUME NEW n \in Nodes, WaitMissingTxn(n) PROVE NonceInv'
    <2>1. /\ UNCHANGED <<epoch, chain, stop, stale, nonceTemp, rerun, begin, state>>
          /\ handler[n].phase = "missing" /\ handler' = [handler EXCEPT ![n].phase = "waiting"]
      BY <1>9 DEF WaitMissingTxn, selection, fetching
    <2>2. \A m \in Nodes : (Waits(m)' <=> Waits(m)) /\ (Started(m)' <=> Started(m))
      BY <1>1, <2>1 DEF TypeNode, Waits, Started
    <2>3. \A m \in Nodes : Busy(m)' <=> Busy(m)
      BY <2>1, <2>2 DEF Busy
    <2> QED
      BY <1>1, <2>1, <2>2, <2>3 DEF NonceInv, NonceAt
  <1>10. ASSUME NEW n \in Nodes, NEW r \in reply, ProcessSubmitMissingTxn(n, r)
         PROVE  NonceInv'
    <2>1. /\ UNCHANGED <<epoch, chain, stop, stale, nonceTemp, begin, state>>
          /\ \/ UNCHANGED <<handler, rerun>>
             \/ /\ handler[n].phase = "waiting"
                /\ handler' = [handler EXCEPT ![n] = NoHandler]
                /\ rerun' = [rerun EXCEPT ![n] = @ \cup {handler[n].epoch}]
      BY <1>10 DEF ProcessSubmitMissingTxn, selection, fetching
    <2>2. CASE UNCHANGED <<handler, rerun>>
      BY <2>1, <2>2, NonceFrame DEF NonceInv, Started
    <2>3. CASE /\ handler[n].phase = "waiting"
               /\ handler' = [handler EXCEPT ![n] = NoHandler]
               /\ rerun' = [rerun EXCEPT ![n] = @ \cup {handler[n].epoch}]
      <3>1. /\ handler'[n].phase = "none" /\ rerun'[n] = rerun[n] \cup {handler[n].epoch}
            /\ \A m \in Nodes : m # n => handler'[m] = handler[m] /\ rerun'[m] = rerun[m]
        BY <1>1, <2>3 DEF TypeNode, NoHandler
      <3>2. NonceAt(n)'
        <4>1. NonceAt(n) /\ (Started(n)' <=> Started(n))
          BY <1>1, <2>1 DEF Started
        <4>2. ~ Waits(n)' /\ (Busy(n)' <=> Busy(n))
          BY <2>1, <2>3, <3>1 DEF Waits, Busy
        <4> QED
          BY <2>1, <4>1, <4>2 DEF NonceAt
      <3>3. \A m \in Nodes : m # n => NonceAt(m)'
        BY <2>1, <3>1, NonceFrame DEF Started
      <3> QED
        BY <3>2, <3>3 DEF NonceInv
    <2> QED
      BY <2>1, <2>2, <2>3
  <1>11. ASSUME NEW n \in Nodes, MissingTxnTimeout(n) PROVE NonceInv'
    <2>1. /\ UNCHANGED <<epoch, chain, stop, stale, nonceTemp, begin, rerun>>
          /\ handler' = [handler EXCEPT ![n] = NoHandler]
          /\ state' = [state EXCEPT ![n] = "WAITING_FINALBLOCK"]
      BY <1>11 DEF MissingTxnTimeout, selection, fetching
    <2>2. /\ handler'[n].phase = "none" /\ state'[n] # "MICROBLOCK_CONSENSUS"
          /\ \A m \in Nodes : m # n => handler'[m] = handler[m] /\ state'[m] = state[m]
      BY <1>1, <2>1 DEF TypeNode, NoHandler
    <2>3. NonceAt(n)'
      <3>1. NonceAt(n) /\ (Started(n)' <=> Started(n))
        BY <1>1, <2>1 DEF Started
      <3>2. ~ Waits(n)' /\ (Busy(n)' => Busy(n))
        BY <2>1, <2>2 DEF Waits, Busy
      <3> QED
        BY <2>1, <2>2, <3>1, <3>2 DEF NonceAt
    <2>4. \A m \in Nodes : m # n => NonceAt(m)'
      BY <2>1, <2>2, NonceFrame DEF Started
    <2> QED
      BY <2>3, <2>4 DEF NonceInv
  <1>12. ASSUME NEW n \in Nodes, MicroBlockDone(n) \/ BackupDone(n) PROVE NonceInv'
    <2>1. /\ UNCHANGED <<epoch, chain, stop, stale, nonceTemp, begin, rerun, handler>>
          /\ state' = [state EXCEPT ![n] = "WAITING_FINALBLOCK"]
      BY <1>12 DEF MicroBlockDone, BackupDone, pools, selection
    <2>2. \A m \in Nodes : state'[m] = "MICROBLOCK_CONSENSUS" => state[m] = "MICROBLOCK_CONSENSUS"
      BY <1>1, <2>1 DEF TypeNode
    <2> QED
      BY <2>1, <2>2, NonceFrame DEF NonceInv, Started
  <1>13. ASSUME NEW n \in Nodes, ProcessFinalBlock(n) PROVE NonceInv'
    <2>1. /\ epoch[n] \in Nat
          /\ \A m \in Nodes : epoch'[m] = IF m = n THEN epoch[n] + 1 ELSE epoch[m]
      BY <1>13, FinalBlockStep
    <2>2. /\ UNCHANGED <<chain, rerun, handler>>
          /\ nonceTemp' = [nonceTemp EXCEPT ![n] = NonceOf(chain, epoch[n] + 1)]
          /\ stop' = [stop EXCEPT ![n] = "none"] /\ stale' = [stale EXCEPT ![n] = FALSE]
          /\ state' = [state EXCEPT ![n] = "WAITING_FINALBLOCK"]
          /\ \A m \in Nodes : m # n => begin'[m] = begin[m]
      BY <1>1, <1>13, NonceAfterIs DEF ProcessFinalBlock, InitTemp, TypeNode
    <2>3. /\ stop'[n] = "none" /\ nonceTemp'[n] = NonceOf(chain, epoch[n] + 1)
          /\ state'[n] # "MICROBLOCK_CONSENSUS"
          /\ \A m \in Nodes : m # n => /\ stop'[m] = stop[m] /\ stale'[m] = stale[m]
                                       /\ nonceTemp'[m] = nonceTemp[m] /\ state'[m] = state[m]
      BY <1>1, <2>2 DEF TypeNode, TypeTxns
    <2>4. ~ Busy(n)'
      <3>1. epoch[n] + 1 \notin rerun[n]
        <4>1. \A e \in rerun[n] : e \in Nat /\ e <= epoch[n]
          BY <1>1, LeaderFacts DEF TypeNode, EpochInv
        <4> QED
          BY <2>1, <4>1
      <3>2. handler[n].phase # "none" => handler[n].epoch # epoch[n] + 1
        BY <1>1, <2>1 DEF EpochInv
      <3> QED
        BY <2>1, <2>2, <3>1, <3>2 DEF Busy, Waits
    <2>5. NonceAt(n)'
      BY <2>1, <2>2, <2>3, <2>4 DEF NonceAt, Busy
    <2>6. \A m \in Nodes : m # n => NonceAt(m)'
      BY <2>1, <2>2, <2>3, NonceFrame DEF Started
    <2> QED
      BY <2>5, <2>6 DEF NonceInv
  <1>14. ASSUME MakeFinalBlock PROVE NonceInv'
    <2>1. /\ UNCHANGED <<epoch, stop, stale, nonceTemp, begin, rerun, handler, state>>
          /\ \E x : chain' = Append(chain, x)
      BY <1>14 DEF MakeFinalBlock, nodeVars
    <2>2. \A m \in Nodes : NonceOf(chain', epoch[m]) = NonceOf(chain, epoch[m])
      BY <2>1, ChainGrows
    <2>3. \A m \in Nodes : /\ Waits(m)' <=> Waits(m)
                           /\ Started(m)' <=> Started(m)
                           /\ Busy(m)' <=> Busy(m)
      BY <2>1 DEF Waits, Started, Busy
    <2> QED
      BY <1>1, <2>1, <2>2, <2>3 DEF NonceInv, NonceAt
  <1>15. CASE UNCHANGED vars
    BY <1>15, NonceFrame DEF NonceInv, vars, nodeVars, Started
  <1> QED
    BY <1>3, <1>4, <1>5, <1>6, <1>7, <1>8, <1>9, <1>10, <1>11, <1>12, <1>13, <1>14, <1>15
       DEF Next, RunConsensusOnMicroBlockWhenShardLeader, RunConsensusOnMicroBlockWhenShardBackup

(* Every step keeps what is known of the announced microblocks *)

LEMMA MicroKept ==
    ASSUME IInv, [Next]_vars
    PROVE  MicroInv'
  <1>1. MicroInv /\ TypeTxns
    BY TypeParts DEF IInv
  <1>2. CASE UNCHANGED micro
    BY <1>1, <1>2 DEF MicroInv
  <1>3. ASSUME NEW n \in Nodes, NEW k \in TimerStops(n),
               RunConsensusOnMicroBlockWhenShardLeader(n, k)
        PROVE  MicroInv'
    <2>1. PICK st : Selected(n, st)
      BY <1>3, SelectedStep DEF RunConsensusOnMicroBlockWhenShardLeader, FinishPrep
    <2>2. order'[n] = st.order
      BY <2>1 DEF Selected, IInv, ShapeInv
    <2>3. PICK x \in Seq(Txns) : x = order'[n] /\ From(x, nonceTemp[n])
      BY <2>1, <2>2 DEF Selected, Outcome
    <2>4. nonceTemp[n] \in [Senders -> Nat]
      BY <1>1 DEF TypeTxns
    <2>5. /\ DOMAIN micro' = DOMAIN micro \cup {epoch[n]}
          /\ \A e \in DOMAIN micro : micro'[e] = micro[e]
          /\ micro'[epoch[n]].order = x /\ micro'[epoch[n]].delta = ToSet(x)
      BY <1>3, <2>3, LeaderPuts
    <2> SUFFICES ASSUME NEW e \in DOMAIN micro'
                 PROVE  /\ micro'[e].order \in Seq(Txns) /\ micro'[e].delta = ToSet(micro'[e].order)
                        /\ \E base \in [Senders -> Nat] : From(micro'[e].order, base)
      BY DEF MicroInv, From, Counted, ToSet
    <2>6. CASE e = epoch[n]
      BY <2>3, <2>4, <2>5, <2>6
    <2>7. CASE e \in DOMAIN micro
      BY <1>1, <2>5, <2>7 DEF MicroInv
    <2> QED
      BY <2>5, <2>6, <2>7
  <1>4. ASSUME NEW n \in Nodes, ProcessFinalBlock(n) PROVE MicroInv'
    <2>1. /\ DOMAIN micro' \subseteq DOMAIN micro
          /\ \A e \in DOMAIN micro' : micro'[e] = micro[e]
      BY <1>4, FinalBlockStep
    <2> SUFFICES ASSUME NEW e \in DOMAIN micro'
                 PROVE  /\ micro'[e].order \in Seq(Txns) /\ micro'[e].delta = ToSet(micro'[e].order)
                        /\ \E base \in [Senders -> Nat] : From(micro'[e].order, base)
      BY DEF MicroInv, From, Counted, ToSet
    <2> QED
      BY <1>1, <2>1 DEF MicroInv
  <1>5. ASSUME NEW n \in Nodes,
               \/ \E p \in Packets : ProcessTxnPacketFromLookup(n, p)
               \/ CommitTxnPacketBuffer(n) \/ RunConsensusOnMicroBlock(n)
               \/ \E k \in TimerStops(n) : RunConsensusOnMicroBlockWhenShardBackup(n, k)
               \/ \E k \in TimerStops(n) : \E e \in rerun[n] : ReprocessConsensus(n, e, k)
               \/ MicroBlockValidator(n)
               \/ \E r \in request : OnNodeMissingTxns(n, r)
               \/ WaitMissingTxn(n) \/ MissingTxnTimeout(n)
               \/ \E r \in reply : ProcessSubmitMissingTxn(n, r)
               \/ MicroBlockDone(n) \/ BackupDone(n)
        PROVE  MicroInv'
    <2>1. UNCHANGED micro
      BY <1>5 DEF ProcessTxnPacketFromLookup, CommitTxnPacketBuffer, RunConsensusOnMicroBlock,
                  RunConsensusOnMicroBlockWhenShardBackup, ReprocessConsensus,
                  MicroBlockValidator, OnNodeMissingTxns, WaitMissingTxn, MissingTxnTimeout,
                  ProcessSubmitMissingTxn, MicroBlockDone, BackupDone, consensus, fetching
    <2> QED
      BY <1>2, <2>1
  <1>6. CASE MakeFinalBlock \/ UNCHANGED vars
    BY <1>2, <1>6 DEF MakeFinalBlock, vars
  <1> QED
    BY <1>3, <1>4, <1>5, <1>6 DEF Next

\* Announced transactions are transactions
LEMMA MicroTxns ==
    ASSUME IInv, NEW e \in DOMAIN micro
    PROVE  ToSet(micro[e].order) \subseteq Txns
  <1>1. PICK x \in Seq(Txns) : x = micro[e].order
    BY DEF IInv, MicroInv
  <1>2. \A i \in DOMAIN x : x[i] \in Txns
    BY ElementOfSeq, LenProperties
  <1> QED
    BY <1>1, <1>2 DEF ToSet

(* Every step keeps that clean selections carry on from the last final block *)

LEMMA SelectedFrame ==
    ASSUME IInv, NEW m \in Nodes, UNCHANGED <<epoch[m], chain, stop[m], stale[m], order[m]>>
    PROVE  SelectedAt(m)'
  <1>1. SelectedAt(m)
    BY DEF IInv, SelectedInv, SelectedAt
  <1> QED
    BY <1>1 DEF SelectedAt

LEMMA SelectedKept ==
    ASSUME IInv, [Next]_vars
    PROVE  SelectedInv'
  <1>1. /\ TypeNode /\ TypeTxns /\ ShapeInv /\ TypeShared /\ BeginInv /\ EpochInv
        /\ \A n \in Nodes : NonceAt(n) /\ SelectedAt(n)
    BY TypeParts DEF NonceInv, IInv, SelectedInv, SelectedAt
  <1>2. CASE UNCHANGED <<epoch, chain, stop, stale, order>>
    BY <1>2, SelectedFrame DEF SelectedInv
  <1>3. ASSUME NEW n \in Nodes,
               \/ \E p \in Packets : ProcessTxnPacketFromLookup(n, p)
               \/ CommitTxnPacketBuffer(n)
               \/ \E r \in request : OnNodeMissingTxns(n, r)
               \/ WaitMissingTxn(n) \/ MissingTxnTimeout(n)
               \/ \E r \in reply : ProcessSubmitMissingTxn(n, r)
               \/ MicroBlockDone(n) \/ BackupDone(n)
        PROVE  SelectedInv'
    <2>1. UNCHANGED <<epoch, chain, stop, stale, order>>
      BY <1>3 DEF ProcessTxnPacketFromLookup, CommitTxnPacketBuffer,
                  OnNodeMissingTxns, WaitMissingTxn, MissingTxnTimeout,
                  ProcessSubmitMissingTxn, MicroBlockDone, BackupDone, consensus, fetching,
                  selection, pools
    <2> QED
      BY <1>2, <2>1
  <1>4. ASSUME NEW n \in Nodes, RunConsensusOnMicroBlock(n) PROVE SelectedInv'
    <2>1. /\ UNCHANGED <<epoch, chain, stop, stale>>
          /\ order' = order \/ order' = [order EXCEPT ![n] = <<>>]
      BY <1>4 DEF RunConsensusOnMicroBlock, CleanCreatedTransaction, consensus
    <2>2. CASE order' = order
      BY <1>2, <2>1, <2>2
    <2>3. CASE order' = [order EXCEPT ![n] = <<>>]
      <3>1. order'[n] = <<>> /\ \A m \in Nodes : m # n => order'[m] = order[m]
        BY <1>1, <2>3 DEF ShapeInv
      <3>2. \A base : From(<<>>, base)
        BY DEF From
      <3>3. SelectedAt(n)'
        BY <3>1, <3>2 DEF SelectedAt
      <3>4. \A m \in Nodes : m # n => SelectedAt(m)'
        BY <2>1, <3>1, SelectedFrame
      <3> QED
        BY <3>3, <3>4 DEF SelectedInv
    <2> QED
      BY <2>1, <2>2, <2>3
  <1>5. ASSUME NEW n \in Nodes, NEW st, Selected(n, st), UNCHANGED <<epoch, chain>>,
               ~ stale'[n] => stop[n] = "none" /\ ~ stale[n],
               \A m \in Nodes : m # n => stale'[m] = stale[m]
        PROVE  SelectedInv'
    <2>1. /\ order'[n] = st.order /\ From(st.order, nonceTemp[n])
          /\ \A m \in Nodes : m # n => order'[m] = order[m] /\ stop'[m] = stop[m]
      BY <1>1, <1>5 DEF Selected, Outcome, ShapeInv, TypeNode
    <2>2. SelectedAt(n)'
      <3>1. ~ stale'[n] => nonceTemp[n] = NonceOf(chain, epoch[n])
        BY <1>1, <1>5 DEF NonceAt
      <3> QED
        BY <1>5, <2>1, <3>1 DEF SelectedAt
    <2>3. \A m \in Nodes : m # n => SelectedAt(m)'
      BY <1>5, <2>1, SelectedFrame
    <2> QED
      BY <2>2, <2>3 DEF SelectedInv
  <1>6. ASSUME NEW n \in Nodes, NEW k \in TimerStops(n), FinishPrep(n, k) PROVE SelectedInv'
    <2>1. PICK st : Selected(n, st)
      BY <1>6, SelectedStep DEF FinishPrep
    <2>2. UNCHANGED <<epoch, chain, stale>> /\ ~ Started(n)
      BY <1>6 DEF FinishPrep, Started
    <2>3. ~ stale'[n] => stop[n] = "none" /\ ~ stale[n]
      BY <1>1, <2>2 DEF NonceAt
    <2> QED
      BY <1>5, <2>1, <2>2, <2>3
  <1>7. ASSUME NEW n \in Nodes, NEW k \in TimerStops(n), NEW e \in rerun[n],
               ReprocessConsensus(n, e, k)
        PROVE  SelectedInv'
    <2>1. PICK st : Selected(n, st)
      BY <1>7, SelectedStep DEF ReprocessConsensus
    <2>2. /\ UNCHANGED <<epoch, chain>>
          /\ stale'[n] <=> stale[n] \/ e # epoch[n]
          /\ \A m \in Nodes : m # n => stale'[m] = stale[m]
      BY <1>1, <1>7 DEF ReprocessConsensus, TypeNode, fetching
    <2>3. ~ stale'[n] => stop[n] = "none" /\ ~ stale[n]
      BY <1>1, <2>2 DEF NonceAt, Busy
    <2> QED
      BY <1>5, <2>1, <2>2, <2>3
  <1>8. ASSUME NEW n \in Nodes, MicroBlockValidator(n) PROVE SelectedInv'
    <2>1. /\ UNCHANGED <<epoch, chain, order>>
          /\ UNCHANGED <<stop, stale>> \/ RevertTemp(n)
      BY <1>8 DEF MicroBlockValidator
    <2>2. CASE RevertTemp(n)
      <3>1. /\ stop'[n] = "none"
            /\ \A m \in Nodes : m # n => stop'[m] = stop[m] /\ stale'[m] = stale[m]
        BY <1>1, <2>2 DEF RevertTemp, InitTemp, TypeNode
      <3>2. SelectedAt(n)'
        BY <3>1 DEF SelectedAt
      <3>3. \A m \in Nodes : m # n => SelectedAt(m)'
        BY <2>1, <3>1, SelectedFrame
      <3> QED
        BY <3>2, <3>3 DEF SelectedInv
    <2> QED
      BY <1>2, <2>1, <2>2
  <1>9. ASSUME NEW n \in Nodes, ProcessFinalBlock(n) PROVE SelectedInv'
    <2>1. \A m \in Nodes : m # n => epoch'[m] = epoch[m]
      BY <1>9, FinalBlockStep
    <2>2. /\ UNCHANGED chain /\ stop'[n] = "none"
          /\ \A m \in Nodes : m # n => /\ stop'[m] = stop[m] /\ stale'[m] = stale[m]
                                       /\ order'[m] = order[m]
      BY <1>1, <1>9 DEF ProcessFinalBlock, InitTemp, TypeNode, ShapeInv
    <2>3. SelectedAt(n)'
      BY <2>2 DEF SelectedAt
    <2>4. \A m \in Nodes : m # n => SelectedAt(m)'
      BY <2>1, <2>2, SelectedFrame
    <2> QED
      BY <2>3, <2>4 DEF SelectedInv
  <1>10. ASSUME MakeFinalBlock PROVE SelectedInv'
    <2>1. /\ UNCHANGED <<epoch, stop, stale, order>>
          /\ \E x : chain' = Append(chain, x)
      BY <1>10 DEF MakeFinalBlock, nodeVars
    <2>2. \A m \in Nodes : NonceOf(chain', epoch[m]) = NonceOf(chain, epoch[m])
      BY <2>1, ChainGrows
    <2>3. \A m \in Nodes : SelectedAt(m)'
      BY <1>1, <2>1, <2>2 DEF SelectedAt
    <2> QED
      BY <2>3 DEF SelectedInv
  <1>11. CASE UNCHANGED vars
    BY <1>2, <1>11 DEF vars, nodeVars
  <1> QED
    BY <1>3, <1>4, <1>6, <1>7, <1>8, <1>9, <1>10, <1>11
       DEF Next, RunConsensusOnMicroBlockWhenShardLeader, RunConsensusOnMicroBlockWhenShardBackup

(* Every step keeps that clean backups accept what can be executed *)

LEMMA AcceptedFrame ==
    ASSUME IInv, NEW m \in Nodes, UNCHANGED <<epoch[m], chain>>, accepted'[m] => accepted[m],
           accepted'[m] /\ ~ stale'[m] => ~ stale[m],
           epoch[m] \in DOMAIN micro => micro'[epoch[m]] = micro[epoch[m]]
    PROVE  AcceptedAt(m)'
  <1>1. AcceptedAt(m) /\ (accepted[m] => epoch[m] \in DOMAIN micro)
    BY DEF IInv, AcceptedInv, AcceptedAt, MicroKnown
  <1> QED
    BY <1>1 DEF AcceptedAt

LEMMA AcceptedKept ==
    ASSUME IInv, [Next]_vars
    PROVE  AcceptedInv'
  <1>1. /\ TypeNode /\ TypeTxns /\ ShapeInv /\ TypeShared /\ BeginInv /\ EpochInv /\ MicroInv
        /\ \A n \in Nodes : NonceAt(n) /\ SelectedAt(n) /\ AcceptedAt(n)
    BY TypeParts DEF NonceInv, IInv, SelectedInv, SelectedAt, AcceptedInv, AcceptedAt
  <1>2. CASE UNCHANGED <<epoch, chain, accepted, stale, micro>>
    BY <1>2, AcceptedFrame DEF AcceptedInv
  <1>3. ASSUME NEW n \in Nodes,
               \/ \E p \in Packets : ProcessTxnPacketFromLookup(n, p)
               \/ CommitTxnPacketBuffer(n) \/ RunConsensusOnMicroBlock(n)
               \/ \E k \in TimerStops(n) : RunConsensusOnMicroBlockWhenShardBackup(n, k)
               \/ \E r \in request : OnNodeMissingTxns(n, r)
               \/ WaitMissingTxn(n) \/ MissingTxnTimeout(n)
               \/ \E r \in reply : ProcessSubmitMissingTxn(n, r)
               \/ MicroBlockDone(n) \/ BackupDone(n)
        PROVE  AcceptedInv'
    <2>1. UNCHANGED <<epoch, chain, accepted, stale, micro>>
      BY <1>3 DEF ProcessTxnPacketFromLookup, CommitTxnPacketBuffer, RunConsensusOnMicroBlock,
                  RunConsensusOnMicroBlockWhenShardBackup, FinishPrep,
                  OnNodeMissingTxns, WaitMissingTxn, MissingTxnTimeout,
                  ProcessSubmitMissingTxn, MicroBlockDone, BackupDone, consensus, fetching,
                  pools
    <2> QED
      BY <1>2, <2>1
  <1>4. ASSUME NEW n \in Nodes, NEW k, RunConsensusOnMicroBlockWhenShardLeader(n, k)
        PROVE  AcceptedInv'
    <2>1. UNCHANGED <<epoch, chain, accepted, stale>>
      BY <1>4 DEF RunConsensusOnMicroBlockWhenShardLeader, FinishPrep
    <2>2. \A e \in DOMAIN micro : micro'[e] = micro[e]
      BY <1>4, LeaderPuts
    <2> QED
      BY <2>1, <2>2, AcceptedFrame DEF AcceptedInv
  <1>5. ASSUME NEW n \in Nodes, NEW k, NEW e, ReprocessConsensus(n, e, k) PROVE AcceptedInv'
    <2>1. /\ UNCHANGED <<epoch, chain, accepted, micro>>
          /\ \A m \in Nodes : stale[m] => stale'[m]
      BY <1>1, <1>5 DEF ReprocessConsensus, TypeNode, fetching
    <2> QED
      BY <2>1, AcceptedFrame DEF AcceptedInv
  <1>6. ASSUME NEW n \in Nodes, MicroBlockValidator(n) PROVE AcceptedInv'
    <2>1. /\ UNCHANGED <<epoch, chain, micro, order>> /\ epoch[n] \in DOMAIN micro
          /\ ~ accepted[n] /\ state[n] = "MICROBLOCK_CONSENSUS"
          /\ handler[n].phase = "none" /\ epoch[n] \notin rerun[n]
      BY <1>6 DEF MicroBlockValidator
    <2>2. CASE UNCHANGED accepted /\ (UNCHANGED stale \/ RevertTemp(n))
      <3>1. \A m \in Nodes : m # n => stale'[m] = stale[m]
        BY <1>1, <2>2 DEF RevertTemp, InitTemp, TypeNode
      <3> QED
        BY <2>1, <2>2, <3>1, AcceptedFrame DEF AcceptedInv
    <2>3. CASE /\ CheckMicroBlockValidity(n, micro[epoch[n]])
               /\ accepted' = [accepted EXCEPT ![n] = TRUE] /\ UNCHANGED stale
      <3>1. \A m \in Nodes : m # n => accepted'[m] = accepted[m]
        BY <1>1, <2>3 DEF TypeNode
      <3>2. \A m \in Nodes : m # n => AcceptedAt(m)'
        BY <2>1, <2>3, <3>1, AcceptedFrame
      <3>3. stop[n] # "none"
        BY <1>1, <2>1 DEF NonceAt, Busy, Waits
      <3>4. PICK b : b = micro[epoch[n]].order
        OBVIOUS
      <3>5. b \in Seq(Txns) /\ ToSet(order[n]) = ToSet(b) /\ order[n] \in Seq(Txns)
        BY <1>1, <2>1, <2>3, <3>4 DEF CheckMicroBlockValidity, MicroInv, TypeTxns
      <3>6. PICK other \in [Senders -> Nat] : From(b, other)
        BY <1>1, <2>1, <3>4 DEF MicroInv
      <3>7. NonceOf(chain, epoch[n]) \in [Senders -> Nat]
        BY <1>1, NonceOfType
      <3>8. ~ stale[n] => From(order[n], NonceOf(chain, epoch[n]))
        BY <1>1, <3>3 DEF SelectedAt
      <3>9. ~ stale[n] => From(b, NonceOf(chain, epoch[n]))
        BY <3>5, <3>6, <3>7, <3>8, FromSame
      <3>10. AcceptedAt(n)'
        BY <2>1, <2>3, <3>4, <3>9 DEF AcceptedAt
      <3> QED
        BY <3>2, <3>10 DEF AcceptedInv
    <2> QED
      BY <1>6, <2>2, <2>3 DEF MicroBlockValidator
  <1>7. ASSUME NEW n \in Nodes, ProcessFinalBlock(n) PROVE AcceptedInv'
    <2>1. /\ \A m \in Nodes : m # n => epoch'[m] = epoch[m]
          /\ \A e \in DOMAIN micro' : micro'[e] = micro[e]
          /\ \A e \in DOMAIN micro : (\E m \in Nodes : epoch'[m] = e) => e \in DOMAIN micro'
      BY <1>7, FinalBlockStep
    <2>2. /\ UNCHANGED chain /\ ~ accepted'[n]
          /\ \A m \in Nodes : m # n => accepted'[m] = accepted[m] /\ stale'[m] = stale[m]
      BY <1>1, <1>7 DEF ProcessFinalBlock, InitTemp, TypeNode
    <2>3. AcceptedAt(n)'
      BY <2>2 DEF AcceptedAt
    <2>4. ASSUME NEW m \in Nodes, m # n PROVE AcceptedAt(m)'
      <3>1. epoch[m] \in DOMAIN micro => micro'[epoch[m]] = micro[epoch[m]]
        BY <2>1, <2>4
      <3> QED
        BY <2>1, <2>2, <2>4, <3>1, AcceptedFrame
    <2> QED
      BY <2>3, <2>4 DEF AcceptedInv
  <1>8. ASSUME MakeFinalBlock PROVE AcceptedInv'
    <2>1. /\ UNCHANGED <<epoch, accepted, stale, micro>>
          /\ \E x : chain' = Append(chain, x)
      BY <1>8 DEF MakeFinalBlock, nodeVars
    <2>2. \A m \in Nodes : NonceOf(chain', epoch[m]) = NonceOf(chain, epoch[m])
      BY <2>1, ChainGrows
    <2>3. \A m \in Nodes : AcceptedAt(m)'
      BY <1>1, <2>1, <2>2 DEF AcceptedAt
    <2> QED
      BY <2>3 DEF AcceptedInv
  <1>9. CASE UNCHANGED vars
    BY <1>2, <1>9 DEF vars, nodeVars
  <1> QED
    BY <1>3, <1>4, <1>5, <1>6, <1>7, <1>8, <1>9 DEF Next

(* Every step keeps what is known of the transactions that are fetched *)

\* The invariant after a step
LEMMA FetchPrimed ==
    ASSUME \A q \in request' : epoch'[q.from] = q.epoch =>
               /\ q.epoch \in DOMAIN micro' /\ Started(q.from)'
               /\ \A t \in ToSet(micro'[q.epoch].order) \ q.txns : Covered(created'[q.from], t),
           \A r \in reply' : epoch'[r.to] = r.epoch =>
               \E q \in request' : q.from = r.to /\ q.epoch = r.epoch,
           \A n \in Nodes : fetched'[n] =>
               /\ epoch'[n] \in DOMAIN micro'
               /\ \A t \in ToSet(micro'[epoch'[n]].order) : Covered(created'[n], t)
    PROVE  FetchInv'
  BY DEF FetchInv, Covered, ToSet, Key, Supersedes

\* A step that asks for nothing and completes no reply.  Only the pool of a node
\* that is still before the consensus of its epoch may be emptied.
LEMMA FetchFrame ==
    ASSUME IInv, UNCHANGED <<epoch, request>>, reply' \subseteq reply,
           \A m \in Nodes : fetched'[m] => fetched[m],
           \A m \in Nodes : Started(m) =>
               /\ Started(m)'
               /\ \A u \in Txns : Covered(created[m], u) => Covered(created'[m], u),
           \A e \in DOMAIN micro : e \in DOMAIN micro' /\ micro'[e] = micro[e]
    PROVE  FetchInv'
  <1>1. FetchInv /\ BeginInv /\ TypeShared
    BY TypeParts DEF IInv
  <1>2. \A e \in DOMAIN micro : ToSet(micro[e].order) \subseteq Txns
    BY MicroTxns
  <1>3. ASSUME NEW q \in request', epoch'[q.from] = q.epoch
        PROVE  /\ q.epoch \in DOMAIN micro' /\ Started(q.from)'
               /\ \A t \in ToSet(micro'[q.epoch].order) \ q.txns : Covered(created'[q.from], t)
    <2>1. PICK m \in Nodes : m = q.from
      BY <1>1 DEF TypeShared
    <2>2. /\ q.epoch \in DOMAIN micro /\ Started(m)
          /\ \A t \in ToSet(micro[q.epoch].order) \ q.txns : Covered(created[m], t)
      BY <1>1, <1>3, <2>1 DEF FetchInv
    <2> QED
      BY <1>2, <2>1, <2>2
  <1>4. ASSUME NEW n \in Nodes, fetched'[n]
        PROVE  /\ epoch'[n] \in DOMAIN micro'
               /\ \A t \in ToSet(micro'[epoch'[n]].order) : Covered(created'[n], t)
    <2>1. /\ fetched[n] /\ Started(n) /\ epoch[n] \in DOMAIN micro
          /\ \A t \in ToSet(micro[epoch[n]].order) : Covered(created[n], t)
      BY <1>1, <1>4 DEF FetchInv, BeginInv
    <2> QED
      BY <1>2, <2>1
  <1> QED
    BY <1>1, <1>3, <1>4, FetchPrimed DEF FetchInv

LEMMA FetchKept ==
    ASSUME IInv, [Next]_vars
    PROVE  FetchInv'
  <1>1. FetchInv /\ BeginInv /\ EpochInv /\ TypeShared /\ TypeNode /\ ShapeInv /\ PoolInv
    BY TypeParts DEF IInv
  <1>2. ASSUME NEW n \in Nodes, NEW p \in Packets, ProcessTxnPacketFromLookup(n, p)
        PROVE  FetchInv'
    <2>1. UNCHANGED <<epoch, request, reply, fetched, begin, micro>>
      BY <1>2 DEF ProcessTxnPacketFromLookup, consensus
    <2>2. PoolsGrow
      BY <1>2, PacketGrow
    <2> QED
      BY <2>1, <2>2, FetchFrame DEF PoolsGrow, Started
  <1>3. ASSUME NEW n \in Nodes, CommitTxnPacketBuffer(n) PROVE FetchInv'
    <2>1. /\ UNCHANGED <<epoch, request, reply, fetched, micro>>
          /\ \A m \in Nodes : begin'[m] \subseteq begin[m]
      BY <1>1, <1>3 DEF CommitTxnPacketBuffer, consensus, TypeNode
    <2>2. PoolsGrow
      BY <1>3, CommitGrow
    <2>3. \A m \in Nodes : Started(m) => Started(m)'
      BY <2>1 DEF Started
    <2> QED
      BY <2>1, <2>2, <2>3, FetchFrame DEF PoolsGrow
  <1>4. ASSUME NEW n \in Nodes, RunConsensusOnMicroBlock(n) PROVE FetchInv'
    <2>1. /\ UNCHANGED <<epoch, request, reply, fetched, micro>> /\ "run" \in begin[n]
          /\ \A m \in Nodes : m # n => begin'[m] = begin[m] /\ created'[m] = created[m]
      BY <1>1, <1>4 DEF RunConsensusOnMicroBlock, CleanCreatedTransaction, consensus, TypeNode,
                        ShapeInv
    <2>2. ~ Started(n) /\ \A m \in Nodes : m # n => (Started(m) => Started(m)')
      BY <2>1 DEF Started
    <2> QED
      BY <2>1, <2>2, FetchFrame
  <1>5. ASSUME NEW n \in Nodes, NEW k,
               \/ RunConsensusOnMicroBlockWhenShardLeader(n, k)
               \/ RunConsensusOnMicroBlockWhenShardBackup(n, k)
        PROVE  FetchInv'
    <2>1. /\ UNCHANGED <<epoch, request, reply, fetched, created>>
          /\ begin' = [begin EXCEPT ![n] = @ \ {"prep"}]
      BY <1>5 DEF RunConsensusOnMicroBlockWhenShardLeader,
                  RunConsensusOnMicroBlockWhenShardBackup, FinishPrep
    <2>2. \A m \in Nodes : Started(m) => Started(m)'
      BY <1>1, <2>1 DEF Started, TypeNode
    <2>3. \A e \in DOMAIN micro : e \in DOMAIN micro' /\ micro'[e] = micro[e]
      BY <1>5, LeaderPuts DEF RunConsensusOnMicroBlockWhenShardBackup
    <2> QED
      BY <2>1, <2>2, <2>3, FetchFrame
  <1>6. ASSUME NEW n \in Nodes,
               \/ \E k \in TimerStops(n) : \E e \in rerun[n] : ReprocessConsensus(n, e, k)
               \/ WaitMissingTxn(n) \/ MissingTxnTimeout(n)
               \/ MicroBlockDone(n) \/ BackupDone(n)
        PROVE  FetchInv'
    <2>1. UNCHANGED <<epoch, request, reply, fetched, created, begin, micro>>
      BY <1>6 DEF ReprocessConsensus, WaitMissingTxn, MissingTxnTimeout, MicroBlockDone,
                  BackupDone, fetching, pools
    <2> QED
      BY <2>1, FetchFrame DEF Started
  <1>7. ASSUME NEW n \in Nodes, MicroBlockValidator(n) PROVE FetchInv'
    <2>1. /\ UNCHANGED <<epoch, reply, fetched, created, begin, micro>>
          /\ state[n] = "MICROBLOCK_CONSENSUS" /\ epoch[n] \in DOMAIN micro
          /\ \/ request' = request
             \/ request' = request \cup {[from |-> n, epoch |-> epoch[n],
                                          txns |-> Missing(n, micro[epoch[n]])]}
      BY <1>7 DEF MicroBlockValidator
    <2>2. CASE request' = request
      BY <2>1, <2>2, FetchFrame DEF Started
    <2>3. CASE request' = request \cup {[from |-> n, epoch |-> epoch[n],
                                         txns |-> Missing(n, micro[epoch[n]])]}
      <3>1. PICK new : /\ request' = request \cup {new} /\ new.from = n /\ new.epoch = epoch[n]
                       /\ new.txns = Missing(n, micro[epoch[n]])
        <4>1. PICK T : T = Missing(n, micro[epoch[n]])
          OBVIOUS
        <4>2. PICK new : new = [from |-> n, epoch |-> epoch[n], txns |-> T]
          OBVIOUS
        <4>3. request' = request \cup {new}
          BY <2>3, <4>1, <4>2
        <4>4. new.from = n /\ new.epoch = epoch[n] /\ new.txns = T
          BY <4>2
        <4> QED
          BY <4>1, <4>3, <4>4
      <3>2. Started(n)
        BY <1>1, <2>1 DEF BeginInv
      <3>3. \A t \in ToSet(micro[epoch[n]].order) \ new.txns : Covered(created[n], t)
        BY <3>1 DEF Missing, Covered
      <3>4. \A q \in request' : epoch[q.from] = q.epoch =>
               /\ q.epoch \in DOMAIN micro /\ Started(q.from)
               /\ \A t \in ToSet(micro[q.epoch].order) \ q.txns : Covered(created[q.from], t)
        BY <1>1, <2>1, <3>1, <3>2, <3>3 DEF FetchInv
      <3>5. \A r \in reply : epoch[r.to] = r.epoch =>
               \E q \in request' : q.from = r.to /\ q.epoch = r.epoch
        BY <1>1, <3>1 DEF FetchInv
      <3>6. \A q \in request' : Started(q.from)' <=> Started(q.from)
        BY <2>1 DEF Started
      <3>7. \A m \in Nodes : fetched[m] =>
               /\ epoch[m] \in DOMAIN micro
               /\ \A t \in ToSet(micro[epoch[m]].order) : Covered(created[m], t)
        BY <1>1 DEF FetchInv
      <3> QED
        BY <2>1, <3>4, <3>5, <3>6, <3>7, FetchPrimed
    <2> QED
      BY <2>1, <2>2, <2>3
  <1>8. ASSUME NEW n \in Nodes, NEW r \in request, OnNodeMissingTxns(n, r) PROVE FetchInv'
    <2>1. PICK x : x = [to |-> r.from, epoch |-> r.epoch, txns |-> r.txns \cap ToSet(order[n])]
      OBVIOUS
    <2>2. /\ UNCHANGED <<epoch, request, fetched, created, begin, micro>>
          /\ reply' = reply \cup {x} /\ x.to = r.from /\ x.epoch = r.epoch
      BY <1>8, <2>1 DEF OnNodeMissingTxns, fetching
    <2>3. \A y \in reply' : epoch[y.to] = y.epoch =>
             \E q \in request : q.from = y.to /\ q.epoch = y.epoch
      BY <1>1, <2>2 DEF FetchInv
    <2>4. \A q \in request : Started(q.from)' <=> Started(q.from)
      BY <2>2 DEF Started
    <2>5. /\ \A q \in request : epoch[q.from] = q.epoch =>
                /\ q.epoch \in DOMAIN micro /\ Started(q.from)
                /\ \A t \in ToSet(micro[q.epoch].order) \ q.txns : Covered(created[q.from], t)
          /\ \A m \in Nodes : fetched[m] =>
                /\ epoch[m] \in DOMAIN micro
                /\ \A t \in ToSet(micro[epoch[m]].order) : Covered(created[m], t)
      BY <1>1 DEF FetchInv
    <2> QED
      BY <2>2, <2>3, <2>4, <2>5, FetchPrimed
  <1>9. ASSUME NEW n \in Nodes, NEW r \in reply, ProcessSubmitMissingTxn(n, r)
        PROVE  FetchInv'
    <2>1. /\ UNCHANGED <<epoch, request, begin, micro>> /\ reply' \subseteq reply /\ r.to = n
      BY <1>9 DEF ProcessSubmitMissingTxn, fetching
    <2>2. /\ PoolsGrow
          /\ state[n] = "MICROBLOCK_CONSENSUS" => \A u \in r.txns : Covered(created'[n], u)
      BY <1>9, SubmitGrow
    <2>3. CASE \A m \in Nodes : fetched'[m] => fetched[m]
      BY <2>1, <2>2, <2>3, FetchFrame DEF PoolsGrow, Started
    <2>4. CASE /\ state[n] = "MICROBLOCK_CONSENSUS" /\ r.epoch = epoch[n]
               /\ \A q \in request : q.from = n /\ q.epoch = r.epoch => q.txns \subseteq r.txns
               /\ \A m \in Nodes : m # n => (fetched'[m] => fetched[m])
      <3>1. PICK q \in request : q.from = n /\ q.epoch = epoch[n]
        BY <1>1, <2>1, <2>4 DEF FetchInv
      <3>2. /\ epoch[n] \in DOMAIN micro /\ q.txns \subseteq r.txns
            /\ \A t \in ToSet(micro[epoch[n]].order) \ q.txns : Covered(created[n], t)
        BY <1>1, <2>4, <3>1 DEF FetchInv
      <3>3. \A e \in DOMAIN micro : ToSet(micro[e].order) \subseteq Txns
        BY MicroTxns
      <3>4. \A t \in ToSet(micro[epoch[n]].order) : Covered(created'[n], t)
        BY <2>2, <2>4, <3>2, <3>3 DEF PoolsGrow
      <3>5. \A m \in Nodes : fetched'[m] =>
               /\ epoch[m] \in DOMAIN micro
               /\ \A t \in ToSet(micro[epoch[m]].order) : Covered(created'[m], t)
        <4> TAKE m \in Nodes
        <4> HAVE fetched'[m]
        <4>1. CASE m = n
          BY <3>2, <3>4, <4>1
        <4>2. CASE m # n
          <5>1. /\ epoch[m] \in DOMAIN micro
                /\ \A t \in ToSet(micro[epoch[m]].order) : Covered(created[m], t)
            BY <1>1, <2>4, <4>2 DEF FetchInv
          <5> QED
            BY <2>2, <3>3, <5>1 DEF PoolsGrow
        <4> QED
          BY <4>1, <4>2
      <3>6. \A x \in request : epoch[x.from] = x.epoch =>
               /\ x.epoch \in DOMAIN micro /\ Started(x.from)
               /\ \A t \in ToSet(micro[x.epoch].order) \ x.txns : Covered(created'[x.from], t)
        <4> TAKE x \in request
        <4> HAVE epoch[x.from] = x.epoch
        <4>1. PICK m \in Nodes : m = x.from
          BY <1>1 DEF TypeShared
        <4>2. /\ x.epoch \in DOMAIN micro /\ Started(m)
              /\ \A t \in ToSet(micro[x.epoch].order) \ x.txns : Covered(created[m], t)
          BY <1>1, <4>1 DEF FetchInv
        <4> QED
          BY <2>2, <3>3, <4>1, <4>2 DEF PoolsGrow
      <3>7. \A x \in request : Started(x.from)' <=> Started(x.from)
        BY <2>1 DEF Started
      <3>8. \A y \in reply' : epoch[y.to] = y.epoch =>
               \E x \in request : x.from = y.to /\ x.epoch = y.epoch
        BY <1>1, <2>1 DEF FetchInv
      <3> QED
        BY <2>1, <3>5, <3>6, <3>7, <3>8, FetchPrimed
    <2>5. CASE /\ state[n] = "MICROBLOCK_CONSENSUS"
               /\ fetched' = [fetched EXCEPT ![n] = @ \/
                     (r.epoch = epoch[n] /\ \A q \in request :
                         q.from = n /\ q.epoch = r.epoch => q.txns \subseteq r.txns)]
      <3>1. \A m \in Nodes : m # n => fetched'[m] = fetched[m]
        BY <1>1, <2>5, Zenon DEF TypeNode
      <3>2. fetched'[n] <=> fetched[n] \/
                     (r.epoch = epoch[n] /\ \A q \in request :
                         q.from = n /\ q.epoch = r.epoch => q.txns \subseteq r.txns)
        BY <1>1, <2>5, Zenon DEF TypeNode
      <3> QED
        BY <2>3, <2>4, <2>5, <3>1, <3>2
    <2> QED
      BY <1>9, <2>3, <2>5 DEF ProcessSubmitMissingTxn
  <1>10. ASSUME NEW n \in Nodes, ProcessFinalBlock(n) PROVE FetchInv'
    <2>1. /\ epoch[n] \in Nat
          /\ \A m \in Nodes : epoch'[m] = IF m = n THEN epoch[n] + 1 ELSE epoch[m]
          /\ \A e \in DOMAIN micro' : micro'[e] = micro[e]
          /\ \A e \in DOMAIN micro : (\E m \in Nodes : epoch'[m] = e) => e \in DOMAIN micro'
          /\ request' \subseteq request
          /\ \A q \in request : (\E m \in Nodes : epoch'[m] = q.epoch) => q \in request'
      BY <1>10, FinalBlockStep
    <2>2. /\ UNCHANGED reply /\ ~ fetched'[n]
          /\ \A m \in Nodes : m # n => /\ fetched'[m] = fetched[m] /\ begin'[m] = begin[m]
                                       /\ created'[m] = created[m]
      BY <1>1, <1>10 DEF ProcessFinalBlock, UpdateProcessedTransactions, TypeNode, ShapeInv
    <2>3. \A m \in Nodes : m # n /\ epoch[m] \in DOMAIN micro =>
             epoch[m] \in DOMAIN micro' /\ micro'[epoch[m]] = micro[epoch[m]]
      BY <2>1
    <2>4. ASSUME NEW q \in request', epoch'[q.from] = q.epoch
          PROVE  /\ q.epoch \in DOMAIN micro' /\ Started(q.from)'
                 /\ \A t \in ToSet(micro'[q.epoch].order) \ q.txns : Covered(created'[q.from], t)
      <3>1. q \in request /\ q \in [from : Nodes, epoch : Epochs, txns : SUBSET Txns]
        BY <1>1, <2>1 DEF TypeShared
      <3>2. PICK m \in Nodes : m = q.from /\ q.epoch \in Nat /\ q.epoch <= epoch[m]
        BY <1>1, <3>1, LeaderFacts DEF EpochInv
      <3>3. m # n /\ epoch[m] = q.epoch
        BY <2>1, <2>4, <3>2
      <3>4. /\ q.epoch \in DOMAIN micro /\ Started(m)
            /\ \A t \in ToSet(micro[q.epoch].order) \ q.txns : Covered(created[m], t)
        BY <1>1, <3>1, <3>2, <3>3 DEF FetchInv
      <3>5. Started(m)'
        BY <2>2, <3>3, <3>4 DEF Started
      <3> QED
        BY <2>2, <2>3, <3>2, <3>3, <3>4, <3>5
    <2>5. ASSUME NEW r \in reply, epoch'[r.to] = r.epoch
          PROVE  \E q \in request' : q.from = r.to /\ q.epoch = r.epoch
      <3>1. r \in [to : Nodes, epoch : Epochs, txns : SUBSET Txns]
        BY <1>1 DEF TypeShared
      <3>2. PICK m \in Nodes : m = r.to /\ r.epoch \in Nat /\ r.epoch <= epoch[m]
        BY <1>1, <3>1, LeaderFacts DEF EpochInv
      <3>3. m # n /\ epoch[m] = r.epoch
        BY <2>1, <2>5, <3>2
      <3>4. PICK q \in request : q.from = m /\ q.epoch = r.epoch
        BY <1>1, <3>2, <3>3 DEF FetchInv
      <3>5. epoch'[m] = q.epoch
        BY <2>5, <3>2, <3>4
      <3> QED
        BY <2>1, <3>2, <3>4, <3>5
    <2>6. ASSUME NEW m \in Nodes, fetched'[m]
          PROVE  /\ epoch'[m] \in DOMAIN micro'
                 /\ \A t \in ToSet(micro'[epoch'[m]].order) : Covered(created'[m], t)
      <3>1. m # n /\ fetched[m]
        BY <2>2, <2>6
      <3>2. /\ epoch[m] \in DOMAIN micro
            /\ \A t \in ToSet(micro[epoch[m]].order) : Covered(created[m], t)
        BY <1>1, <3>1 DEF FetchInv
      <3> QED
        BY <2>1, <2>2, <2>3, <3>1, <3>2
    <2> QED
      BY <2>2, <2>4, <2>5, <2>6, FetchPrimed
  <1>11. CASE MakeFinalBlock \/ UNCHANGED vars
    <2>1. UNCHANGED <<epoch, request, reply, fetched, created, begin, micro>>
      BY <1>11 DEF MakeFinalBlock, vars, nodeVars
    <2> QED
      BY <2>1, FetchFrame DEF Started
  <1> QED
    BY <1>2, <1>3, <1>4, <1>5, <1>6, <1>7, <1>8, <1>9, <1>10, <1>11 DEF Next

------------------------------------------------------------------------------
(* The theorems *)

LEMMA StepInv == IInv /\ [Next]_vars => IInv'
  <1> SUFFICES ASSUME IInv, [Next]_vars PROVE IInv'
    OBVIOUS
  <1>1. TypeOK' /\ ShapeInv' /\ PoolInv' /\ GasOvershootBounded' /\ NothingExecutableLeft'
    BY TypeKept, SelectedPartsKept DEF SelectedParts
  <1>2. EpochInv' /\ BeginInv' /\ MicroKnown' /\ NonceInv'
    BY EpochKept, BeginKept, MicroKnownKept, NonceKept
  <1>3. MicroInv' /\ SelectedInv' /\ AcceptedInv' /\ FetchInv'
    BY MicroKept, SelectedKept, AcceptedKept, FetchKept
  <1> QED
    BY <1>1, <1>2, <1>3 DEF IInv

\* The inductive invariant holds in every state: pools, selections, announced
\* microblocks and fetched transactions fit together, whatever is lost, late or
\* cut off.
THEOREM Invariance == Spec => []IInv
  BY InitInv, StepInv, PTL DEF Spec

\* Every variable keeps its type; in particular a selection that is not cut off
\* ends by itself, and no more selections are cut off than the timers allow.
THEOREM TypeCorrect == Spec => []TypeOK
  <1>1. IInv => TypeOK
    BY DEF IInv
  <1> QED
    BY <1>1, Invariance, PTL

\* The three indexes of both pools of every node agree, after every packet, every
\* selection with its ReinstateMemPool and every UpdateProcessedTransactions.
THEOREM PoolsConsistentHolds == Spec => []PoolsConsistent
  <1>1. IInv => PoolsConsistent
    BY GoodConsistent DEF IInv, PoolInv, PoolsConsistent
  <1> QED
    BY <1>1, Invariance, PTL

\* A microblock passes MICROBLOCK_GAS_LIMIT by its last transaction at most, for
\* every pool and wherever the timer cuts off the selection
\* (ProcessTransactionWhenShardLeader).
THEOREM GasOvershootBoundedHolds == Spec => []GasOvershootBounded
  <1>1. IInv => GasOvershootBounded
    BY DEF IInv
  <1> QED
    BY <1>1, Invariance, PTL

\* A selection that ends because findOne finds nothing has left no transaction that
\* can be executed within the gas limit, except behind an empty entry of the index by
\* gas price, which findOne does not skip.
THEOREM NothingExecutableLeftHolds == Spec => []NothingExecutableLeft
  <1>1. IInv => NothingExecutableLeft
    BY DEF IInv
  <1> QED
    BY <1>1, Invariance, PTL

\* What a node selects carries on from the nonces of the last final block, also when it
\* selects again after it has fetched transactions, unless a thread of an earlier epoch
\* has selected in between.
THEOREM SelectionExecutableHolds == Spec => []SelectionExecutable
  <1>1. IInv => SelectionExecutable
    <2> SUFFICES ASSUME IInv, NEW n \in Nodes, stop[n] # "none", ~ stale[n]
                 PROVE  Executable(order[n], epoch[n])
      BY DEF SelectionExecutable
    <2>1. From(order[n], NonceOf(chain, epoch[n]))
      BY DEF IInv, SelectedInv, SelectedAt
    <2> QED
      BY <2>1, NonceAfterIs, ExecutableFrom
  <1> QED
    BY <1>1, Invariance, PTL

\* A backup whose AccountStoreTemp is clean accepts only a microblock that can be
\* executed, although it compares no more than the order within its tolerance, the gas
\* and what was executed (CheckMicroBlockValidity).
THEOREM AcceptedExecutableHolds == Spec => []AcceptedExecutable
  <1>1. IInv => AcceptedExecutable
    <2> SUFFICES ASSUME IInv, NEW n \in Nodes, accepted[n], ~ stale[n]
                 PROVE  Executable(micro[epoch[n]].order, epoch[n])
      BY DEF AcceptedExecutable
    <2>1. From(micro[epoch[n]].order, NonceOf(chain, epoch[n]))
      BY DEF IInv, AcceptedInv, AcceptedAt
    <2> QED
      BY <2>1, NonceAfterIs, ExecutableFrom
  <1> QED
    BY <1>1, Invariance, PTL

\* Once the leader's reply is in (ProcessSubmitMissingTxn), a backup lacks a transaction
\* of the announcement only if its pool has a better one of that sender and nonce,
\* whatever packets come in meanwhile.
THEOREM FetchedOrSupersededHolds == Spec => []FetchedOrSuperseded
  <1>1. IInv => FetchedOrSuperseded
    <2> SUFFICES ASSUME IInv, NEW n \in Nodes, fetched[n],
                        NEW t \in Missing(n, micro[epoch[n]])
                 PROVE  /\ Key(t) \in DOMAIN created[n].nonce
                        /\ Supersedes(created[n].nonce[Key(t)], t)
      BY DEF FetchedOrSuperseded
    <2>1. t \in ToSet(micro[epoch[n]].order) /\ t \notin created[n].hash
      BY DEF Missing
    <2>2. Covered(created[n], t)
      BY <2>1 DEF IInv, FetchInv
    <2> QED
      BY <2>1, <2>2 DEF Covered
  <1> QED
    BY <1>1, Invariance, PTL

------------------------------------------------------------------------------
(* The nonces of a chain whose final blocks can be executed *)

\* The transactions of the final blocks ch before epoch e
Done(ch, e) == UNION {ToSet(ch[i].txns) : i \in 1 .. e - 1}

\* The transactions of sender s in a set
OfSender(S, s) == {t \in S : Sender[t] = s}

LEMMA CountedGrows ==
    ASSUME NEW txns, NEW i \in Nat \ {0}, NEW j \in Nat, i <= j, NEW s, Sender[txns[i]] = s
    PROVE  Counted(txns, i - 1, s) + 1 <= Counted(txns, j, s)
  <1> DEFINE A == {x \in 1 .. i - 1 : Sender[txns[x]] = s}
             C == {x \in 1 .. j : Sender[txns[x]] = s}
  <1>1. IsFiniteSet(1 .. i - 1) /\ IsFiniteSet(1 .. j)
    BY FS_Interval
  <1>2. A \in SUBSET (1 .. i - 1) /\ C \in SUBSET (1 .. j)
    OBVIOUS
  <1>3. A \cup {i} \in SUBSET C /\ i \notin A
    OBVIOUS
  <1>4. Counted(txns, i - 1, s) = Cardinality(A) /\ Counted(txns, j, s) = Cardinality(C)
    BY DEF Counted
  <1> HIDE DEF A, C
  <1>5. IsFiniteSet(A) /\ IsFiniteSet(C)
    BY <1>1, <1>2, FS_Subset
  <1>6. IsFiniteSet(A \cup {i}) /\ Cardinality(A \cup {i}) = Cardinality(A) + 1
    BY <1>3, <1>5, FS_AddElement
  <1>7. Cardinality(A \cup {i}) <= Cardinality(C)
    BY <1>3, <1>5, FS_Subset
  <1> QED
    BY <1>4, <1>6, <1>7

\* Transactions that carry on from base differ, and use the nonces after it
LEMMA FromFacts ==
    ASSUME NEW txns \in Seq(Txns), NEW base \in [Senders -> Nat], From(txns, base)
    PROVE  /\ \A t \in ToSet(txns) :
                 /\ base[Sender[t]] < Nonce[t]
                 /\ Nonce[t] <= base[Sender[t]] + Counted(txns, Len(txns), Sender[t])
           /\ \A s \in Senders :
                 Counted(txns, Len(txns), s) <= Cardinality(OfSender(ToSet(txns), s))
  <1>1. PICK len \in Nat : /\ len = Len(txns) /\ DOMAIN txns = 1 .. len
                           /\ \A i \in 1 .. len : txns[i] \in Txns
    BY LenProperties, ElementOfSeq
  <1>2. ASSUME NEW t \in ToSet(txns)
        PROVE  /\ base[Sender[t]] < Nonce[t]
               /\ Nonce[t] <= base[Sender[t]] + Counted(txns, len, Sender[t])
    <2>1. PICK i \in 1 .. len : t = txns[i]
      BY <1>1 DEF ToSet
    <2>2. PICK s \in Senders : s = Sender[t] /\ base[s] \in Nat /\ Nonce[t] \in Nat
      <3>1. Sender[t] \in Senders /\ Nonce[t] \in Nat
        BY <1>1, <2>1, TxnFacts
      <3> QED
        BY <3>1
    <2>3. Nonce[t] = base[s] + 1 + Counted(txns, i - 1, s)
      BY <1>1, <2>1, <2>2 DEF From
    <2>4. Counted(txns, i - 1, s) + 1 <= Counted(txns, len, s)
      BY <2>1, <2>2, CountedGrows
    <2>5. Counted(txns, i - 1, s) \in Nat /\ Counted(txns, len, s) \in Nat
      BY CountedType
    <2>6. base[s] < Nonce[t] /\ Nonce[t] <= base[s] + Counted(txns, len, s)
      BY <2>2, <2>3, <2>4, <2>5
    <2> QED
      BY <2>2, <2>6
  <1>3. ASSUME NEW s \in Senders
        PROVE  Counted(txns, len, s) <= Cardinality(OfSender(ToSet(txns), s))
    <2> DEFINE I == {j \in 1 .. len : Sender[txns[j]] = s}
               A == OfSender(ToSet(txns), s)
    <2>1. PICK f : f = [j \in I |-> txns[j]]
      OBVIOUS
    <2>2. f \in [I -> A]
      BY <1>1, <2>1 DEF OfSender, ToSet
    <2>3. ASSUME NEW i \in I, NEW j \in I, i < j PROVE f[i] # f[j]
      <3>1. i \in 1 .. len /\ j \in 1 .. len /\ Sender[txns[i]] = s /\ Sender[txns[j]] = s
        OBVIOUS
      <3>2. /\ Nonce[txns[i]] = base[s] + 1 + Counted(txns, i - 1, s)
            /\ Nonce[txns[j]] = base[s] + 1 + Counted(txns, j - 1, s)
        BY <1>1, <3>1 DEF From
      <3>3. Counted(txns, i - 1, s) + 1 <= Counted(txns, j - 1, s)
        <4>1. i \in Nat \ {0} /\ j - 1 \in Nat /\ i <= j - 1
          BY <2>3, <3>1
        <4> QED
          BY <3>1, <4>1, CountedGrows
      <3>4. /\ Counted(txns, i - 1, s) \in Nat /\ Counted(txns, j - 1, s) \in Nat
            /\ base[s] \in Nat
        BY CountedType
      <3>5. Nonce[txns[i]] # Nonce[txns[j]]
        BY <3>2, <3>3, <3>4
      <3>6. f[i] = txns[i] /\ f[j] = txns[j]
        BY <2>1
      <3> QED
        BY <3>5, <3>6
    <2>4. \A i, j \in I : f[i] = f[j] => i = j
      <3> SUFFICES ASSUME NEW i \in I, NEW j \in I, f[i] = f[j] PROVE i = j
        OBVIOUS
      <3>1. i \in Nat /\ j \in Nat
        OBVIOUS
      <3>2. ~ (i < j) /\ ~ (j < i)
        BY <2>3
      <3> QED
        BY <3>1, <3>2
    <2>5. A \in SUBSET Txns
      BY <1>1 DEF OfSender, ToSet
    <2>6. Counted(txns, len, s) = Cardinality(I)
      BY DEF Counted
    <2> HIDE DEF I, A
    <2>7. IsInjective(f)
      BY <2>2, <2>4 DEF IsInjective
    <2>8. f \in Injection(I, A)
      BY <2>2, <2>7 DEF Injection
    <2>9. IsFiniteSet(A)
      BY <2>5, TxnsFinite
    <2>10. Cardinality(I) <= Cardinality(A)
      BY <2>8, <2>9, FS_Injection
    <2> QED
      BY <2>6, <2>10 DEF A
  <1> QED
    BY <1>1, <1>2, <1>3

LEMMA DoneFacts ==
    ASSUME NEW ch \in Seq([included : BOOLEAN, txns : Seq(Txns)]),
           NEW e \in Nat \ {0}, e <= Len(ch) + 1
    PROVE  /\ Done(ch, e) \in SUBSET Txns
           /\ \A s \in Senders : NonceOf(ch, e)[s] = Cardinality(OfSender(Done(ch, e), s))
           /\ NonceOf(ch, e) \in [Senders -> Nat]
           /\ e <= Len(ch) => /\ ch[e].txns \in Seq(Txns) /\ ToSet(ch[e].txns) \subseteq Txns
                              /\ Done(ch, e + 1) = Done(ch, e) \cup ToSet(ch[e].txns)
  <1>1. ASSUME NEW i \in 1 .. Len(ch)
        PROVE  ch[i].txns \in Seq(Txns) /\ ToSet(ch[i].txns) \subseteq Txns
    <2>1. ch[i] \in [included : BOOLEAN, txns : Seq(Txns)]
      BY ElementOfSeq
    <2>2. PICK x \in Seq(Txns) : x = ch[i].txns
      BY <2>1
    <2>3. \A j \in DOMAIN x : x[j] \in Txns
      BY ElementOfSeq, LenProperties
    <2> QED
      BY <2>2, <2>3 DEF ToSet
  <1>2. PICK len \in Nat : len = Len(ch) /\ e <= len + 1
    BY LenProperties
  <1>3. \A i \in 1 .. e - 1 : i \in 1 .. len
    BY <1>2
  <1>4. Done(ch, e) \in SUBSET Txns
    BY <1>1, <1>2, <1>3 DEF Done
  <1>5. \A s \in Senders : NonceOf(ch, e)[s] = Cardinality(OfSender(Done(ch, e), s))
    BY DEF NonceOf, OfSender, Done
  <1>6. NonceOf(ch, e) \in [Senders -> Nat]
    BY NonceOfFacts
  <1>7. Done(ch, e + 1) = Done(ch, e) \cup ToSet(ch[e].txns)
    <2>1. 1 .. (e + 1) - 1 = (1 .. e - 1) \cup {e}
      OBVIOUS
    <2> QED
      BY <2>1 DEF Done
  <1>8. e <= len => e \in 1 .. len
    BY <1>2
  <1> QED
    BY <1>1, <1>2, <1>4, <1>5, <1>6, <1>7, <1>8

\* The nonces only grow
LEMMA NonceOfGrows ==
    ASSUME NEW ch \in Seq([included : BOOLEAN, txns : Seq(Txns)]),
           NEW e \in Nat \ {0}, e <= Len(ch), NEW s \in Senders
    PROVE  NonceOf(ch, e)[s] <= NonceOf(ch, e + 1)[s]
  <1>1. PICK len \in Nat : len = Len(ch)
    BY LenProperties
  <1>2. /\ e <= Len(ch) + 1 /\ e + 1 \in Nat \ {0} /\ e + 1 <= Len(ch) + 1
    BY <1>1
  <1>3. /\ Done(ch, e + 1) \in SUBSET Txns /\ Done(ch, e) \subseteq Done(ch, e + 1)
        /\ NonceOf(ch, e)[s] = Cardinality(OfSender(Done(ch, e), s))
        /\ NonceOf(ch, e + 1)[s] = Cardinality(OfSender(Done(ch, e + 1), s))
    BY <1>2, DoneFacts
  <1>4. /\ OfSender(Done(ch, e), s) \in SUBSET OfSender(Done(ch, e + 1), s)
        /\ OfSender(Done(ch, e + 1), s) \in SUBSET Txns
    BY <1>3 DEF OfSender
  <1>5. IsFiniteSet(OfSender(Done(ch, e + 1), s))
    BY <1>4, TxnsFinite
  <1> QED
    BY <1>3, <1>4, <1>5, FS_Subset

\* The transactions of the chain before epoch e use the nonces up to NonceOf(ch, e)
Settled(ch, e) == \A t \in Done(ch, e) : Nonce[t] <= NonceOf(ch, e)[Sender[t]]

\* A final block whose transactions carry on from there, in whatever order, adds
\* as many to the nonces as it has transactions
LEMMA NonceNext ==
    ASSUME NEW ch \in Seq([included : BOOLEAN, txns : Seq(Txns)]),
           NEW e \in Nat \ {0}, e <= Len(ch), Settled(ch, e),
           NEW x \in Seq(Txns), From(x, NonceOf(ch, e)), ToSet(x) = ToSet(ch[e].txns),
           NEW s \in Senders
    PROVE  NonceOf(ch, e)[s] + Counted(x, Len(x), s) <= NonceOf(ch, e + 1)[s]
  <1>1. PICK len \in Nat : len = Len(ch)
    BY LenProperties
  <1>2. /\ e <= Len(ch) + 1 /\ e + 1 \in Nat \ {0} /\ e + 1 <= Len(ch) + 1
    BY <1>1
  <1>3. PICK base \in [Senders -> Nat] : base = NonceOf(ch, e)
    BY <1>2, DoneFacts
  <1>4. PICK D, N : D = OfSender(Done(ch, e), s) /\ N = OfSender(ToSet(x), s)
    OBVIOUS
  <1>5. /\ Done(ch, e) \in SUBSET Txns /\ ToSet(x) \subseteq Txns
        /\ Done(ch, e + 1) = Done(ch, e) \cup ToSet(x)
        /\ base[s] = Cardinality(D)
        /\ NonceOf(ch, e + 1)[s] = Cardinality(OfSender(Done(ch, e + 1), s))
    BY <1>2, <1>3, <1>4, DoneFacts
  <1>6. D \in SUBSET Txns /\ N \in SUBSET Txns /\ OfSender(Done(ch, e + 1), s) = D \cup N
    BY <1>4, <1>5 DEF OfSender
  <1>7. From(x, base)
    BY <1>3
  <1>8. /\ \A t \in ToSet(x) : base[Sender[t]] < Nonce[t]
        /\ Counted(x, Len(x), s) <= Cardinality(N)
    BY <1>4, <1>7, FromFacts
  <1>9. D \cap N = {}
    <2> SUFFICES ASSUME NEW t \in D, t \in N PROVE FALSE
      OBVIOUS
    <2>1. t \in Done(ch, e) /\ t \in ToSet(x) /\ t \in Txns
      BY <1>4, <1>6 DEF OfSender
    <2>2. Nonce[t] <= base[Sender[t]] /\ base[Sender[t]] < Nonce[t]
      BY <1>3, <1>8, <2>1 DEF Settled
    <2>3. Sender[t] \in Senders /\ Nonce[t] \in Nat
      BY <2>1, TxnFacts
    <2>4. base[Sender[t]] \in Nat
      BY <2>3
    <2> QED
      BY <2>2, <2>3, <2>4
  <1>10. IsFiniteSet(D) /\ IsFiniteSet(N) /\ Cardinality(D) \in Nat /\ Cardinality(N) \in Nat
    BY <1>6, TxnsFinite
  <1>11. Cardinality(D \cup N) = Cardinality(D) + Cardinality(N) - Cardinality(D \cap N)
    BY <1>10, FS_Union
  <1>12. Cardinality(D \cap N) = 0
    BY <1>9, FS_EmptySet
  <1>13. Counted(x, Len(x), s) \in Nat
    <2>1. Len(x) \in Int
      BY LenProperties
    <2> QED
      BY <2>1, CountedType
  <1>14. NonceOf(ch, e + 1)[s] = Cardinality(D) + Cardinality(N)
    <2>1. Cardinality(D \cup N) = Cardinality(D) + Cardinality(N)
      <3>1. PICK a \in Nat, b \in Nat : a = Cardinality(D) /\ b = Cardinality(N)
        BY <1>10
      <3>2. a + b - 0 = a + b
        OBVIOUS
      <3> QED
        BY <1>11, <1>12, <3>1, <3>2
    <2> QED
      BY <1>5, <1>6, <2>1
  <1>15. PICK a \in Nat, b \in Nat, c \in Nat :
            a = Cardinality(D) /\ b = Cardinality(N) /\ c = Counted(x, Len(x), s)
    BY <1>10, <1>13
  <1>16. a + c <= a + b
    BY <1>8, <1>15
  <1> QED
    BY <1>3, <1>5, <1>14, <1>15, <1>16

LEMMA ChainSettled ==
    ASSUME NEW ch \in Seq([included : BOOLEAN, txns : Seq(Txns)]),
           \A e \in DOMAIN ch : From(ch[e].txns, NonceOf(ch, e)),
           NEW e \in Nat \ {0}, e <= Len(ch) + 1
    PROVE  Settled(ch, e)
  <1>1. PICK len \in Nat : len = Len(ch) /\ DOMAIN ch = 1 .. len
    BY LenProperties
  <1> DEFINE B == {k \in 0 .. len : Settled(ch, k + 1)}
  <1>2. 0 \in B
    <2>1. Done(ch, 1) = {}
      BY DEF Done
    <2>2. Settled(ch, 0 + 1)
      BY <2>1 DEF Settled
    <2> QED
      BY <2>2
  <1>3. ASSUME NEW k \in 0 .. len, k < len, Settled(ch, k + 1) PROVE Settled(ch, k + 2)
    <2>1. PICK d \in 1 .. len : d = k + 1 /\ d + 1 = k + 2
      BY <1>3
    <2>2. /\ d \in Nat \ {0} /\ d <= Len(ch) /\ d <= Len(ch) + 1 /\ Settled(ch, d)
          /\ d + 1 \in Nat \ {0} /\ d + 1 <= Len(ch) + 1
      BY <1>1, <1>3, <2>1
    <2>3. PICK x \in Seq(Txns) : x = ch[d].txns /\ ToSet(x) \subseteq Txns
      BY <2>2, DoneFacts
    <2>4. PICK old \in [Senders -> Nat] : old = NonceOf(ch, d)
      BY <2>2, DoneFacts
    <2>5. PICK new \in [Senders -> Nat] : new = NonceOf(ch, d + 1)
      BY <2>2, DoneFacts
    <2>6. Done(ch, d + 1) = Done(ch, d) \cup ToSet(x) /\ Done(ch, d) \subseteq Txns
      BY <2>2, <2>3, DoneFacts
    <2>7. From(x, old)
      BY <1>1, <2>3, <2>4
    <2>8. ASSUME NEW t \in Done(ch, d + 1) PROVE Nonce[t] <= new[Sender[t]]
      <3>1. t \in Txns
        BY <2>3, <2>6, <2>8
      <3>2. PICK s \in Senders : s = Sender[t]
        BY <3>1, TxnFacts
      <3>3. Nonce[t] \in Nat /\ old[s] \in Nat /\ new[s] \in Nat
        BY <3>1, TxnFacts
      <3>4. CASE t \in Done(ch, d)
        <4>1. Nonce[t] <= old[s]
          BY <2>2, <2>4, <3>2, <3>4 DEF Settled
        <4>2. old[s] <= new[s]
          BY <2>2, <2>4, <2>5, NonceOfGrows
        <4> QED
          BY <3>2, <3>3, <4>1, <4>2
      <3>5. CASE t \in ToSet(x)
        <4>1. Nonce[t] <= old[s] + Counted(x, Len(x), s)
          BY <2>7, <3>2, <3>5, FromFacts
        <4>2. old[s] + Counted(x, Len(x), s) <= new[s]
          <5>1. From(x, NonceOf(ch, d)) /\ ToSet(x) = ToSet(ch[d].txns)
            BY <2>3, <2>4, <2>7
          <5> QED
            BY <2>2, <2>4, <2>5, <5>1, NonceNext
        <4>3. Counted(x, Len(x), s) \in Nat
          <5>1. Len(x) \in Int
            BY LenProperties
          <5> QED
            BY <5>1, CountedType
        <4> QED
          BY <3>2, <3>3, <4>1, <4>2, <4>3
      <3> QED
        BY <2>6, <2>8, <3>4, <3>5
    <2>9. Settled(ch, d + 1)
      BY <2>5, <2>8 DEF Settled
    <2> QED
      BY <2>1, <2>9
  <1>4. \A k \in 0 .. len : k \in B
    <2>1. \A k \in 0 .. len : k < len /\ k \in B => k + 1 \in B
      <3> SUFFICES ASSUME NEW k \in 0 .. len, k < len, k \in B PROVE k + 1 \in B
        OBVIOUS
      <3>1. Settled(ch, k + 2) /\ k + 2 = (k + 1) + 1 /\ k + 1 \in 0 .. len
        BY <1>3
      <3> QED
        BY <3>1
    <2> HIDE DEF B
    <2> QED
      BY <1>2, <2>1, Stepwise
  <1>5. e - 1 \in 0 .. len /\ (e - 1) + 1 = e
    BY <1>1
  <1>6. e - 1 \in B
    BY <1>4, <1>5
  <1> QED
    BY <1>5, <1>6

(* Transactions are kept: the second inductive invariant *)

\* What the selection of this epoch took from the pool and did not put back has
\* failed or has its nonce used up by the selected transactions
LeftAt(n) ==
    stop[n] # "none" /\ ~ stale[n] =>
        /\ \A s \in Senders : nonceTemp[n][s] = NonceOf(chain, epoch[n])[s] +
                                                Counted(order[n], Len(order[n]), s)
        /\ \A t \in copied[n] : \/ t \in temp[n].hash \/ ~ Valid[t]
                                \/ Nonce[t] <= nonceTemp[n][Sender[t]]

\* The node stands for the microblock of its epoch: it has accepted it, or has
\* announced it
Relies(n) ==
    \/ accepted[n]
    \/ n = Leader[epoch[n]] /\ (cosig[n] \/ state[n] = "MICROBLOCK_CONSENSUS")

\* Such a node has selected the transactions of the microblock itself
RelyAt(n) ==
    /\ cosig[n] => Relies(n)
    /\ Relies(n) /\ ~ stale[n] =>
          /\ stop[n] # "none" /\ epoch[n] \in DOMAIN micro
          /\ ToSet(order[n]) = ToSet(micro[epoch[n]].order)

\* The final block that a node has yet to process has the shard's microblock
LinkAt(n) ==
    /\ Len(chain) <= epoch[n]
    /\ epoch[n] <= Len(chain) /\ chain[epoch[n]].included =>
          /\ epoch[n] \in DOMAIN micro
          /\ chain[epoch[n]].txns = micro[epoch[n]].order

\* What the pool of one node has taken and no longer has
TxnsAt(n) ==
    \A t \in known[n] \ (created[n].hash \cup lost[n]) :
        \/ ~ Valid[t]
        \/ Nonce[t] <= NonceOf(chain, epoch[n])[Sender[t]]
        \/ \E u \in known[n] : Key(u) = Key(t) /\ Supersedes(u, t)

ChainExecutable(ch) == \A e \in DOMAIN ch : From(ch[e].txns, NonceOf(ch, e))

LeftInv == \A n \in Nodes : LeftAt(n)
RelyInv == \A n \in Nodes : RelyAt(n)
LinkInv == \A n \in Nodes : LinkAt(n)
TxnsInv == ChainExecutable(chain) => \A n \in Nodes : TxnsAt(n)

KeptInv == LeftInv /\ RelyInv /\ LinkInv /\ TxnsInv

LEMMA TxnsKeptIs == TxnsInv <=> TxnsKept
  <1>1. ChainExecutable(chain) <=> \A e \in DOMAIN chain : Executable(chain[e].txns, e)
    BY ExecutableFrom, NonceAfterIs DEF ChainExecutable
  <1>2. \A n \in Nodes : NonceAfter(epoch[n]) = NonceOf(chain, epoch[n])
    BY NonceAfterIs
  <1> QED
    BY <1>1, <1>2 DEF TxnsInv, TxnsKept, TxnsAt

LEMMA InitKept == Init => KeptInv
  <1> SUFFICES ASSUME Init PROVE KeptInv
    OBVIOUS
  <1>1. chain = <<>> /\ Len(chain) = 0
    BY EmptySeq DEF Init
  <1>2. ASSUME NEW n \in Nodes
        PROVE  /\ epoch[n] = 1 /\ state[n] = "MICROBLOCK_CONSENSUS_PREP" /\ stop[n] = "none"
               /\ ~ accepted[n] /\ ~ cosig[n] /\ known[n] = {}
    BY DEF Init
  <1>3. LeftInv /\ RelyInv /\ TxnsInv
    BY <1>2 DEF LeftInv, LeftAt, RelyInv, RelyAt, Relies, TxnsInv, TxnsAt
  <1>4. LinkInv
    BY <1>1, <1>2 DEF LinkInv, LinkAt
  <1> QED
    BY <1>3, <1>4 DEF KeptInv

(* Every step keeps what the selections left *)

LEMMA LeftFrame ==
    ASSUME NEW m \in Nodes, LeftAt(m), UNCHANGED <<epoch[m], chain, stop[m], stale[m]>>,
           UNCHANGED <<order[m], nonceTemp[m], copied[m], temp[m]>>
    PROVE  LeftAt(m)'
  BY DEF LeftAt

LEMMA LeftKept ==
    ASSUME IInv, LeftInv, [Next]_vars
    PROVE  LeftInv'
  <1>1. /\ TypeNode /\ TypeTxns /\ ShapeInv /\ TypeShared
        /\ \A n \in Nodes : NonceAt(n) /\ LeftAt(n)
    BY TypeParts DEF NonceInv, IInv, LeftInv, LeftAt
  <1>2. CASE UNCHANGED <<epoch, chain, stop, stale, order, nonceTemp, copied, temp>>
    BY <1>1, <1>2, LeftFrame DEF LeftInv
  <1>3. ASSUME NEW n \in Nodes,
               \/ \E p \in Packets : ProcessTxnPacketFromLookup(n, p)
               \/ CommitTxnPacketBuffer(n)
               \/ \E r \in request : OnNodeMissingTxns(n, r)
               \/ WaitMissingTxn(n) \/ MissingTxnTimeout(n)
               \/ \E r \in reply : ProcessSubmitMissingTxn(n, r)
               \/ MicroBlockDone(n) \/ BackupDone(n)
        PROVE  LeftInv'
    <2>1. UNCHANGED <<epoch, chain, stop, stale, order, nonceTemp, copied, temp>>
      BY <1>3 DEF ProcessTxnPacketFromLookup, CommitTxnPacketBuffer,
                  OnNodeMissingTxns, WaitMissingTxn, MissingTxnTimeout,
                  ProcessSubmitMissingTxn, MicroBlockDone, BackupDone, consensus, fetching,
                  selection, pools
    <2> QED
      BY <1>2, <2>1
  <1>4. ASSUME NEW n \in Nodes, RunConsensusOnMicroBlock(n) PROVE LeftInv'
    <2>1. /\ UNCHANGED <<epoch, chain, stop, stale, nonceTemp, copied>> /\ ~ Started(n)
          /\ order' = order \/ order' = [order EXCEPT ![n] = <<>>]
          /\ temp' = temp \/ temp' = [temp EXCEPT ![n] = EmptyPool]
      BY <1>4 DEF RunConsensusOnMicroBlock, CleanCreatedTransaction, consensus, Started
    <2>2. \A m \in Nodes : m # n => order'[m] = order[m] /\ temp'[m] = temp[m]
      BY <1>1, <2>1 DEF ShapeInv
    <2>3. LeftAt(n)'
      <3>1. ~ stale[n] => stop[n] = "none"
        BY <1>1, <2>1 DEF NonceAt
      <3> QED
        BY <2>1, <3>1 DEF LeftAt
    <2>4. \A m \in Nodes : m # n => LeftAt(m)'
      BY <1>1, <2>1, <2>2, LeftFrame
    <2> QED
      BY <2>3, <2>4 DEF LeftInv
  <1>5. ASSUME NEW n \in Nodes, NEW st, Selected(n, st), UNCHANGED <<epoch, chain>>,
               ~ stale'[n] => stop[n] = "none" /\ ~ stale[n],
               \A m \in Nodes : m # n => stale'[m] = stale[m]
        PROVE  LeftInv'
    <2>1. /\ order'[n] = st.order /\ nonceTemp'[n] = st.nonce
          /\ temp'[n] = ReinstateMemPool(st) /\ copied'[n] = created[n].hash
          /\ KeptOutcome(created[n].hash, nonceTemp[n], st)
      BY <1>1, <1>5 DEF Selected, ShapeInv, TypeTxns
    <2>2. \A m \in Nodes : m # n =>
             /\ order'[m] = order[m] /\ stop'[m] = stop[m] /\ nonceTemp'[m] = nonceTemp[m]
             /\ copied'[m] = copied[m] /\ temp'[m] = temp[m]
      BY <1>1, <1>5 DEF Selected, ShapeInv, TypeNode, TypeTxns
    <2>3. LeftAt(n)'
      <3>1. ~ stale'[n] => nonceTemp[n] = NonceOf(chain, epoch[n])
        BY <1>1, <1>5 DEF NonceAt
      <3> QED
        BY <1>5, <2>1, <3>1 DEF LeftAt, KeptOutcome
    <2>4. \A m \in Nodes : m # n => LeftAt(m)'
      BY <1>1, <1>5, <2>2, LeftFrame
    <2> QED
      BY <2>3, <2>4 DEF LeftInv
  <1>6. ASSUME NEW n \in Nodes, NEW k \in TimerStops(n), FinishPrep(n, k) PROVE LeftInv'
    <2>1. PICK st : Selected(n, st)
      BY <1>6, SelectedStep DEF FinishPrep
    <2>2. UNCHANGED <<epoch, chain, stale>> /\ ~ Started(n)
      BY <1>6 DEF FinishPrep, Started
    <2>3. ~ stale'[n] => stop[n] = "none" /\ ~ stale[n]
      BY <1>1, <2>2 DEF NonceAt
    <2> QED
      BY <1>5, <2>1, <2>2, <2>3
  <1>7. ASSUME NEW n \in Nodes, NEW k \in TimerStops(n), NEW e \in rerun[n],
               ReprocessConsensus(n, e, k)
        PROVE  LeftInv'
    <2>1. PICK st : Selected(n, st)
      BY <1>7, SelectedStep DEF ReprocessConsensus
    <2>2. /\ UNCHANGED <<epoch, chain>>
          /\ stale'[n] <=> stale[n] \/ e # epoch[n]
          /\ \A m \in Nodes : m # n => stale'[m] = stale[m]
      BY <1>1, <1>7 DEF ReprocessConsensus, TypeNode, fetching
    <2>3. ~ stale'[n] => stop[n] = "none" /\ ~ stale[n]
      BY <1>1, <2>2 DEF NonceAt, Busy
    <2> QED
      BY <1>5, <2>1, <2>2, <2>3
  <1>8. ASSUME NEW n \in Nodes, MicroBlockValidator(n) PROVE LeftInv'
    <2>1. /\ UNCHANGED <<epoch, chain, order, copied, temp>>
          /\ UNCHANGED <<stop, stale, nonceTemp>> \/ RevertTemp(n)
      BY <1>8 DEF MicroBlockValidator
    <2>2. CASE RevertTemp(n)
      <3>1. /\ stop'[n] = "none"
            /\ \A m \in Nodes : m # n => /\ stop'[m] = stop[m] /\ stale'[m] = stale[m]
                                         /\ nonceTemp'[m] = nonceTemp[m]
        BY <1>1, <2>2 DEF RevertTemp, InitTemp, TypeNode, TypeTxns
      <3>2. LeftAt(n)'
        BY <3>1 DEF LeftAt
      <3>3. \A m \in Nodes : m # n => LeftAt(m)'
        BY <1>1, <2>1, <3>1, LeftFrame
      <3> QED
        BY <3>2, <3>3 DEF LeftInv
    <2> QED
      BY <1>2, <2>1, <2>2
  <1>9. ASSUME NEW n \in Nodes, ProcessFinalBlock(n) PROVE LeftInv'
    <2>1. \A m \in Nodes : m # n => epoch'[m] = epoch[m]
      BY <1>9, FinalBlockStep
    <2>2. UNCHANGED chain /\ stop'[n] = "none"
      BY <1>1, <1>9 DEF ProcessFinalBlock, InitTemp, TypeNode
    <2>3. \A m \in Nodes : m # n =>
             /\ stop'[m] = stop[m] /\ stale'[m] = stale[m] /\ order'[m] = order[m]
             /\ nonceTemp'[m] = nonceTemp[m] /\ copied'[m] = copied[m] /\ temp'[m] = temp[m]
      BY <1>1, <1>9 DEF ProcessFinalBlock, InitTemp, TypeNode, TypeTxns, ShapeInv
    <2>4. LeftAt(n)'
      BY <2>2 DEF LeftAt
    <2>5. \A m \in Nodes : m # n => LeftAt(m)'
      BY <1>1, <2>1, <2>2, <2>3, LeftFrame
    <2> QED
      BY <2>4, <2>5 DEF LeftInv
  <1>10. ASSUME MakeFinalBlock PROVE LeftInv'
    <2>1. /\ UNCHANGED <<epoch, stop, stale, order, nonceTemp, copied, temp>>
          /\ \E x : chain' = Append(chain, x)
      BY <1>10 DEF MakeFinalBlock, nodeVars
    <2>2. \A m \in Nodes : NonceOf(chain', epoch[m]) = NonceOf(chain, epoch[m])
      BY <2>1, ChainGrows
    <2>3. \A m \in Nodes : LeftAt(m)'
      BY <1>1, <2>1, <2>2 DEF LeftAt
    <2> QED
      BY <2>3 DEF LeftInv
  <1>11. CASE UNCHANGED vars
    BY <1>2, <1>11 DEF vars, nodeVars
  <1> QED
    BY <1>3, <1>4, <1>6, <1>7, <1>8, <1>9, <1>10, <1>11
       DEF Next, RunConsensusOnMicroBlockWhenShardLeader, RunConsensusOnMicroBlockWhenShardBackup

(* Every step keeps what a node stands for *)

LEMMA RelyFrame ==
    ASSUME NEW m \in Nodes, RelyAt(m),
           UNCHANGED <<epoch[m], stop[m], stale[m], order[m], accepted[m]>>,
           cosig'[m] => Relies(m), state'[m] = "MICROBLOCK_CONSENSUS" => state[m] = state'[m],
           epoch[m] \in DOMAIN micro =>
               epoch[m] \in DOMAIN micro' /\ micro'[epoch[m]] = micro[epoch[m]]
    PROVE  RelyAt(m)'
  <1>1. cosig'[m] => Relies(m)'
    BY DEF Relies
  <1>2. Relies(m)' => Relies(m)
    BY DEF Relies
  <1> QED
    BY <1>1, <1>2 DEF RelyAt

LEMMA RelyKept ==
    ASSUME IInv, RelyInv, [Next]_vars
    PROVE  RelyInv'
  <1>1. /\ TypeNode /\ TypeTxns /\ ShapeInv /\ TypeShared /\ BeginInv /\ MicroInv /\ MicroKnown
        /\ \A n \in Nodes : NonceAt(n) /\ RelyAt(n)
    BY TypeParts DEF NonceInv, IInv, RelyInv, RelyAt
  <1>2. \A n \in Nodes : cosig[n] => Relies(n)
    BY <1>1 DEF RelyAt
  <1>3. CASE UNCHANGED <<epoch, stop, stale, order, accepted, cosig, state, micro>>
    BY <1>1, <1>2, <1>3, RelyFrame DEF RelyInv
  <1>4. ASSUME NEW n \in Nodes,
               \/ \E p \in Packets : ProcessTxnPacketFromLookup(n, p)
               \/ CommitTxnPacketBuffer(n)
               \/ \E r \in request : OnNodeMissingTxns(n, r)
               \/ WaitMissingTxn(n)
               \/ \E r \in reply : ProcessSubmitMissingTxn(n, r)
        PROVE  RelyInv'
    <2>1. UNCHANGED <<epoch, stop, stale, order, accepted, cosig, state, micro>>
      BY <1>4 DEF ProcessTxnPacketFromLookup, CommitTxnPacketBuffer,
                  OnNodeMissingTxns, WaitMissingTxn,
                  ProcessSubmitMissingTxn, consensus, fetching, selection
    <2> QED
      BY <1>3, <2>1
  <1>5. ASSUME NEW n \in Nodes, MissingTxnTimeout(n) \/ MicroBlockDone(n) \/ BackupDone(n)
        PROVE  RelyInv'
    <2>1. /\ UNCHANGED <<epoch, stop, stale, order, accepted, micro>>
          /\ state' = [state EXCEPT ![n] = "WAITING_FINALBLOCK"]
          /\ \/ cosig' = cosig
             \/ cosig' = [cosig EXCEPT ![n] = TRUE] /\ Relies(n)
      BY <1>5 DEF MissingTxnTimeout, MicroBlockDone, BackupDone, fetching, selection, pools,
                  Relies
    <2>2. ASSUME NEW m \in Nodes
          PROVE  /\ cosig'[m] => Relies(m)
                 /\ state'[m] = "MICROBLOCK_CONSENSUS" => state[m] = state'[m]
      BY <1>1, <1>2, <2>1 DEF TypeNode
    <2> QED
      BY <1>1, <2>1, <2>2, RelyFrame DEF RelyInv
  <1>6. ASSUME NEW n \in Nodes, RunConsensusOnMicroBlock(n) PROVE RelyInv'
    <2>1. /\ UNCHANGED <<epoch, stop, stale, accepted, cosig, micro>> /\ ~ Started(n)
          /\ order' = order \/ order' = [order EXCEPT ![n] = <<>>]
          /\ state' = [state EXCEPT ![n] = "MICROBLOCK_CONSENSUS_PREP"]
      BY <1>6 DEF RunConsensusOnMicroBlock, CleanCreatedTransaction, consensus, Started
    <2>2. \A m \in Nodes : m # n => order'[m] = order[m] /\ state'[m] = state[m]
      BY <1>1, <2>1 DEF ShapeInv, TypeNode
    <2>3. \A m \in Nodes : m # n => RelyAt(m)'
      BY <1>1, <1>2, <2>1, <2>2, RelyFrame
    <2>4. RelyAt(n)'
      <3>1. ~ stale[n] => stop[n] = "none"
        BY <1>1, <2>1 DEF NonceAt
      <3>2. ~ stale[n] => ~ Relies(n)
        BY <1>1, <3>1 DEF RelyAt
      <3>3. state'[n] # "MICROBLOCK_CONSENSUS"
        BY <1>1, <2>1 DEF TypeNode
      <3>4. Relies(n)' => Relies(n)
        BY <2>1, <3>3 DEF Relies
      <3>5. cosig'[n] => Relies(n)'
        BY <1>2, <2>1 DEF Relies
      <3> QED
        BY <2>1, <3>2, <3>4, <3>5 DEF RelyAt
    <2> QED
      BY <2>3, <2>4 DEF RelyInv
  <1>7. ASSUME NEW n \in Nodes, NEW k \in TimerStops(n), FinishPrep(n, k),
               \/ n # Leader[epoch[n]] /\ micro' = micro
               \/ /\ n = Leader[epoch[n]] /\ epoch[n] \in DOMAIN micro'
                  /\ micro'[epoch[n]].order = order'[n]
                  /\ \A e \in DOMAIN micro : e \in DOMAIN micro' /\ micro'[e] = micro[e]
        PROVE  RelyInv'
    <2>1. PICK st : Selected(n, st)
      BY <1>7, SelectedStep DEF FinishPrep
    <2>2. /\ UNCHANGED <<epoch, stale, accepted, cosig>> /\ ~ Started(n)
          /\ state' = [state EXCEPT ![n] = "MICROBLOCK_CONSENSUS"]
      BY <1>7 DEF FinishPrep, Started
    <2>3. /\ stop'[n] # "none"
          /\ \A m \in Nodes : m # n => /\ order'[m] = order[m] /\ stop'[m] = stop[m]
                                       /\ state'[m] = state[m]
      BY <1>1, <2>1, <2>2 DEF Selected, Outcome, ShapeInv, TypeNode
    <2>4. ASSUME NEW m \in Nodes, m # n PROVE RelyAt(m)'
      BY <1>1, <1>2, <1>7, <2>2, <2>3, <2>4, RelyFrame
    <2>5. RelyAt(n)'
      <3>1. cosig'[n] => Relies(n)'
        BY <1>2, <2>2 DEF Relies
      <3>2. CASE n = Leader[epoch[n]]
        BY <1>7, <2>2, <2>3, <3>1, <3>2 DEF RelyAt
      <3>3. CASE n # Leader[epoch[n]]
        <4>1. ~ stale[n] => stop[n] = "none"
          BY <1>1, <2>2 DEF NonceAt
        <4>2. ~ stale[n] => ~ Relies(n)
          BY <1>1, <4>1 DEF RelyAt
        <4>3. Relies(n)' => Relies(n)
          BY <2>2, <3>3 DEF Relies
        <4> QED
          BY <2>2, <3>1, <4>2, <4>3 DEF RelyAt
      <3> QED
        BY <3>2, <3>3
    <2> QED
      BY <2>4, <2>5 DEF RelyInv
  <1>8. ASSUME NEW n \in Nodes, NEW k \in TimerStops(n),
               RunConsensusOnMicroBlockWhenShardLeader(n, k)
        PROVE  RelyInv'
    <2>1. /\ DOMAIN micro' = DOMAIN micro \cup {epoch[n]}
          /\ \A e \in DOMAIN micro : micro'[e] = micro[e]
          /\ micro'[epoch[n]].order = order'[n]
      BY <1>8, LeaderPuts
    <2>2. n = Leader[epoch[n]] /\ FinishPrep(n, k)
      BY <1>8 DEF RunConsensusOnMicroBlockWhenShardLeader
    <2> QED
      BY <1>7, <2>1, <2>2
  <1>9. ASSUME NEW n \in Nodes, NEW k \in TimerStops(n),
               RunConsensusOnMicroBlockWhenShardBackup(n, k)
        PROVE  RelyInv'
    BY <1>7, <1>9 DEF RunConsensusOnMicroBlockWhenShardBackup
  <1>10. ASSUME NEW n \in Nodes, NEW k \in TimerStops(n), NEW e \in rerun[n],
                ReprocessConsensus(n, e, k)
         PROVE  RelyInv'
    <2>1. PICK st : Selected(n, st)
      BY <1>10, SelectedStep DEF ReprocessConsensus
    <2>2. /\ UNCHANGED <<epoch, accepted, cosig, state, micro>>
          /\ stale'[n] <=> stale[n] \/ e # epoch[n]
          /\ \A m \in Nodes : m # n => stale'[m] = stale[m]
      BY <1>1, <1>10 DEF ReprocessConsensus, TypeNode, fetching
    <2>3. \A m \in Nodes : m # n => order'[m] = order[m] /\ stop'[m] = stop[m]
      BY <1>1, <2>1 DEF Selected, ShapeInv, TypeNode
    <2>4. \A m \in Nodes : m # n => RelyAt(m)'
      BY <1>1, <1>2, <2>2, <2>3, RelyFrame
    <2>5. RelyAt(n)'
      <3>1. ~ stale'[n] => stop[n] = "none" /\ ~ stale[n]
        BY <1>1, <2>2 DEF NonceAt, Busy
      <3>2. ~ stale'[n] => ~ Relies(n)
        BY <1>1, <3>1 DEF RelyAt
      <3>3. Relies(n)' <=> Relies(n)
        BY <2>2 DEF Relies
      <3> QED
        BY <1>2, <2>2, <3>2, <3>3 DEF RelyAt
    <2> QED
      BY <2>4, <2>5 DEF RelyInv
  <1>11. ASSUME NEW n \in Nodes, MicroBlockValidator(n) PROVE RelyInv'
    <2>1. /\ UNCHANGED <<epoch, cosig, micro, order>> /\ epoch[n] \in DOMAIN micro
          /\ ~ accepted[n] /\ state[n] = "MICROBLOCK_CONSENSUS" /\ n # Leader[epoch[n]]
          /\ handler[n].phase = "none" /\ epoch[n] \notin rerun[n]
      BY <1>11 DEF MicroBlockValidator
    <2>2. ~ Relies(n) /\ ~ cosig[n]
      BY <1>2, <2>1 DEF Relies
    <2>3. CASE RevertTemp(n) /\ UNCHANGED <<accepted, state>>
      <3>1. \A m \in Nodes : m # n => stop'[m] = stop[m] /\ stale'[m] = stale[m]
        BY <1>1, <2>3 DEF RevertTemp, InitTemp, TypeNode
      <3>2. \A m \in Nodes : m # n => RelyAt(m)'
        BY <1>1, <1>2, <2>1, <2>3, <3>1, RelyFrame
      <3>3. ~ Relies(n)' /\ ~ cosig'[n]
        BY <2>1, <2>2, <2>3 DEF Relies
      <3>4. RelyAt(n)'
        BY <3>3 DEF RelyAt
      <3> QED
        BY <3>2, <3>4 DEF RelyInv
    <2>4. CASE /\ CheckMicroBlockValidity(n, micro[epoch[n]])
               /\ accepted' = [accepted EXCEPT ![n] = TRUE] /\ UNCHANGED <<stop, stale, state>>
      <3>1. accepted'[n] /\ \A m \in Nodes : m # n => accepted'[m] = accepted[m]
        BY <1>1, <2>4 DEF TypeNode
      <3>2. \A m \in Nodes : m # n => RelyAt(m)'
        BY <1>1, <1>2, <2>1, <2>4, <3>1, RelyFrame
      <3>3. stop[n] # "none"
        BY <1>1, <2>1 DEF NonceAt, Busy, Waits
      <3>4. ToSet(order[n]) = ToSet(micro[epoch[n]].order)
        BY <1>1, <2>1, <2>4 DEF CheckMicroBlockValidity, MicroInv
      <3>5. RelyAt(n)'
        BY <2>1, <2>2, <2>4, <3>3, <3>4 DEF RelyAt
      <3> QED
        BY <3>2, <3>5 DEF RelyInv
    <2>5. CASE /\ state' = [state EXCEPT ![n] = "WAITING_FINALBLOCK"]
               /\ UNCHANGED <<stop, stale, accepted>>
      <3>1. \A m \in Nodes : state'[m] = "MICROBLOCK_CONSENSUS" => state[m] = state'[m]
        BY <1>1, <2>5 DEF TypeNode
      <3> QED
        BY <1>1, <1>2, <2>1, <2>5, <3>1, RelyFrame DEF RelyInv
    <2> QED
      BY <1>11, <2>3, <2>4, <2>5 DEF MicroBlockValidator
  <1>12. ASSUME NEW n \in Nodes, ProcessFinalBlock(n) PROVE RelyInv'
    <2>1. /\ \A m \in Nodes : m # n => epoch'[m] = epoch[m]
          /\ \A e \in DOMAIN micro' : micro'[e] = micro[e]
          /\ \A e \in DOMAIN micro : (\E m \in Nodes : epoch'[m] = e) => e \in DOMAIN micro'
      BY <1>12, FinalBlockStep
    <2>2. ~ accepted'[n] /\ ~ cosig'[n] /\ state'[n] = "WAITING_FINALBLOCK"
      BY <1>1, <1>12 DEF ProcessFinalBlock, TypeNode
    <2>3. \A m \in Nodes : m # n =>
             /\ accepted'[m] = accepted[m] /\ stale'[m] = stale[m] /\ cosig'[m] = cosig[m]
             /\ state'[m] = state[m] /\ stop'[m] = stop[m] /\ order'[m] = order[m]
      BY <1>1, <1>12 DEF ProcessFinalBlock, InitTemp, TypeNode, ShapeInv
    <2>4. RelyAt(n)'
      BY <2>2 DEF RelyAt, Relies
    <2>5. ASSUME NEW m \in Nodes, m # n PROVE RelyAt(m)'
      <3>1. epoch[m] \in DOMAIN micro =>
               epoch[m] \in DOMAIN micro' /\ micro'[epoch[m]] = micro[epoch[m]]
        BY <2>1, <2>5
      <3> QED
        BY <1>1, <1>2, <2>1, <2>3, <2>5, <3>1, RelyFrame
    <2> QED
      BY <2>4, <2>5 DEF RelyInv
  <1>13. ASSUME MakeFinalBlock PROVE RelyInv'
    BY <1>3, <1>13 DEF MakeFinalBlock, nodeVars
  <1>14. CASE UNCHANGED vars
    BY <1>3, <1>14 DEF vars, nodeVars
  <1> QED
    BY <1>4, <1>5, <1>6, <1>8, <1>9, <1>10, <1>11, <1>12, <1>13, <1>14 DEF Next

(* Every step keeps what is known of the next final block *)

LEMMA LinkFrame ==
    ASSUME NEW m \in Nodes, LinkAt(m), UNCHANGED <<epoch[m], chain>>,
           epoch[m] \in DOMAIN micro =>
               epoch[m] \in DOMAIN micro' /\ micro'[epoch[m]] = micro[epoch[m]]
    PROVE  LinkAt(m)'
  BY DEF LinkAt

LEMMA LinkKept ==
    ASSUME IInv, LinkInv, [Next]_vars
    PROVE  LinkInv'
  <1>1. /\ TypeNode /\ TypeShared /\ MicroKnown /\ \A n \in Nodes : LinkAt(n)
    BY TypeParts DEF IInv, LinkInv, LinkAt
  <1>2. CASE UNCHANGED <<epoch, chain, micro>>
    BY <1>1, <1>2, LinkFrame DEF LinkInv
  <1>3. ASSUME NEW n \in Nodes,
               \/ \E p \in Packets : ProcessTxnPacketFromLookup(n, p)
               \/ CommitTxnPacketBuffer(n) \/ RunConsensusOnMicroBlock(n)
               \/ \E k \in TimerStops(n) :
                    \/ RunConsensusOnMicroBlockWhenShardBackup(n, k)
                    \/ \E e \in rerun[n] : ReprocessConsensus(n, e, k)
               \/ MicroBlockValidator(n)
               \/ \E r \in request : OnNodeMissingTxns(n, r)
               \/ WaitMissingTxn(n) \/ MissingTxnTimeout(n)
               \/ \E r \in reply : ProcessSubmitMissingTxn(n, r)
               \/ MicroBlockDone(n) \/ BackupDone(n)
        PROVE  LinkInv'
    <2>1. UNCHANGED <<epoch, chain, micro>>
      BY <1>3 DEF ProcessTxnPacketFromLookup, CommitTxnPacketBuffer, RunConsensusOnMicroBlock,
                  RunConsensusOnMicroBlockWhenShardBackup, FinishPrep, ReprocessConsensus,
                  MicroBlockValidator, OnNodeMissingTxns, WaitMissingTxn, MissingTxnTimeout,
                  ProcessSubmitMissingTxn, MicroBlockDone, BackupDone, consensus, fetching,
                  pools
    <2> QED
      BY <1>2, <2>1
  <1>4. ASSUME NEW n \in Nodes, NEW k, RunConsensusOnMicroBlockWhenShardLeader(n, k)
        PROVE  LinkInv'
    <2>1. UNCHANGED <<epoch, chain>>
      BY <1>4 DEF RunConsensusOnMicroBlockWhenShardLeader, FinishPrep
    <2>2. /\ DOMAIN micro' = DOMAIN micro \cup {epoch[n]}
          /\ \A e \in DOMAIN micro : micro'[e] = micro[e]
      BY <1>4, LeaderPuts
    <2> QED
      BY <1>1, <2>1, <2>2, LinkFrame DEF LinkInv
  <1>5. ASSUME NEW n \in Nodes, ProcessFinalBlock(n) PROVE LinkInv'
    <2>1. /\ epoch[n] \in Nat /\ epoch'[n] = epoch[n] + 1
          /\ \A m \in Nodes : m # n => epoch'[m] = epoch[m]
          /\ \A e \in DOMAIN micro' : micro'[e] = micro[e]
          /\ \A e \in DOMAIN micro : (\E m \in Nodes : epoch'[m] = e) => e \in DOMAIN micro'
      BY <1>5, FinalBlockStep
    <2>2. UNCHANGED chain
      BY <1>5 DEF ProcessFinalBlock
    <2>3. ASSUME NEW m \in Nodes, m # n PROVE LinkAt(m)'
      <3>1. epoch[m] \in DOMAIN micro =>
               epoch[m] \in DOMAIN micro' /\ micro'[epoch[m]] = micro[epoch[m]]
        BY <2>1, <2>3
      <3> QED
        BY <1>1, <2>1, <2>2, <2>3, <3>1, LinkFrame
    <2>4. LinkAt(n)'
      <3>1. Len(chain) <= epoch[n] /\ Len(chain) \in Nat
        BY <1>1, LenProperties DEF LinkAt, TypeShared
      <3>2. Len(chain') <= epoch'[n] /\ ~ (epoch'[n] <= Len(chain'))
        BY <2>1, <2>2, <3>1
      <3> QED
        BY <3>2 DEF LinkAt
    <2> QED
      BY <2>3, <2>4 DEF LinkInv
  <1>6. ASSUME MakeFinalBlock PROVE LinkInv'
    <2>1. PICK len \in Nat : len = Len(chain)
      BY <1>1, LenProperties DEF TypeShared
    <2>2. /\ UNCHANGED <<epoch, micro>> /\ \A m \in Nodes : epoch[m] = len + 1
          /\ \/ /\ len + 1 \in signed
                /\ chain' = Append(chain, [included |-> TRUE, txns |-> micro[len + 1].order])
             \/ chain' = Append(chain, [included |-> FALSE, txns |-> <<>>])
      BY <1>6, <2>1 DEF MakeFinalBlock, nodeVars
    <2>3. PICK x : /\ chain' = Append(chain, x)
                   /\ \/ len + 1 \in signed /\ x.txns = micro[len + 1].order
                      \/ ~ x.included
      BY <2>2
    <2>4. Len(chain') = len + 1 /\ chain'[len + 1] = x
      <3>1. \E S : chain \in Seq(S)
        BY <1>1 DEF TypeShared
      <3> QED
        BY <2>1, <2>3, <3>1
    <2>5. signed \subseteq DOMAIN micro
      BY <1>1 DEF MicroKnown
    <2>6. ASSUME NEW m \in Nodes PROVE LinkAt(m)'
      BY <2>2, <2>3, <2>4, <2>5 DEF LinkAt
    <2> QED
      BY <2>6 DEF LinkInv
  <1>7. CASE UNCHANGED vars
    BY <1>2, <1>7 DEF vars, nodeVars
  <1> QED
    BY <1>3, <1>4, <1>5, <1>6, <1>7 DEF Next

(* Every step keeps the transactions *)

LEMMA TxnsFrame ==
    ASSUME NEW m \in Nodes, TxnsAt(m), UNCHANGED <<epoch[m], chain, created[m], known[m], lost[m]>>
    PROVE  TxnsAt(m)'
  BY DEF TxnsAt

\* What a pool that takes in transactions drops is superseded
LEMMA TxnsGrow ==
    ASSUME IInv, PoolsGrow, NEW m \in Nodes, TxnsAt(m), UNCHANGED <<epoch[m], chain, lost[m]>>,
           known'[m] = known[m] \cup created'[m].hash
    PROVE  TxnsAt(m)'
  <1> SUFFICES ASSUME NEW t \in known'[m], t \notin created'[m].hash, t \notin lost'[m]
               PROVE  \/ ~ Valid[t]
                      \/ Nonce[t] <= NonceOf(chain', epoch'[m])[Sender[t]]
                      \/ \E u \in known'[m] : Key(u) = Key(t) /\ Supersedes(u, t)
    BY DEF TxnsAt
  <1>1. t \in known[m] /\ t \notin lost[m]
    OBVIOUS
  <1>2. CASE t \in created[m].hash
    <2>1. t \in Txns /\ Covered(created[m], t)
      BY <1>2 DEF IInv, PoolInv, GoodPool, Pool, Covered
    <2>2. Covered(created'[m], t) /\ GoodPool(created'[m])
      BY <2>1 DEF PoolsGrow
    <2>3. PICK u : /\ u = created'[m].nonce[Key(t)] /\ Key(t) \in DOMAIN created'[m].nonce
                   /\ Supersedes(u, t)
      BY <2>2 DEF Covered
    <2>4. u \in created'[m].hash /\ Key(u) = Key(t)
      BY <2>2, <2>3 DEF GoodPool, Indexed
    <2> QED
      BY <2>3, <2>4
  <1>3. CASE t \notin created[m].hash
    BY <1>1, <1>3 DEF TxnsAt
  <1> QED
    BY <1>2, <1>3

\* A chain that can be executed could be executed before its last block
LEMMA ExecutableBefore ==
    ASSUME NEW ch \in Seq([included : BOOLEAN, txns : Seq(Txns)]), NEW x,
           ChainExecutable(Append(ch, x))
    PROVE  ChainExecutable(ch)
  <1>1. PICK len \in Nat : len = Len(ch) /\ DOMAIN ch = 1 .. len
    BY LenProperties
  <1>2. PICK new : new = Append(ch, x)
    OBVIOUS
  <1>3. ASSUME NEW e \in 1 .. len PROVE From(ch[e].txns, NonceOf(ch, e))
    <2>1. new[e] = ch[e] /\ e \in DOMAIN new
      BY <1>1, <1>2
    <2>2. NonceOf(new, e) = NonceOf(ch, e)
      <3>1. e \in Nat \ {0} /\ e <= Len(ch) + 1
        BY <1>1
      <3> QED
        BY <1>2, <3>1, NonceOfFacts
    <2>3. From(new[e].txns, NonceOf(new, e))
      BY <1>2, <2>1 DEF ChainExecutable
    <2> QED
      BY <2>1, <2>2, <2>3
  <1> QED
    BY <1>1, <1>3 DEF ChainExecutable

\* The final block: what the selection took and did not put back has been
\* executed with it, has failed or has its nonce used up
LEMMA TxnsFinal ==
    ASSUME IInv, KeptInv, NEW n \in Nodes, ProcessFinalBlock(n), ChainExecutable(chain)
    PROVE  TxnsAt(n)'
  <1>1. /\ TypeNode /\ TypeTxns /\ ShapeInv /\ TypeShared
        /\ TxnsAt(n) /\ LeftAt(n) /\ RelyAt(n) /\ LinkAt(n) /\ SelectedAt(n)
    BY TypeParts DEF IInv, KeptInv, LeftInv, RelyInv, LinkInv, TxnsInv, SelectedInv
  <1>2. PICK e \in Nat \ {0} : e = epoch[n] /\ epoch'[n] = e + 1 /\ e <= Len(chain)
    <2>1. epoch[n] \in Nat /\ epoch[n] <= Len(chain) /\ epoch'[n] = epoch[n] + 1
      BY FinalBlockStep
    <2>2. epoch[n] \in Epochs /\ Epochs = 1 .. MaxEpoch /\ MaxEpoch \in Nat
      BY <1>1, LeaderFacts DEF TypeNode
    <2>3. epoch[n] \in Nat \ {0}
      BY <2>1, <2>2
    <2> QED
      BY <2>1, <2>3
  <1>3. UNCHANGED <<chain, known>>
    BY DEF ProcessFinalBlock
  <1>4. PICK ch : ch = chain /\ ch \in Seq([included : BOOLEAN, txns : Seq(Txns)])
    BY <1>1 DEF TypeShared
  <1>5. PICK len \in Nat : len = Len(ch) /\ e <= len
    BY <1>2, <1>4, LenProperties
  <1>6. /\ e <= Len(ch) + 1 /\ e + 1 \in Nat \ {0} /\ e + 1 <= Len(ch) + 1
    BY <1>5
  <1>7. PICK old \in [Senders -> Nat] : old = NonceOf(ch, e)
    BY <1>4, <1>6, DoneFacts
  <1>8. PICK new \in [Senders -> Nat] : new = NonceOf(ch, e + 1)
    BY <1>4, <1>6, DoneFacts
  <1>9. \A s \in Senders : old[s] <= new[s]
    BY <1>2, <1>4, <1>7, <1>8, NonceOfGrows
  <1>10. ASSUME MustUpdate(n, e), ~ stale[n], NEW s \in Senders
         PROVE  nonceTemp[n][s] <= new[s]
    <2>1. chain[e].included /\ cosig[n]
      BY <1>10 DEF MustUpdate
    <2>2. e \in DOMAIN micro /\ chain[e].txns = micro[e].order
      BY <1>1, <1>2, <2>1 DEF LinkAt
    <2>3. stop[n] # "none" /\ ToSet(order[n]) = ToSet(micro[e].order)
      BY <1>1, <1>2, <1>10, <2>1 DEF RelyAt
    <2>4. PICK x \in Seq(Txns) : x = order[n]
      BY <1>1 DEF TypeTxns
    <2>5. ToSet(x) = ToSet(ch[e].txns)
      BY <1>4, <2>2, <2>3, <2>4
    <2>6. From(x, NonceOf(ch, e))
      BY <1>1, <1>2, <1>4, <1>10, <2>3, <2>4 DEF SelectedAt
    <2>7. Settled(ch, e)
      BY <1>4, <1>6, ChainSettled DEF ChainExecutable
    <2>8. NonceOf(ch, e)[s] + Counted(x, Len(x), s) <= NonceOf(ch, e + 1)[s]
      BY <1>2, <1>4, <2>5, <2>6, <2>7, NonceNext
    <2>9. nonceTemp[n][s] = NonceOf(ch, e)[s] + Counted(x, Len(x), s)
      BY <1>1, <1>2, <1>4, <1>10, <2>3, <2>4 DEF LeftAt
    <2> QED
      BY <1>8, <2>8, <2>9
  <1>11. CASE ~ MustUpdate(n, e)
    <2>1. UNCHANGED <<created, lost>>
      BY <1>2, <1>11 DEF ProcessFinalBlock
    <2>2. ASSUME NEW t \in known[n], t \notin created[n].hash \cup lost[n], Valid[t],
                 Nonce[t] <= old[Sender[t]]
          PROVE  Nonce[t] <= new[Sender[t]]
      <3>1. Sender[t] \in Senders /\ Nonce[t] \in Nat
        <4>1. t \in Txns
          BY <1>1 DEF TypeTxns
        <4> QED
          BY <4>1, TxnFacts
      <3>2. old[Sender[t]] \in Nat /\ new[Sender[t]] \in Nat /\ old[Sender[t]] <= new[Sender[t]]
        BY <1>9, <3>1
      <3> QED
        BY <2>2, <3>1, <3>2
    <2> QED
      BY <1>1, <1>2, <1>3, <1>4, <1>7, <1>8, <2>1, <2>2 DEF TxnsAt
  <1>12. CASE MustUpdate(n, e)
    <2>1. UpdateProcessedTransactions(n)
      BY <1>2, <1>12 DEF ProcessFinalBlock
    <2>2. /\ created'[n] = temp[n]
          /\ lost'[n] = lost[n] \cup {t \in created[n].hash \ temp[n].hash :
                                         t \notin copied[n] \/ stale[n]}
      BY <1>1, <2>1 DEF UpdateProcessedTransactions, ShapeInv, TypeTxns
    <2>3. ASSUME NEW t \in known[n], t \notin temp[n].hash, t \notin lost'[n], Valid[t],
                 ~ \E u \in known[n] : Key(u) = Key(t) /\ Supersedes(u, t)
          PROVE  Nonce[t] <= new[Sender[t]]
      <3>1. Sender[t] \in Senders /\ Nonce[t] \in Nat
        <4>1. t \in Txns
          BY <1>1 DEF TypeTxns
        <4> QED
          BY <4>1, TxnFacts
      <3>2. old[Sender[t]] \in Nat /\ new[Sender[t]] \in Nat /\ old[Sender[t]] <= new[Sender[t]]
        BY <1>9, <3>1
      <3>3. CASE t \in created[n].hash
        <4>1. t \in copied[n] /\ ~ stale[n]
          BY <2>2, <2>3, <3>3
        <4>2. stop[n] # "none"
          BY <1>1, <1>12, <4>1 DEF RelyAt, MustUpdate
        <4>3. Nonce[t] <= nonceTemp[n][Sender[t]]
          BY <1>1, <2>3, <4>1, <4>2 DEF LeftAt
        <4>4. nonceTemp[n][Sender[t]] <= new[Sender[t]]
          BY <1>10, <1>12, <3>1, <4>1
        <4>5. nonceTemp[n][Sender[t]] \in Nat
          BY <1>1, <3>1 DEF TypeTxns
        <4> QED
          BY <3>1, <3>2, <4>3, <4>4, <4>5
      <3>4. CASE t \notin created[n].hash
        <4>1. t \notin lost[n]
          BY <2>2, <2>3
        <4>2. Nonce[t] <= old[Sender[t]]
          BY <1>1, <1>2, <1>4, <1>7, <2>3, <3>4, <4>1 DEF TxnsAt
        <4> QED
          BY <3>1, <3>2, <4>2
      <3> QED
        BY <3>3, <3>4
    <2> QED
      BY <1>2, <1>3, <1>4, <1>8, <2>2, <2>3 DEF TxnsAt
  <1> QED
    BY <1>11, <1>12

LEMMA TxnsStep ==
    ASSUME IInv, KeptInv, [Next]_vars
    PROVE  TxnsInv'
  <1>1. /\ TypeNode /\ TypeTxns /\ ShapeInv /\ TypeShared /\ PoolInv
        /\ ChainExecutable(chain) => \A m \in Nodes : TxnsAt(m)
    BY TypeParts DEF IInv, KeptInv, TxnsInv
  <1>2. CASE UNCHANGED <<epoch, chain, created, known, lost>>
    BY <1>1, <1>2, TxnsFrame DEF TxnsInv
  <1>3. ASSUME NEW n \in Nodes,
               \/ \E k \in TimerStops(n) :
                    \/ RunConsensusOnMicroBlockWhenShardLeader(n, k)
                    \/ RunConsensusOnMicroBlockWhenShardBackup(n, k)
                    \/ \E e \in rerun[n] : ReprocessConsensus(n, e, k)
               \/ MicroBlockValidator(n)
               \/ \E r \in request : OnNodeMissingTxns(n, r)
               \/ WaitMissingTxn(n) \/ MissingTxnTimeout(n)
               \/ MicroBlockDone(n) \/ BackupDone(n)
        PROVE  TxnsInv'
    <2>1. UNCHANGED <<epoch, chain, created, known, lost>>
      BY <1>3 DEF RunConsensusOnMicroBlockWhenShardLeader,
                  RunConsensusOnMicroBlockWhenShardBackup, FinishPrep, ReprocessConsensus,
                  MicroBlockValidator, OnNodeMissingTxns, WaitMissingTxn, MissingTxnTimeout,
                  MicroBlockDone, BackupDone, fetching, pools
    <2> QED
      BY <1>2, <2>1
  <1>4. ASSUME NEW n \in Nodes, PoolsGrow, UNCHANGED <<epoch, chain, lost>>,
               known' = [known EXCEPT ![n] = @ \cup created'[n].hash],
               \E q : created' = [created EXCEPT ![n] = q]
        PROVE  TxnsInv'
    <2>1. known'[n] = known[n] \cup created'[n].hash
      BY <1>1, <1>4 DEF TypeTxns
    <2>2. \A m \in Nodes : m # n => known'[m] = known[m] /\ created'[m] = created[m]
      BY <1>1, <1>4 DEF TypeTxns, ShapeInv
    <2>3. TxnsAt(n) => TxnsAt(n)'
      BY <1>4, <2>1, TxnsGrow
    <2>4. \A m \in Nodes : m # n /\ TxnsAt(m) => TxnsAt(m)'
      BY <1>4, <2>2, TxnsFrame
    <2> QED
      BY <1>1, <1>4, <2>3, <2>4 DEF TxnsInv
  <1>5. ASSUME NEW n \in Nodes, NEW p \in Packets, ProcessTxnPacketFromLookup(n, p)
        PROVE  TxnsInv'
    <2>1. PoolsGrow
      BY <1>5, PacketGrow
    <2>2. UNCHANGED <<epoch, chain, lost>>
      BY <1>5 DEF ProcessTxnPacketFromLookup, consensus
    <2>3. UNCHANGED <<created, known>> \/ InsertPackets(n, <<p>>)
      BY <1>5 DEF ProcessTxnPacketFromLookup
    <2>4. CASE UNCHANGED <<created, known>>
      BY <1>2, <2>2, <2>4
    <2>5. CASE InsertPackets(n, <<p>>)
      BY <1>4, <2>1, <2>2, <2>5 DEF InsertPackets
    <2> QED
      BY <2>3, <2>4, <2>5
  <1>6. ASSUME NEW n \in Nodes, CommitTxnPacketBuffer(n) PROVE TxnsInv'
    <2>1. PoolsGrow
      BY <1>6, CommitGrow
    <2>2. UNCHANGED <<epoch, chain, lost>> /\ InsertPackets(n, buffer[n])
      BY <1>6 DEF CommitTxnPacketBuffer, consensus
    <2> QED
      BY <1>4, <2>1, <2>2 DEF InsertPackets
  <1>7. ASSUME NEW n \in Nodes, NEW r \in reply, ProcessSubmitMissingTxn(n, r) PROVE TxnsInv'
    <2>1. PoolsGrow
      BY <1>7, SubmitGrow
    <2>2. UNCHANGED <<epoch, chain, lost>>
      BY <1>7 DEF ProcessSubmitMissingTxn, fetching
    <2>3. \/ UNCHANGED <<created, known>>
          \/ /\ created' = [created EXCEPT ![n] = InsertAll(@, SubmittedTxns(r))]
             /\ known' = [known EXCEPT ![n] = @ \cup created'[n].hash]
      BY <1>7 DEF ProcessSubmitMissingTxn
    <2>4. CASE UNCHANGED <<created, known>>
      BY <1>2, <2>2, <2>4
    <2>5. CASE /\ created' = [created EXCEPT ![n] = InsertAll(@, SubmittedTxns(r))]
               /\ known' = [known EXCEPT ![n] = @ \cup created'[n].hash]
      BY <1>4, <2>1, <2>2, <2>5
    <2> QED
      BY <2>3, <2>4, <2>5
  <1>8. ASSUME NEW n \in Nodes, RunConsensusOnMicroBlock(n) PROVE TxnsInv'
    <2>1. UNCHANGED <<epoch, chain, lost>>
      BY <1>8 DEF RunConsensusOnMicroBlock, consensus
    <2>2. \/ UNCHANGED <<created, known>>
          \/ /\ created' = [created EXCEPT ![n] = EmptyPool]
             /\ known' = [known EXCEPT ![n] = {}]
      BY <1>8 DEF RunConsensusOnMicroBlock, CleanCreatedTransaction
    <2>3. CASE UNCHANGED <<created, known>>
      BY <1>2, <2>1, <2>3
    <2>4. CASE /\ created' = [created EXCEPT ![n] = EmptyPool]
               /\ known' = [known EXCEPT ![n] = {}]
      <3>1. /\ known'[n] = {}
            /\ \A m \in Nodes : m # n => known'[m] = known[m] /\ created'[m] = created[m]
        BY <1>1, <2>4 DEF TypeTxns, ShapeInv
      <3>2. TxnsAt(n)'
        BY <3>1 DEF TxnsAt
      <3>3. \A m \in Nodes : m # n /\ TxnsAt(m) => TxnsAt(m)'
        BY <2>1, <3>1, TxnsFrame
      <3> QED
        BY <1>1, <2>1, <3>2, <3>3 DEF TxnsInv
    <2> QED
      BY <2>2, <2>3, <2>4
  <1>9. ASSUME NEW n \in Nodes, ProcessFinalBlock(n) PROVE TxnsInv'
    <2>1. /\ \A m \in Nodes : m # n => epoch'[m] = epoch[m]
      BY <1>9, FinalBlockStep
    <2>2. UNCHANGED <<chain, known>>
      BY <1>9 DEF ProcessFinalBlock
    <2>3. \A m \in Nodes : m # n => created'[m] = created[m] /\ lost'[m] = lost[m]
      BY <1>1, <1>9 DEF ProcessFinalBlock, UpdateProcessedTransactions, TypeTxns, ShapeInv
    <2>4. \A m \in Nodes : m # n /\ TxnsAt(m) => TxnsAt(m)'
      BY <2>1, <2>2, <2>3, TxnsFrame
    <2>5. ChainExecutable(chain) => TxnsAt(n)'
      BY <1>9, TxnsFinal
    <2> QED
      BY <1>1, <2>2, <2>4, <2>5 DEF TxnsInv
  <1>10. ASSUME MakeFinalBlock PROVE TxnsInv'
    <2>1. /\ UNCHANGED <<epoch, created, known, lost>>
          /\ \E x : chain' = Append(chain, x)
      BY <1>10 DEF MakeFinalBlock, nodeVars
    <2>2. \A m \in Nodes : NonceOf(chain', epoch[m]) = NonceOf(chain, epoch[m])
      BY <2>1, ChainGrows
    <2>3. ChainExecutable(chain') => ChainExecutable(chain)
      BY <1>1, <2>1, ExecutableBefore DEF TypeShared
    <2>4. \A m \in Nodes : TxnsAt(m) => TxnsAt(m)'
      BY <2>1, <2>2 DEF TxnsAt
    <2> QED
      BY <1>1, <2>3, <2>4 DEF TxnsInv
  <1>11. CASE UNCHANGED vars
    BY <1>2, <1>11 DEF vars, nodeVars
  <1> QED
    BY <1>3, <1>5, <1>6, <1>7, <1>8, <1>9, <1>10, <1>11 DEF Next

\* The second inductive invariant: what selections leave, what nodes stand for and
\* what final blocks hold
THEOREM KeptInvariance == Spec => []KeptInv
  <1>1. IInv /\ KeptInv /\ [Next]_vars => KeptInv'
    <2> SUFFICES ASSUME IInv, KeptInv, [Next]_vars PROVE KeptInv'
      OBVIOUS
    <2>1. LeftInv /\ RelyInv /\ LinkInv
      BY DEF KeptInv
    <2>2. LeftInv' /\ RelyInv' /\ LinkInv' /\ TxnsInv'
      BY <2>1, LeftKept, RelyKept, LinkKept, TxnsStep
    <2> QED
      BY <2>2 DEF KeptInv
  <1> QED
    BY <1>1, InitKept, Invariance, PTL DEF Spec

\* As long as the final blocks can be executed, no transaction disappears from a
\* pool before its nonce is used up, a better one comes or it fails: what
\* UpdateProcessedTransactions drops was executed, not lost.
THEOREM TxnsKeptHolds == Spec => []TxnsKept
  <1>1. KeptInv => TxnsKept
    BY TxnsKeptIs DEF KeptInv
  <1> QED
    BY <1>1, KeptInvariance, PTL

==============================================================================
