---------------------------- MODULE TxnPoolProofs ----------------------------
(***************************************************************************)
(* Theorems about TxnPool, for all transactions and all pools: the         *)
(* operations keep the three indexes consistent, an insertion keeps every  *)
(* transaction or a better one, and findOne takes from the highest entry.  *)
(***************************************************************************)
EXTENDS TxnPool, OrderLemmas, FiniteSetTheorems, TLAPS

\* A pool: what its fields may hold
Pool(p) ==
    /\ p.hash \in SUBSET Txns
    /\ DOMAIN p.gas \subseteq Nat
    /\ \A g \in DOMAIN p.gas : p.gas[g] \in SUBSET Txns
    /\ \A k \in DOMAIN p.nonce : p.nonce[k] \in Txns

\* Consistency, element by element
Indexed(p) ==
    /\ \A t \in p.hash : Price[t] \in DOMAIN p.gas /\ t \in p.gas[Price[t]]
    /\ \A g \in DOMAIN p.gas : \A t \in p.gas[g] : t \in p.hash /\ Price[t] = g
    /\ \A k \in DOMAIN p.nonce : p.nonce[k] \in p.hash /\ Key(p.nonce[k]) = k
    /\ \A t \in p.hash : Key(t) \in DOMAIN p.nonce /\ p.nonce[Key(t)] = t

LEMMA ConsistentIndexed ==
    ASSUME NEW p, Pool(p)
    PROVE  Consistent(p) <=> Indexed(p)
BY DEF Consistent, Indexed, Pool

LEMMA GasAddFacts ==
    ASSUME NEW gas, NEW t
    PROVE  /\ DOMAIN GasAdd(gas, t) = DOMAIN gas \cup {Price[t]}
           /\ GasAdd(gas, t)[Price[t]] =
                 {t} \cup IF Price[t] \in DOMAIN gas THEN gas[Price[t]] ELSE {}
           /\ \A g \in DOMAIN gas : g # Price[t] => GasAdd(gas, t)[g] = gas[g]
<1> DEFINE v == {t} \cup IF Price[t] \in DOMAIN gas THEN gas[Price[t]] ELSE {}
<1>1. GasAdd(gas, t) = Put(gas, Price[t], v)
  BY DEF GasAdd
<1> HIDE DEF v
<1>2. /\ DOMAIN GasAdd(gas, t) = DOMAIN gas \cup {Price[t]}
      /\ GasAdd(gas, t)[Price[t]] = v
      /\ \A g \in DOMAIN gas : g # Price[t] => GasAdd(gas, t)[g] = gas[g]
  BY <1>1 DEF Put
<1> QED
  BY <1>2 DEF v

LEMMA GasEraseFacts ==
    ASSUME NEW gas, NEW t, Price[t] \in DOMAIN gas
    PROVE  /\ DOMAIN GasErase(gas, t) = DOMAIN gas
           /\ GasErase(gas, t)[Price[t]] = gas[Price[t]] \ {t}
           /\ \A g \in DOMAIN gas :
                 g # Price[t] => GasErase(gas, t)[g] = gas[g]
<1>1. GasErase(gas, t) = Put(gas, Price[t], gas[Price[t]] \ {t})
  BY DEF GasErase
<1> QED
  BY <1>1 DEF Put

\* insert of a transaction with a new sender and nonce
LEMMA AddIndexed ==
    ASSUME NEW p, Pool(p), Indexed(p), NEW t \in Txns,
           t \notin p.hash, Key(t) \notin DOMAIN p.nonce
    PROVE  Pool(Add(p, t)) /\ Indexed(Add(p, t))
<1> DEFINE q == Add(p, t)
<1>1. /\ q.hash = p.hash \cup {t}
      /\ q.gas = GasAdd(p.gas, t)
      /\ q.nonce = Put(p.nonce, Key(t), t)
  BY DEF Add
<1> HIDE DEF q
<1>2. Price[t] \in Nat
  BY TxnsAssumption
<1>3. /\ DOMAIN q.gas = DOMAIN p.gas \cup {Price[t]}
      /\ q.gas[Price[t]] =
            {t} \cup IF Price[t] \in DOMAIN p.gas THEN p.gas[Price[t]] ELSE {}
      /\ \A g \in DOMAIN p.gas : g # Price[t] => q.gas[g] = p.gas[g]
  <2> DEFINE new == GasAdd(p.gas, t)
  <2>1. /\ DOMAIN new = DOMAIN p.gas \cup {Price[t]}
        /\ new[Price[t]] =
              {t} \cup IF Price[t] \in DOMAIN p.gas THEN p.gas[Price[t]] ELSE {}
        /\ \A g \in DOMAIN p.gas : g # Price[t] => new[g] = p.gas[g]
    BY GasAddFacts
  <2> QED
    BY <1>1, <2>1
<1>4. /\ DOMAIN q.nonce = DOMAIN p.nonce \cup {Key(t)}
      /\ q.nonce[Key(t)] = t
      /\ \A k \in DOMAIN p.nonce : k # Key(t) => q.nonce[k] = p.nonce[k]
  BY <1>1 DEF Put
<1>5. Pool(q)
  BY <1>1, <1>2, <1>3, <1>4 DEF Pool
<1>6. Indexed(q)
  BY <1>1, <1>3, <1>4 DEF Indexed
<1> QED
  BY <1>5, <1>6 DEF q

\* insert of a better offer for a sender and nonce in the pool
LEMMA ReplaceIndexed ==
    ASSUME NEW p, Pool(p), Indexed(p), NEW t \in Txns,
           t \notin p.hash, Key(t) \in DOMAIN p.nonce
    PROVE  LET q == Replace(p, p.nonce[Key(t)], t) IN Pool(q) /\ Indexed(q)
<1> DEFINE old == p.nonce[Key(t)]
           mid == GasErase(p.gas, old)
           q   == Replace(p, old, t)
<1>1. /\ q.hash = (p.hash \ {old}) \cup {t}
      /\ q.gas = GasAdd(mid, t)
      /\ q.nonce = Put(p.nonce, Key(t), t)
  BY DEF Replace
<1>2. Price[t] \in Nat
  BY TxnsAssumption
<1>3. /\ old \in p.hash /\ Key(old) = Key(t)
      /\ Price[old] \in DOMAIN p.gas
  BY DEF Indexed
<1>4. /\ DOMAIN mid = DOMAIN p.gas
      /\ mid[Price[old]] = p.gas[Price[old]] \ {old}
      /\ \A g \in DOMAIN p.gas : g # Price[old] => mid[g] = p.gas[g]
  BY <1>3, GasEraseFacts
<1> HIDE DEF q, old, mid
<1>5. /\ DOMAIN q.gas = DOMAIN mid \cup {Price[t]}
      /\ q.gas[Price[t]] =
            {t} \cup IF Price[t] \in DOMAIN mid THEN mid[Price[t]] ELSE {}
      /\ \A g \in DOMAIN mid : g # Price[t] => q.gas[g] = mid[g]
  <2> DEFINE new == GasAdd(mid, t)
  <2>1. /\ DOMAIN new = DOMAIN mid \cup {Price[t]}
        /\ new[Price[t]] =
              {t} \cup IF Price[t] \in DOMAIN mid THEN mid[Price[t]] ELSE {}
        /\ \A g \in DOMAIN mid : g # Price[t] => new[g] = mid[g]
    BY GasAddFacts
  <2> QED
    BY <1>1, <2>1
<1>6. /\ DOMAIN q.nonce = DOMAIN p.nonce
      /\ q.nonce[Key(t)] = t
      /\ \A k \in DOMAIN p.nonce : k # Key(t) => q.nonce[k] = p.nonce[k]
  BY <1>1 DEF Put
<1>7. \A g \in DOMAIN mid : mid[g] = p.gas[g] \ {old}
  <2> SUFFICES ASSUME NEW g \in DOMAIN mid PROVE mid[g] = p.gas[g] \ {old}
    OBVIOUS
  <2>1. CASE g = Price[old]
    BY <2>1, <1>4
  <2>2. CASE g # Price[old]
    <3>1. old \notin p.gas[g]
      BY <2>2, <1>4 DEF Indexed
    <3> QED
      BY <2>2, <3>1, <1>4
  <2> QED
    BY <2>1, <2>2
<1>8. Pool(q)
  BY <1>1, <1>2, <1>4, <1>5, <1>6, <1>7 DEF Pool
<1>9. \A u \in p.hash : u # old => Key(u) # Key(t)
  BY DEF Indexed, old
<1>10. Indexed(q)
  <2>1. \A u \in q.hash : Price[u] \in DOMAIN q.gas /\ u \in q.gas[Price[u]]
    BY <1>1, <1>4, <1>5, <1>7 DEF Indexed
  <2>2. \A g \in DOMAIN q.gas : \A u \in q.gas[g] : u \in q.hash /\ Price[u] = g
    BY <1>1, <1>4, <1>5, <1>7 DEF Indexed
  <2>3. \A k \in DOMAIN q.nonce : q.nonce[k] \in q.hash /\ Key(q.nonce[k]) = k
    BY <1>1, <1>3, <1>6 DEF Indexed
  <2>4. \A u \in q.hash : Key(u) \in DOMAIN q.nonce /\ q.nonce[Key(u)] = u
    BY <1>1, <1>3, <1>6, <1>9 DEF Indexed
  <2> QED
    BY <2>1, <2>2, <2>3, <2>4 DEF Indexed
<1> QED
  BY <1>8, <1>10 DEF q, old

\* The pool's insert keeps the three indexes consistent: a transaction that is
\* replaced by a better offer leaves all of them, and the new one is in all.
THEOREM InsertConsistent ==
    ASSUME NEW p, Pool(p), Consistent(p), NEW t \in Txns
    PROVE  Pool(Insert(p, t)) /\ Consistent(Insert(p, t))
<1>1. Indexed(p)
  BY ConsistentIndexed
<1>2. Pool(Insert(p, t)) /\ Indexed(Insert(p, t))
  BY <1>1, AddIndexed, ReplaceIndexed DEF Insert
<1> QED
  BY <1>2, ConsistentIndexed

\* The erasure of findOne and findSameNonceButHigherGas keeps them consistent
\* too, and the transaction is gone.
THEOREM EraseConsistent ==
    ASSUME NEW p, Pool(p), Consistent(p), NEW t \in p.hash
    PROVE  /\ Pool(EraseTxn(p, t)) /\ Consistent(EraseTxn(p, t))
           /\ EraseTxn(p, t).hash = p.hash \ {t}
<1> DEFINE q    == EraseTxn(p, t)
           rest == p.gas[Price[t]] \ {t}
<1>1. /\ q.hash = p.hash \ {t}
      /\ q.gas = IF rest = {} THEN Erase(p.gas, Price[t])
                             ELSE Put(p.gas, Price[t], rest)
      /\ q.nonce = Erase(p.nonce, Key(t))
  BY DEF EraseTxn
<1>2. Indexed(p)
  BY ConsistentIndexed
<1>3. Price[t] \in DOMAIN p.gas /\ Key(t) \in DOMAIN p.nonce
  BY <1>2 DEF Indexed
<1> HIDE DEF q, rest
<1>4. /\ DOMAIN q.gas = IF rest = {} THEN DOMAIN p.gas \ {Price[t]}
                                     ELSE DOMAIN p.gas
      /\ \A g \in DOMAIN q.gas : q.gas[g] = p.gas[g] \ {t}
  <2>1. \A g \in DOMAIN p.gas : g # Price[t] => t \notin p.gas[g]
    BY <1>2 DEF Indexed
  <2>2. CASE rest = {}
    <3>1. q.gas = Erase(p.gas, Price[t])
      BY <1>1, <2>2
    <3>2. /\ DOMAIN q.gas = DOMAIN p.gas \ {Price[t]}
          /\ \A g \in DOMAIN p.gas : g # Price[t] => q.gas[g] = p.gas[g]
      BY <3>1 DEF Erase
    <3> QED
      BY <2>1, <2>2, <3>2
  <2>3. CASE rest # {}
    <3>1. q.gas = Put(p.gas, Price[t], rest)
      BY <1>1, <2>3
    <3>2. /\ DOMAIN q.gas = DOMAIN p.gas
          /\ q.gas[Price[t]] = rest
          /\ \A g \in DOMAIN p.gas : g # Price[t] => q.gas[g] = p.gas[g]
      BY <3>1, <1>3 DEF Put
    <3> QED
      BY <2>1, <2>3, <3>2 DEF rest
  <2> QED
    BY <2>2, <2>3
<1>5. /\ DOMAIN q.nonce = DOMAIN p.nonce \ {Key(t)}
      /\ \A k \in DOMAIN p.nonce : k # Key(t) => q.nonce[k] = p.nonce[k]
  BY <1>1 DEF Erase
<1>6. Pool(q)
  BY <1>1, <1>4, <1>5 DEF Pool
<1>7. Indexed(q)
  <2>1. ASSUME NEW u \in q.hash
        PROVE  Price[u] \in DOMAIN q.gas /\ u \in q.gas[Price[u]]
    <3>1. /\ u \in p.hash /\ u # t
          /\ Price[u] \in DOMAIN p.gas /\ u \in p.gas[Price[u]]
      BY <1>1, <1>2 DEF Indexed
    <3>2. Price[u] = Price[t] => rest # {}
      BY <3>1 DEF rest
    <3>3. Price[u] \in DOMAIN q.gas
      BY <1>4, <3>1, <3>2
    <3> QED
      BY <1>4, <3>1, <3>3
  <2>2. ASSUME NEW g \in DOMAIN q.gas, NEW u \in q.gas[g]
        PROVE  u \in q.hash /\ Price[u] = g
    <3>1. g \in DOMAIN p.gas /\ u \in p.gas[g] /\ u # t
      BY <1>4
    <3>2. u \in p.hash /\ Price[u] = g
      BY <1>2, <3>1 DEF Indexed
    <3> QED
      BY <1>1, <3>1, <3>2
  <2>3. \A k \in DOMAIN q.nonce : q.nonce[k] \in q.hash /\ Key(q.nonce[k]) = k
    BY <1>1, <1>2, <1>5 DEF Indexed
  <2>4. \A u \in q.hash : Key(u) \in DOMAIN q.nonce /\ q.nonce[Key(u)] = u
    BY <1>1, <1>2, <1>5 DEF Indexed
  <2> QED
    BY <2>1, <2>2, <2>3, <2>4 DEF Indexed
<1> QED
  BY <1>1, <1>6, <1>7, ConsistentIndexed DEF q

------------------------------------------------------------------------------
(* What a pool covers, and what is found in it *)

\* The gas prices of the transactions
Prices == {Price[t] : t \in Txns}

LEMMA PricesFacts ==
    /\ Prices \in SUBSET Nat /\ IsFiniteSet(Prices)
    /\ \E c \in Nat : Prices \subseteq 0 .. c
  <1>1. Prices \in SUBSET Nat
    BY TxnsAssumption DEF Prices
  <1>2. IsFiniteSet(Prices)
    <2>1. IsFiniteSet(Txns) /\ Price \in [Txns -> Nat]
      BY TxnsAssumption
    <2>2. Price \in Surjection(Txns, Prices)
      BY <2>1 DEF Surjection, Prices
    <2> QED
      BY <2>1, <2>2, FS_Surjection
  <1> QED
    BY <1>1, <1>2, FiniteBounded

\* A pool whose indexes agree, with entries for prices of transactions only
GoodPool(p) == Pool(p) /\ Indexed(p) /\ DOMAIN p.gas \subseteq Prices

LEMMA EmptyPoolGood == GoodPool(EmptyPool)
  BY DEF GoodPool, Pool, Indexed, EmptyPool

LEMMA GoodConsistent ==
    ASSUME NEW p, GoodPool(p)
    PROVE  Pool(p) /\ Consistent(p)
  BY ConsistentIndexed DEF GoodPool

\* The pool holds t or a better offer of its sender and nonce
Covered(p, t) ==
    t \in p.hash \/ (Key(t) \in DOMAIN p.nonce /\ Supersedes(p.nonce[Key(t)], t))

\* q is p with the transactions S inserted: what p covers stays covered, S is
\* covered, and an empty entry of the index by gas price stays empty
Merged(p, q, S) ==
    /\ GoodPool(q) /\ q.hash \subseteq p.hash \cup S
    /\ \A u \in Txns : Covered(p, u) \/ u \in S => Covered(q, u)
    /\ \A g \in DOMAIN p.gas : p.gas[g] = {} /\ (\A u \in S : Price[u] # g) =>
          g \in DOMAIN q.gas /\ q.gas[g] = {}

LEMMA SupersedesOrder ==
    ASSUME NEW t \in Txns, NEW u \in Txns
    PROVE  /\ t # u => Supersedes(t, u) \/ Supersedes(u, t)
           /\ \A v \in Txns : Supersedes(t, u) /\ Supersedes(u, v) => Supersedes(t, v)
  <1>1. /\ Txns \subseteq Nat
        /\ \A x \in Txns : Price[x] \in Nat
    BY TxnsAssumption
  <1> QED
    BY <1>1 DEF Supersedes

LEMMA MergedRefl ==
    ASSUME NEW p, GoodPool(p)
    PROVE  Merged(p, p, {})
  BY DEF Merged

LEMMA MergedTrans ==
    ASSUME NEW p, NEW q, NEW r, NEW S, NEW T, Merged(p, q, S), Merged(q, r, T)
    PROVE  Merged(p, r, S \cup T)
  BY DEF Merged

LEMMA InsertMerged ==
    ASSUME NEW p, GoodPool(p), NEW t \in Txns
    PROVE  Merged(p, Insert(p, t), {t})
  <1>1. Pool(p) /\ Indexed(p) /\ DOMAIN p.gas \subseteq Prices /\ p.hash \subseteq Txns
    BY DEF GoodPool, Pool
  <1>2. CASE t \in p.hash
    <2>1. Insert(p, t) = p
      BY <1>2 DEF Insert
    <2> QED
      BY <1>2, <2>1 DEF Merged, Covered
  <1>3. CASE t \notin p.hash /\ Key(t) \notin DOMAIN p.nonce
    <2>1. PICK q : q = Add(p, t) /\ q = Insert(p, t)
      BY <1>3 DEF Insert
    <2>2. Pool(q) /\ Indexed(q)
      BY <1>1, <1>3, <2>1, AddIndexed
    <2>3. /\ q.hash = p.hash \cup {t}
          /\ q.gas = GasAdd(p.gas, t)
          /\ q.nonce = Put(p.nonce, Key(t), t)
      BY <2>1 DEF Add
    <2>4. /\ DOMAIN q.gas = DOMAIN p.gas \cup {Price[t]}
          /\ \A g \in DOMAIN p.gas : g # Price[t] => q.gas[g] = p.gas[g]
      <3> DEFINE new == GasAdd(p.gas, t)
      <3>1. /\ DOMAIN new = DOMAIN p.gas \cup {Price[t]}
            /\ \A g \in DOMAIN p.gas : g # Price[t] => new[g] = p.gas[g]
        BY GasAddFacts
      <3> QED
        BY <2>3, <3>1
    <2>5. /\ DOMAIN q.nonce = DOMAIN p.nonce \cup {Key(t)}
          /\ \A k \in DOMAIN p.nonce : k # Key(t) => q.nonce[k] = p.nonce[k]
      BY <2>3 DEF Put
    <2>6. GoodPool(q)
      BY <1>1, <2>2, <2>4 DEF GoodPool, Prices
    <2>7. ASSUME NEW u \in Txns, Covered(p, u) \/ u \in {t} PROVE Covered(q, u)
      <3>1. CASE u \in p.hash \/ u = t
        BY <2>3, <3>1 DEF Covered
      <3>2. CASE Key(u) \in DOMAIN p.nonce /\ Supersedes(p.nonce[Key(u)], u)
        <4>1. Key(u) # Key(t)
          BY <1>3, <3>2
        <4> QED
          BY <2>5, <3>2, <4>1 DEF Covered
      <3> QED
        BY <2>7, <3>1, <3>2 DEF Covered
    <2>8. Merged(p, q, {t})
      BY <2>3, <2>4, <2>6, <2>7 DEF Merged
    <2> QED
      BY <2>1, <2>8
  <1>4. CASE t \notin p.hash /\ Key(t) \in DOMAIN p.nonce
    <2>1. PICK old : old = p.nonce[Key(t)]
      OBVIOUS
    <2>2. old \in p.hash /\ old \in Txns /\ Key(old) = Key(t) /\ Price[old] \in DOMAIN p.gas
      BY <1>1, <1>4, <2>1 DEF Indexed
    <2>3. CASE ~ Supersedes(t, old)
      <3>1. Insert(p, t) = p
        BY <1>4, <2>1, <2>3 DEF Insert
      <3>2. Supersedes(old, t)
        BY <1>4, <2>2, <2>3, SupersedesOrder
      <3>3. Covered(p, t)
        BY <1>4, <2>1, <3>2 DEF Covered
      <3> QED
        BY <3>1, <3>3 DEF Merged
    <2>4. CASE Supersedes(t, old)
      <3>1. PICK q : q = Replace(p, old, t) /\ q = Insert(p, t)
        BY <1>4, <2>1, <2>4 DEF Insert
      <3>2. Pool(q) /\ Indexed(q)
        BY <1>1, <1>4, <2>1, <3>1, ReplaceIndexed
      <3>3. PICK mid : mid = GasErase(p.gas, old)
        OBVIOUS
      <3>4. /\ q.hash = (p.hash \ {old}) \cup {t}
            /\ q.gas = GasAdd(mid, t)
            /\ q.nonce = Put(p.nonce, Key(t), t)
        BY <3>1, <3>3 DEF Replace
      <3>5. /\ DOMAIN mid = DOMAIN p.gas
            /\ \A g \in DOMAIN p.gas : g # Price[old] => mid[g] = p.gas[g]
        <4> DEFINE new == GasErase(p.gas, old)
        <4>1. /\ DOMAIN new = DOMAIN p.gas
              /\ \A g \in DOMAIN p.gas : g # Price[old] => new[g] = p.gas[g]
          BY <2>2, GasEraseFacts
        <4> QED
          BY <3>3, <4>1
      <3>6. /\ DOMAIN q.gas = DOMAIN mid \cup {Price[t]}
            /\ \A g \in DOMAIN mid : g # Price[t] => q.gas[g] = mid[g]
        <4> DEFINE new == GasAdd(mid, t)
        <4>1. /\ DOMAIN new = DOMAIN mid \cup {Price[t]}
              /\ \A g \in DOMAIN mid : g # Price[t] => new[g] = mid[g]
          BY GasAddFacts
        <4> QED
          BY <3>4, <4>1
      <3>7. /\ DOMAIN q.nonce = DOMAIN p.nonce
            /\ q.nonce[Key(t)] = t
            /\ \A k \in DOMAIN p.nonce : k # Key(t) => q.nonce[k] = p.nonce[k]
        BY <1>4, <3>4 DEF Put
      <3>8. GoodPool(q)
        BY <1>1, <3>2, <3>5, <3>6 DEF GoodPool, Prices
      <3>9. ASSUME NEW u \in Txns, Covered(p, u) \/ u \in {t} PROVE Covered(q, u)
        <4>1. CASE (u \in p.hash /\ u # old) \/ u = t
          BY <3>4, <4>1 DEF Covered
        <4>2. CASE u = old
          <5>1. Key(u) \in DOMAIN q.nonce /\ q.nonce[Key(u)] = t
            BY <1>4, <2>2, <3>7, <4>2
          <5> QED
            BY <2>4, <4>2, <5>1 DEF Covered
        <4>3. CASE Key(u) \in DOMAIN p.nonce /\ Supersedes(p.nonce[Key(u)], u)
          <5>1. CASE Key(u) = Key(t)
            <6>1. Supersedes(old, u)
              BY <2>1, <4>3, <5>1
            <6>2. Supersedes(t, u)
              BY <2>2, <2>4, <6>1, SupersedesOrder
            <6>3. Key(u) \in DOMAIN q.nonce /\ q.nonce[Key(u)] = t
              BY <3>7, <4>3, <5>1
            <6> QED
              BY <6>2, <6>3 DEF Covered
          <5>2. CASE Key(u) # Key(t)
            BY <3>7, <4>3, <5>2 DEF Covered
          <5> QED
            BY <5>1, <5>2
        <4> QED
          BY <3>9, <4>1, <4>2, <4>3 DEF Covered
      <3>10. ASSUME NEW g \in DOMAIN p.gas, p.gas[g] = {}, Price[t] # g
             PROVE  g \in DOMAIN q.gas /\ q.gas[g] = {}
        <4>1. g # Price[old]
          BY <1>1, <2>2, <3>10 DEF Indexed
        <4> QED
          BY <3>5, <3>6, <3>10, <4>1
      <3>11. Merged(p, q, {t})
        BY <3>4, <3>8, <3>9, <3>10 DEF Merged
      <3> QED
        BY <3>1, <3>11
    <2> QED
      BY <2>3, <2>4
  <1> QED
    BY <1>2, <1>3, <1>4

LEMMA EraseGood ==
    ASSUME NEW p, GoodPool(p), NEW t \in p.hash
    PROVE  /\ GoodPool(EraseTxn(p, t)) /\ EraseTxn(p, t).hash = p.hash \ {t}
           /\ \A g \in DOMAIN EraseTxn(p, t).gas :
                 EraseTxn(p, t).gas[g] = {} => g \in DOMAIN p.gas /\ p.gas[g] = {}
  <1>1. Pool(p) /\ Consistent(p) /\ DOMAIN p.gas \subseteq Prices /\ Indexed(p)
    BY GoodConsistent DEF GoodPool
  <1>2. PICK q : q = EraseTxn(p, t)
    OBVIOUS
  <1>3. Pool(q) /\ Consistent(q) /\ q.hash = p.hash \ {t}
    BY <1>1, <1>2, EraseConsistent
  <1>4. PICK rest : rest = p.gas[Price[t]] \ {t}
    OBVIOUS
  <1>5. q.gas = IF rest = {} THEN Erase(p.gas, Price[t]) ELSE Put(p.gas, Price[t], rest)
    BY <1>2, <1>4 DEF EraseTxn
  <1>6. Price[t] \in DOMAIN p.gas
    BY <1>1 DEF Indexed
  <1>7. /\ DOMAIN q.gas \subseteq DOMAIN p.gas
        /\ \A g \in DOMAIN q.gas : q.gas[g] = {} => p.gas[g] = {}
    <2>1. CASE rest = {}
      <3>1. q.gas = Erase(p.gas, Price[t])
        BY <1>5, <2>1
      <3> QED
        BY <3>1 DEF Erase
    <2>2. CASE rest # {}
      <3>1. q.gas = Put(p.gas, Price[t], rest)
        BY <1>5, <2>2
      <3> QED
        BY <1>6, <2>2, <3>1 DEF Put
    <2> QED
      BY <2>1, <2>2
  <1>8. GoodPool(q)
    BY <1>1, <1>3, <1>7, ConsistentIndexed DEF GoodPool
  <1> QED
    BY <1>2, <1>3, <1>7, <1>8

\* findOne takes from the highest entry
LEMMA HighestEntry ==
    ASSUME NEW p, GoodPool(p), DOMAIN p.gas # {}
    PROVE  /\ Max(DOMAIN p.gas) \in DOMAIN p.gas
           /\ \A g \in DOMAIN p.gas : g \in Nat /\ Max(DOMAIN p.gas) >= g
  <1>1. PICK c \in Nat : Prices \subseteq 0 .. c
    BY PricesFacts
  <1>2. DOMAIN p.gas \subseteq 0 .. c /\ DOMAIN p.gas \subseteq Nat
    BY <1>1, PricesFacts DEF GoodPool
  <1> QED
    BY <1>2, GreatestElement

LEMMA FindOneFacts ==
    ASSUME NEW p, GoodPool(p), CanFindOne(p)
    PROVE  /\ FindOne(p) \in p.hash
           /\ \A g \in DOMAIN p.gas : p.gas[g] = {} => Price[FindOne(p)] > g
  <1>1. PICK m : /\ m \in DOMAIN p.gas /\ \A g \in DOMAIN p.gas : g \in Nat /\ m >= g
                 /\ FirstGas(p) = p.gas[m] /\ p.gas[m] # {}
    BY HighestEntry DEF CanFindOne, FirstGas
  <1>2. p.gas[m] \in SUBSET Nat
    BY <1>1, TxnsAssumption DEF GoodPool, Pool
  <1>3. \E t \in p.gas[m] : \A u \in p.gas[m] : t <= u
    BY <1>1, <1>2, LeastElement
  <1>4. FindOne(p) \in p.gas[m]
    BY <1>1, <1>3 DEF FindOne
  <1>5. FindOne(p) \in p.hash /\ Price[FindOne(p)] = m
    BY <1>1, <1>4 DEF GoodPool, Indexed
  <1> QED
    BY <1>1, <1>5

\* When it finds nothing, every transaction is behind an empty entry
LEMMA NothingFound ==
    ASSUME NEW p, GoodPool(p), ~ CanFindOne(p), NEW t \in p.hash
    PROVE  \E g \in DOMAIN p.gas : g > Price[t] /\ p.gas[g] = {}
  <1>1. Price[t] \in DOMAIN p.gas /\ t \in p.gas[Price[t]]
    BY DEF GoodPool, Indexed
  <1>2. PICK m : /\ m \in DOMAIN p.gas /\ \A g \in DOMAIN p.gas : g \in Nat /\ m >= g
                 /\ FirstGas(p) = p.gas[m]
    BY <1>1, HighestEntry DEF FirstGas
  <1>3. p.gas[m] = {}
    BY <1>1, <1>2 DEF CanFindOne
  <1>4. m # Price[t] /\ m >= Price[t] /\ m \in Nat /\ Price[t] \in Nat
    BY <1>1, <1>2, <1>3
  <1> QED
    BY <1>2, <1>3, <1>4

LEMMA HigherGasFacts ==
    ASSUME NEW p, GoodPool(p), NEW t, HasHigherGas(p, t)
    PROVE  /\ p.nonce[Key(t)] \in p.hash /\ Key(p.nonce[Key(t)]) = Key(t)
           /\ Price[p.nonce[Key(t)]] > Price[t]
  BY DEF GoodPool, Indexed, HasHigherGas

==============================================================================
