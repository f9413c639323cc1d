------------------------------- MODULE TxnPool -------------------------------
(***************************************************************************)
(* The transaction pool of a shard node (libData/AccountData/TxnPool.h):   *)
(* one set of transactions behind three indexes, by hash, by gas price and *)
(* by sender and nonce.  A transaction is named by its hash, of which only *)
(* the order is used.  The index by gas price keeps its empty entries:     *)
(* insert leaves them behind and findOne stops at them.                    *)
(***************************************************************************)
EXTENDS Integers, FiniteSets, FiniteSetsExt

CONSTANTS Txns,                   \* the transactions
          Sender, Nonce, Price    \* what they hold: functions on Txns

ASSUME TxnsAssumption ==
    /\ Txns \subseteq Nat /\ IsFiniteSet(Txns)
    /\ {Sender, Nonce, Price} \subseteq [Txns -> Nat]

\* map::operator[] and map::erase
Put(f, k, v) == [x \in DOMAIN f \cup {k} |-> IF x = k THEN v ELSE f[x]]
Erase(f, k) == [x \in DOMAIN f \ {k} |-> f[x]]

Key(t) == <<Sender[t], Nonce[t]>>

EmptyPool == [hash |-> {}, gas |-> <<>>, nonce |-> <<>>]

\* Mutation of GasErase: the replaced transaction stays in its entry.
GasEraseNothing(gas, t) == gas

\* The erasure of insert: the entry of the price stays, even when empty.
GasErase(gas, t) ==
    IF Price[t] \in DOMAIN gas THEN Put(gas, Price[t], gas[Price[t]] \ {t})
                              ELSE gas

GasAdd(gas, t) ==
    Put(gas, Price[t],
        {t} \cup IF Price[t] \in DOMAIN gas THEN gas[Price[t]] ELSE {})

\* Which of two transactions of one sender and nonce the pool keeps
Supersedes(t, old) ==
    Price[t] > Price[old] \/ (Price[t] = Price[old] /\ t < old)

Replace(pool, old, t) ==
    [hash  |-> (pool.hash \ {old}) \cup {t},
     gas   |-> GasAdd(GasErase(pool.gas, old), t),
     nonce |-> Put(pool.nonce, Key(t), t)]

Add(pool, t) ==
    [hash  |-> pool.hash \cup {t},
     gas   |-> GasAdd(pool.gas, t),
     nonce |-> Put(pool.nonce, Key(t), t)]

Insert(pool, t) ==
    IF t \in pool.hash THEN pool
    ELSE IF Key(t) \notin DOMAIN pool.nonce THEN Add(pool, t)
    ELSE IF Supersedes(t, pool.nonce[Key(t)])
         THEN Replace(pool, pool.nonce[Key(t)], t)
         ELSE pool

\* The erasure of findOne and findSameNonceButHigherGas: an entry that becomes
\* empty goes too.
EraseTxn(pool, t) ==
    LET rest == pool.gas[Price[t]] \ {t}
    IN  [hash  |-> pool.hash \ {t},
         gas   |-> IF rest = {} THEN Erase(pool.gas, Price[t])
                                ELSE Put(pool.gas, Price[t], rest),
         nonce |-> Erase(pool.nonce, Key(t))]

\* The entry GasIndex.begin(): the highest price, whether or not the entry
\* holds a transaction
FirstGas(pool) == pool.gas[Max(DOMAIN pool.gas)]

\* Mutation of CanFindOne: the last entry of the index is never looked at.
CanFindOneNotLast(pool) ==
    Cardinality(DOMAIN pool.gas) > 1 /\ FirstGas(pool) # {}

\* Whether findOne finds a transaction, and which one
CanFindOne(pool) == DOMAIN pool.gas # {} /\ FirstGas(pool) # {}
FindOne(pool) ==
    CHOOSE t \in FirstGas(pool) : \A u \in FirstGas(pool) : t <= u

\* What findSameNonceButHigherGas replaces t by, if anything
HasHigherGas(pool, t) ==
    Key(t) \in DOMAIN pool.nonce /\ Price[pool.nonce[Key(t)]] > Price[t]

------------------------------------------------------------------------------
\* The three indexes hold the same transactions, each under its own keys.
Consistent(pool) ==
    /\ pool.hash = UNION {pool.gas[g] : g \in DOMAIN pool.gas}
    /\ \A g \in DOMAIN pool.gas : \A t \in pool.gas[g] : Price[t] = g
    /\ \A k \in DOMAIN pool.nonce :
          pool.nonce[k] \in pool.hash /\ Key(pool.nonce[k]) = k
    /\ \A t \in pool.hash :
          Key(t) \in DOMAIN pool.nonce /\ pool.nonce[Key(t)] = t
==============================================================================
