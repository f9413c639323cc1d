--------------------------- MODULE ViewChangeProofs ---------------------------
(***************************************************************************)
(* Proofs about the view change of the DS committee: the type invariant,   *)
(* that committees stay permutations and leader indexes consistent, that   *)
(* equal chains of VC blocks give equal views, that a stale view change is *)
(* never signed and that the elected leader is another one.  They hold for *)
(* every size of the committee, every quorum of at least two and every     *)
(* hash, in guard mode and without it, whatever the timeouts.              *)
(*                                                                         *)
(* Pushing all faulty leaders to the back is a fold over the VC block.     *)
(* That it permutes the committee is shown by taking the shortest prefix   *)
(* for which it would not (LeastElement), for the function by which the    *)
(* fold is defined.                                                        *)
(***************************************************************************)
EXTENDS ViewChange, OrderLemmas, SequenceTheorems, FiniteSetTheorems, TLAPS

(* The hash that selects a candidate is a number (charArrTo16Bits)          *)
HashIsNumber == \A block, k, i : Hash(block, k, i) \in Nat

(* A committee in which every member has exactly one place                  *)
IsPermutation(comm) ==
    /\ comm \in [Nodes -> Nodes]
    /\ \A i, j \in Nodes : comm[i] = comm[j] => i = j
    /\ \A n \in Nodes : \E i \in Nodes : comm[i] = n

(* The objects, the chains and the view of the node outside are functions and *)
(* records of the shape that the actions give them                            *)
ShapeInv ==
    /\ \E V : object \in [Nodes -> [kind : V, id : V, leader : V, block : V]]
    /\ \E V : chain \in [Nodes -> Seq(V)]
    /\ \E V : outside \in [txChain : V, chain : Seq(V), committee : Seq(Nodes)]

(* Every member has one place in every committee *)
CommitteeInv ==
    /\ \A n \in Nodes : mode[n] # "IDLE" => IsPermutation(committee[n])
    /\ IsPermutation(outside.committee)

(* A VC block names members *)
BlockOK(block) ==
    block.kind = "vc" => block.leader \in Nodes /\ block.faulty \in Seq(Nodes)

(* A backup accepts a VC block only if it replaces the leader of a final block *)
(* consensus                                                                   *)
AcceptInv ==
    /\ \A block \in Announced \cup signed : BlockOK(block)
    /\ \A a \in accepts : (a.block.kind = "vc" /\ a.by # a.block.proposer) =>
                             a.block.state \in Final

(* The VC block of a view change that is going on is made for the committee of *)
(* the member, and its leader is a member other than the present leader        *)
ObjectInv ==
    \A n \in Nodes : LET block == object[n].block IN
        (mode[n] # "IDLE" /\ state[n] = "VIEWCHANGE_CONSENSUS" /\ block.kind = "vc") =>
            /\ BlockOK(block)
            /\ block.committee = committee[n]
            /\ block.proposer # n => block.state \in Final
            /\ \E i \in 0 .. (N - 1) : i # leaderID[n] /\ block.leader = Member(n, i)

(* Committee and leader follow from the last VC block *)
ViewInv ==
    /\ \A n \in Nodes : mode[n] # "IDLE" =>
         IF chain[n] = <<>>
         THEN committee[n] = [i \in Nodes |-> i] /\ leaderID[n] = 0
         ELSE LET block == Last(chain[n]) IN
              /\ committee[n] = NewComposition(block.committee, block)
              /\ leaderID[n] = NewLeaderID(committee[n], block)
    /\ outside.committee = IF outside.chain = <<>> THEN [i \in Nodes |-> i]
                           ELSE LET block == Last(outside.chain)
                                IN  NewComposition(block.committee, block)

-----------------------------------------------------------------------------
(* Committees *)

\* A permutation is a sequence
LEMMA PermutationSeq ==
    ASSUME NEW comm, IsPermutation(comm)
    PROVE  comm \in Seq(Nodes) /\ Len(comm) = N /\ DOMAIN comm = Nodes
  <1>1. N \in Nat /\ comm \in [1 .. N -> Nodes]
    BY SizeAssumption DEF IsPermutation, Nodes
  <1>2. comm \in Seq(Nodes)
    BY <1>1, SeqDef
  <1> QED
    BY <1>1, <1>2, LenProperties DEF Nodes

\* The member that is pushed to the back goes to the end, the others close ranks
LEMMA PushToBackFacts ==
    ASSUME NEW comm, IsPermutation(comm), NEW p \in Nodes
    PROVE  PushToBack(comm, comm[p]) =
             [i \in Nodes |-> IF i < p THEN comm[i] ELSE IF i < N THEN comm[i + 1] ELSE comm[p]]
  <1>1. comm \in Seq(Nodes) /\ Len(comm) = N /\ N \in Nat /\ p \in 1 .. N /\ Nodes = 1 .. N
    BY PermutationSeq, SizeAssumption DEF Nodes
  <1>2. {i \in 1 .. Len(comm) : comm[i] = comm[p]} = {p}
    BY <1>1 DEF IsPermutation
  <1>3. Min({p}) = p
    <2>1. {p} \in SUBSET Nat /\ {p} # {}
      BY <1>1
    <2>2. Min({p}) \in {p}
      BY <2>1, MinFacts, Zenon
    <2> QED
      BY <2>2
  <1>4. RemoveFirst(comm, comm[p]) = SubSeq(comm, 1, p - 1) \o SubSeq(comm, p + 1, N)
    <2>1. \E i \in 1 .. Len(comm) : comm[i] = comm[p]
      BY <1>1
    <2>2. SelectInSeq(comm, LAMBDA v : v = comm[p]) = p
      BY <1>2, <1>3 DEF SelectInSeq
    <2> QED
      BY <1>1, <2>1, <2>2 DEF RemoveFirst, RemoveAt
  <1>5. PICK a, b : a = SubSeq(comm, 1, p - 1) /\ b = SubSeq(comm, p + 1, N)
    OBVIOUS
  <1>6. \A i \in 1 .. N : comm[i] \in Nodes
    BY <1>1 DEF IsPermutation
  <1>7. /\ a \in Seq(Nodes) /\ Len(a) = p - 1
        /\ \A i \in 1 .. p - 1 : a[i] = comm[i]
    BY <1>1, <1>5, <1>6, SubSeqProperties
  <1>8. /\ b \in Seq(Nodes) /\ Len(b) = N - p
        /\ \A i \in 1 .. N - p : b[i] = comm[p + i]
    BY <1>1, <1>5, <1>6, SubSeqProperties
  <1>9. PICK c : c = a \o b
    OBVIOUS
  <1>10. /\ c \in Seq(Nodes) /\ Len(c) = N - 1
         /\ \A i \in 1 .. N - 1 : c[i] = IF i < p THEN comm[i] ELSE comm[i + 1]
    <2>1. /\ c \in Seq(Nodes) /\ Len(c) = Len(a) + Len(b)
          /\ \A i \in 1 .. Len(a) + Len(b) :
                c[i] = IF i <= Len(a) THEN a[i] ELSE b[i - Len(a)]
      BY <1>7, <1>8, <1>9, ConcatProperties, Zenon
    <2>2. Len(a) + Len(b) = N - 1
      BY <1>1, <1>7, <1>8
    <2>4. \A i \in 1 .. N - 1 : c[i] = IF i <= p - 1 THEN a[i] ELSE b[i - (p - 1)]
      BY <1>7, <2>1, <2>2
    <2>3. ASSUME NEW i \in 1 .. N - 1 PROVE c[i] = IF i < p THEN comm[i] ELSE comm[i + 1]
      <3>1. CASE i < p
        <4>1. i <= p - 1 /\ i \in 1 .. p - 1
          BY <1>1, <3>1
        <4> QED
          BY <1>7, <2>4, <3>1, <4>1
      <3>2. CASE ~ (i < p)
        <4>1. i - (p - 1) \in 1 .. N - p /\ p + (i - (p - 1)) = i + 1
          BY <1>1, <3>2
        <4>2. c[i] = b[i - (p - 1)]
          <5>1. ~ (i <= p - 1)
            BY <1>1, <3>2
          <5> QED
            BY <2>4, <5>1
        <4>3. b[i - (p - 1)] = comm[p + (i - (p - 1))]
          BY <1>8, <4>1
        <4> QED
          BY <3>2, <4>1, <4>2, <4>3
      <3> QED
        BY <3>1, <3>2
    <2> QED
      BY <2>1, <2>2, <2>3
  <1>11. PICK d : d = Append(c, comm[p])
    OBVIOUS
  <1>12. /\ d \in Seq(Nodes) /\ Len(d) = N /\ d[N] = comm[p]
         /\ \A i \in 1 .. N - 1 : d[i] = c[i]
    BY <1>1, <1>6, <1>10, <1>11
  <1>13. d = [i \in 1 .. N |-> IF i < p THEN comm[i] ELSE IF i < N THEN comm[i + 1] ELSE comm[p]]
    BY <1>1, <1>10, <1>12
  <1> QED
    BY <1>1, <1>4, <1>5, <1>9, <1>11, <1>13 DEF PushToBack

\* It is still a committee in which every member has one place
LEMMA PushToBackPermutes ==
    ASSUME NEW comm, IsPermutation(comm), NEW m \in Nodes
    PROVE  IsPermutation(PushToBack(comm, m))
  <1>1. PICK p \in Nodes : comm[p] = m
    BY DEF IsPermutation
  <1>2. PICK d : d = PushToBack(comm, m)
    OBVIOUS
  <1>3. d = [i \in Nodes |-> IF i < p THEN comm[i] ELSE IF i < N THEN comm[i + 1] ELSE comm[p]]
    BY <1>1, <1>2, PushToBackFacts
  <1>4. N \in Nat /\ Nodes = 1 .. N
    BY SizeAssumption DEF Nodes
  <1>5. /\ \A i \in Nodes : comm[i] \in Nodes
        /\ \A i, j \in Nodes : comm[i] = comm[j] => i = j
    BY DEF IsPermutation
  <1>6. \A i \in Nodes : \E k \in Nodes : /\ d[i] = comm[k]
                                          /\ i < p => k = i
                                          /\ p <= i /\ i < N => k = i + 1
                                          /\ p <= i /\ i = N => k = p
    <2> TAKE i \in Nodes
    <2>1. CASE i < p
      BY <1>3, <1>4, <2>1
    <2>2. CASE p <= i /\ i < N
      <3>1. i + 1 \in Nodes
        BY <1>4, <2>2
      <3> QED
        BY <1>3, <1>4, <2>2, <3>1
    <2>3. CASE p <= i /\ i = N
      BY <1>3, <1>4, <2>3
    <2> QED
      BY <1>4, <2>1, <2>2, <2>3
  <1>7. d \in [Nodes -> Nodes]
    <2>1. \A i \in Nodes : d[i] \in Nodes
      BY <1>5, <1>6, Zenon
    <2> QED
      BY <1>3, <2>1
  <1>8. ASSUME NEW i \in Nodes, NEW j \in Nodes, d[i] = d[j] PROVE i = j
    <2>1. PICK k \in Nodes : /\ d[i] = comm[k]
                             /\ i < p => k = i
                             /\ p <= i /\ i < N => k = i + 1
                             /\ p <= i /\ i = N => k = p
      BY <1>6, Zenon
    <2>2. PICK l \in Nodes : /\ d[j] = comm[l]
                             /\ j < p => l = j
                             /\ p <= j /\ j < N => l = j + 1
                             /\ p <= j /\ j = N => l = p
      BY <1>6, Zenon
    <2>3. k = l
      BY <1>5, <1>8, <2>1, <2>2
    <2> QED
      BY <1>4, <2>1, <2>2, <2>3
  <1>9. ASSUME NEW n \in Nodes PROVE \E i \in Nodes : d[i] = n
    <2>1. PICK i \in Nodes : comm[i] = n
      BY DEF IsPermutation
    <2>2. CASE i < p
      BY <1>3, <2>1, <2>2
    <2>3. CASE i = p
      BY <1>3, <1>4, <2>1, <2>3
    <2>4. CASE i > p
      <3>1. i - 1 \in Nodes /\ ~ (i - 1 < p) /\ i - 1 < N /\ (i - 1) + 1 = i
        BY <1>4, <2>4
      <3> QED
        BY <1>3, <2>1, <3>1
    <2> QED
      BY <1>4, <2>2, <2>3, <2>4
  <1> QED
    BY <1>2, <1>7, <1>8, <1>9 DEF IsPermutation

\* f goes through the prefixes of seq and pushes their members to the back
IsFold(f, comm, seq, d) ==
    f = [s \in SUBSET d |->
           IF s = {} THEN comm ELSE PushToBack(f[s \ {Max(s)}], seq[Max(s)])]

\* Such a function exists for every length
LEMMA FoldExists ==
    ASSUME NEW comm, NEW seq, NEW len \in Nat
    PROVE  \E f : IsFold(f, comm, seq, 1 .. len)
  <1> DEFINE P(k) == \E f : f = [s \in SUBSET (1 .. k) |->
                                   IF s = {} THEN comm
                                   ELSE PushToBack(f[s \ {Max(s)}], seq[Max(s)])]
             Bad == {k \in Nat : ~ P(k)}
  <1>1. P(0)
    <2>1. PICK f : f = [s \in SUBSET (1 .. 0) |-> comm]
      OBVIOUS
    <2>2. \A s \in SUBSET (1 .. 0) : s = {}
      OBVIOUS
    <2>3. f = [s \in SUBSET (1 .. 0) |->
                 IF s = {} THEN comm ELSE PushToBack(f[s \ {Max(s)}], seq[Max(s)])]
      BY <2>1, <2>2
    <2> QED
      BY <2>3
  <1>2. ASSUME NEW k \in Nat, P(k) PROVE P(k + 1)
    <2>1. PICK f : f = [s \in SUBSET (1 .. k) |->
                          IF s = {} THEN comm
                          ELSE PushToBack(f[s \ {Max(s)}], seq[Max(s)])]
      BY <1>2
    <2>2. PICK g : g = [s \in SUBSET (1 .. k + 1) |->
                          IF k + 1 \in s THEN PushToBack(f[s \ {k + 1}], seq[k + 1])
                          ELSE f[s]]
      OBVIOUS
    <2>3. ASSUME NEW s \in SUBSET (1 .. k + 1)
          PROVE  g[s] = IF s = {} THEN comm
                        ELSE PushToBack(g[s \ {Max(s)}], seq[Max(s)])
      <3>1. CASE k + 1 \in s
        <4>1. Max(s) = k + 1
          <5>1. s \subseteq 0 .. k + 1 /\ s # {} /\ k + 1 \in Nat
            BY <3>1
          <5>2. Max(s) \in s /\ \A y \in s : Max(s) >= y
            BY <5>1, GreatestElement
          <5>3. Max(s) \in 1 .. k + 1 /\ Max(s) >= k + 1
            BY <3>1, <5>2
          <5> QED
            BY <5>3
        <4>2. s \ {k + 1} \in SUBSET (1 .. k) /\ s \ {k + 1} \in SUBSET (1 .. k + 1)
          OBVIOUS
        <4>3. g[s \ {k + 1}] = f[s \ {k + 1}]
          BY <2>2, <4>2
        <4> QED
          BY <2>2, <3>1, <4>1, <4>3
      <3>2. CASE k + 1 \notin s
        <4>1. s \in SUBSET (1 .. k)
          BY <3>2
        <4>2. g[s] = f[s]
          BY <2>2, <3>2
        <4>3. s \ {Max(s)} \in SUBSET (1 .. k) /\ s \ {Max(s)} \in SUBSET (1 .. k + 1)
          BY <4>1
        <4>4. g[s \ {Max(s)}] = f[s \ {Max(s)}]
          BY <2>2, <4>3
        <4> QED
          BY <2>1, <4>1, <4>2, <4>4
      <3> QED
        BY <3>1, <3>2
    <2>4. g = [s \in SUBSET (1 .. k + 1) |->
                 IF s = {} THEN comm ELSE PushToBack(g[s \ {Max(s)}], seq[Max(s)])]
      BY <2>2, <2>3
    <2> QED
      BY <2>4
  <1> HIDE DEF P
  <1>3. Bad = {}
    <2> SUFFICES ASSUME Bad # {} PROVE FALSE
      OBVIOUS
    <2>1. PICK k \in Bad : \A y \in Bad : k <= y
      BY LeastElement
    <2>2. k - 1 \in Nat /\ k - 1 \notin Bad
      BY <1>1, <2>1
    <2>3. P(k - 1) /\ (k - 1) + 1 = k
      BY <2>2
    <2> QED
      BY <1>2, <2>1, <2>2, <2>3
  <1>4. P(len)
    BY <1>3
  <1> QED
    BY <1>4 DEF P, IsFold

\* PushAllToBack is the value of such a function for the whole sequence
LEMMA FoldChooses ==
    ASSUME NEW comm, NEW seq
    PROVE  PushAllToBack(comm, seq) = (CHOOSE f : IsFold(f, comm, seq, DOMAIN seq))[DOMAIN seq]
  BY DEF PushAllToBack, FoldLeft, MapThenFoldSet, IsFold

\* Pushing any number of members to the back keeps every member in its one place
LEMMA FoldPermutes ==
    ASSUME NEW comm, IsPermutation(comm), NEW seq \in Seq(Nodes)
    PROVE  IsPermutation(PushAllToBack(comm, seq))
  <1>1. PICK len \in Nat : DOMAIN seq = 1 .. len /\ \A i \in 1 .. len : seq[i] \in Nodes
    BY LenProperties, ElementOfSeq
  <1>2. \E f : IsFold(f, comm, seq, DOMAIN seq)
    BY <1>1, FoldExists
  <1>3. PICK f : IsFold(f, comm, seq, DOMAIN seq) /\ PushAllToBack(comm, seq) = f[DOMAIN seq]
    BY <1>2, FoldChooses
  <1>5. f = [s \in SUBSET (1 .. len) |->
               IF s = {} THEN comm ELSE PushToBack(f[s \ {Max(s)}], seq[Max(s)])]
    BY <1>1, <1>3 DEF IsFold
  <1> DEFINE Bad == {k \in 0 .. len : ~ \A s \in SUBSET (1 .. k) : IsPermutation(f[s])}
  <1>6. Bad = {}
    <2> SUFFICES ASSUME Bad # {} PROVE FALSE
      OBVIOUS
    <2>1. PICK k \in Bad : \A y \in Bad : k <= y
      <3>1. Bad \in SUBSET Nat
        OBVIOUS
      <3> HIDE DEF Bad
      <3> QED
        BY <3>1, LeastElement
    <2>2. PICK s \in SUBSET (1 .. k) : ~ IsPermutation(f[s])
      OBVIOUS
    <2>3. k \in 0 .. len /\ s \in SUBSET (1 .. len)
      BY <1>1
    <2>4. s # {}
      BY <1>5, <2>2, <2>3
    <2>5. k - 1 \in 0 .. len /\ k \in 1 .. len
      <3>1. k # 0
        <4>1. 1 .. 0 = {}
          OBVIOUS
        <4> QED
          BY <2>2, <2>4, <4>1
      <3> QED
        BY <2>3, <3>1
    <2>6. \A t \in SUBSET (1 .. k - 1) : IsPermutation(f[t])
      <3>1. k - 1 \notin Bad
        <4> HIDE DEF Bad
        <4>1. k - 1 \in Bad => k <= k - 1
          BY <2>1
        <4> QED
          BY <2>5, <4>1
      <3> QED
        BY <2>5, <3>1
    <2>7. k \in s
      <3>1. k \notin s => s \in SUBSET (1 .. k - 1)
        BY <2>3
      <3> QED
        BY <2>2, <2>6, <3>1
    <2>8. Max(s) = k
      <3>1. s \subseteq 0 .. k /\ k \in Nat
        BY <1>1, <2>3
      <3>2. Max(s) \in s /\ \A y \in s : Max(s) >= y
        BY <2>4, <3>1, GreatestElement
      <3>3. Max(s) \in 1 .. k /\ Max(s) >= k
        BY <2>7, <3>2
      <3> QED
        BY <3>1, <3>3
    <2>9. IsPermutation(f[s \ {k}])
      <3>1. s \ {k} \in SUBSET (1 .. k - 1)
        BY <2>3
      <3> QED
        BY <2>6, <3>1
    <2>10. f[s] = PushToBack(f[s \ {k}], seq[k])
      BY <1>5, <2>3, <2>4, <2>8
    <2> QED
      BY <1>1, <2>2, <2>5, <2>9, <2>10, PushToBackPermutes
  <1>7. IsPermutation(f[1 .. len])
    <2>1. len \in 0 .. len
      OBVIOUS
    <2>2. len \notin Bad
      BY <1>6, Zenon
    <2> QED
      BY <2>1, <2>2
  <1> QED
    BY <1>1, <1>3, <1>7

\* The place that is found for a member is the place it has
LEMMA IndexFacts ==
    ASSUME NEW comm, IsPermutation(comm), NEW m \in Nodes
    PROVE  IndexIn(comm, m) \in 0 .. (N - 1) /\ comm[IndexIn(comm, m) + 1] = m
  <1>1. DOMAIN comm = Nodes /\ N \in Nat /\ Nodes = 1 .. N
    BY PermutationSeq, SizeAssumption DEF Nodes
  <1>2. \E i \in DOMAIN comm : comm[i] = m
    BY <1>1 DEF IsPermutation
  <1>3. PICK c : c = CHOOSE i \in DOMAIN comm : comm[i] = m
    OBVIOUS
  <1>4. c \in DOMAIN comm /\ comm[c] = m
    BY <1>2, <1>3
  <1>5. IndexIn(comm, m) = c - 1 /\ c \in 1 .. N
    BY <1>1, <1>3, <1>4 DEF IndexIn
  <1>6. c - 1 \in 0 .. (N - 1) /\ (c - 1) + 1 = c
    BY <1>1, <1>5
  <1> QED
    BY <1>4, <1>5, <1>6

\* Indexes from 0 name the members of a committee, each of them once
LEMMA MemberFacts ==
    ASSUME NEW n \in Nodes, IsPermutation(committee[n])
    PROVE  /\ \A i \in 0 .. (N - 1) : Member(n, i) \in Nodes
           /\ \A i, j \in 0 .. (N - 1) : Member(n, i) = Member(n, j) => i = j
  <1>1. N \in Nat /\ Nodes = 1 .. N
    BY SizeAssumption DEF Nodes
  <1>2. \A i \in 0 .. (N - 1) : i + 1 \in Nodes
    BY <1>1
  <1>3. PICK comm : comm = committee[n] /\ IsPermutation(comm)
    OBVIOUS
  <1>4. \A i \in 0 .. (N - 1) : Member(n, i) = comm[i + 1]
    BY <1>3 DEF Member
  <1>5. \A i, j \in 0 .. (N - 1) : i + 1 = j + 1 => i = j
    BY <1>1
  <1>6. ASSUME NEW i \in 0 .. (N - 1), NEW j \in 0 .. (N - 1), Member(n, i) = Member(n, j)
        PROVE  i = j
    <2>1. comm[i + 1] = comm[j + 1]
      BY <1>4, <1>6
    <2>2. i + 1 = j + 1
      BY <1>2, <1>3, <2>1 DEF IsPermutation
    <2> QED
      BY <1>5, <2>2
  <1>7. ASSUME NEW i \in 0 .. (N - 1) PROVE Member(n, i) \in Nodes
    <2>1. i + 1 \in Nodes /\ comm \in [Nodes -> Nodes] /\ Member(n, i) = comm[i + 1]
      BY <1>2, <1>3, <1>4 DEF IsPermutation
    <2> QED
      BY <2>1, Zenon
  <1> QED
    BY <1>6, <1>7

\* The loop of CalculateNewLeaderIndex ends with an index of the committee that
\* is not the one of the present leader
LEMMA CandidateFacts ==
    ASSUME HashIsNumber, NEW n \in Nodes, NEW k, LeaderFound(n, k)
    PROVE  /\ CalculateNewLeaderIndex(n, k) \in 0 .. (N - 1)
           /\ CalculateNewLeaderIndex(n, k) # leaderID[n]
  <1>1. N \in Nat /\ \A i : Attempt(n, k, i) \in 0 .. (N - 1)
    BY SizeAssumption, GuardAssumption DEF Attempt, HashIsNumber
  <1> DEFINE Good == {i \in 0 .. N : Attempt(n, k, i) # leaderID[n]}
  <1>2. Good \in SUBSET Nat /\ Good # {}
    BY <1>1 DEF LeaderFound
  <1>3. PICK i \in Good : \A y \in Good : i <= y
    <2> HIDE DEF Good
    <2> QED
      BY <1>2, LeastElement
  <1>4. /\ i \in 0 .. N
        /\ Attempt(n, k, i) # leaderID[n]
        /\ \A j \in 0 .. (i - 1) : Attempt(n, k, j) = leaderID[n]
    <2>1. i \in 0 .. N /\ Attempt(n, k, i) # leaderID[n]
      OBVIOUS
    <2>2. ASSUME NEW j \in 0 .. (i - 1) PROVE Attempt(n, k, j) = leaderID[n]
      <3>1. j \in 0 .. N /\ ~ (i <= j)
        BY <1>1, <2>1
      <3>2. j \notin Good
        BY <1>3, <3>1
      <3> QED
        BY <3>1, <3>2
    <2> QED
      BY <2>1, <2>2
  <1>5. PICK f : f = CHOOSE h \in 0 .. N :
                       /\ Attempt(n, k, h) # leaderID[n]
                       /\ \A j \in 0 .. (h - 1) : Attempt(n, k, j) = leaderID[n]
    OBVIOUS
  <1>6. Attempt(n, k, f) # leaderID[n]
    BY <1>4, <1>5
  <1>7. CalculateNewLeaderIndex(n, k) = Attempt(n, k, f)
    BY <1>5 DEF CalculateNewLeaderIndex
  <1> QED
    BY <1>1, <1>6, <1>7

\* Of the quorum behind a block one is not its proposer
LEMMA QuorumBacks ==
    ASSUME accepts \subseteq [by : Nodes, block : Announced], NEW block,
           Cardinality({a \in accepts : a.block = block}) >= Quorum
    PROVE  \E a \in accepts : a.block = block /\ a.by # block.proposer
  <1> SUFFICES ASSUME \A a \in accepts : a.block = block => a.by = block.proposer
               PROVE  FALSE
    OBVIOUS
  <1> DEFINE A == {a \in accepts : a.block = block}
             one == [by |-> block.proposer, block |-> block]
  <1>1. ASSUME NEW a \in A PROVE a = one
    <2>1. a \in [by : Nodes, block : Announced] /\ a.block = block /\ a.by = block.proposer
      OBVIOUS
    <2>2. a = [by |-> a.by, block |-> a.block]
      BY <2>1
    <2> QED
      BY <2>1, <2>2
  <1>2. A \subseteq {one}
    BY <1>1, Zenon
  <1>3. IsFiniteSet({one}) /\ Cardinality({one}) = 1
    BY FS_Singleton
  <1> HIDE DEF A, one
  <1>4. Cardinality(A) <= 1
    BY <1>2, <1>3, FS_Subset
  <1>5. IsFiniteSet(A) /\ Cardinality(A) \in Nat
    BY <1>2, <1>3, FS_Subset, FS_CardinalityType
  <1>6. Quorum \in Nat /\ Quorum >= 2
    BY QuorumAssumption, SizeAssumption
  <1>7. Cardinality(A) >= Quorum
    BY DEF A
  <1> QED
    BY <1>4, <1>5, <1>6, <1>7

-----------------------------------------------------------------------------
(* The inductive invariant *)

IInv == /\ TypeOK
        /\ ShapeInv
        /\ CommitteeInv
        /\ AcceptInv
        /\ ObjectInv
        /\ ViewInv
        /\ LeaderIndexConsistent

\* The parts of the type invariant
NodeTypes ==
    /\ crashed \subseteq Nodes
    /\ state \in [Nodes -> DirStates]
    /\ vcstate \in [Nodes -> DirStates \ ViewChangeStates]
    /\ mode \in [Nodes -> {"PRIMARY_DS", "BACKUP_DS", "IDLE"}]
    /\ committee \in [Nodes -> Seq(Nodes)]
    /\ leaderID \in [Nodes -> 0 .. (N - 1)]
    /\ candidate \in [Nodes -> 0 .. (N - 1)]
    /\ counter \in [Nodes -> Nat]
    /\ \A n \in Nodes : faulty[n] \in Seq(Nodes)
    /\ outside.committee \in Seq(Nodes)

ThreadTypes ==
    /\ fbTimers \in [Nodes -> Nat]
    /\ vcTimers \in [Nodes -> Nat]
    /\ runVC \in [Nodes -> Nat]
    /\ prechecks \in [Nodes -> Nat]
    /\ runFB \in [Nodes -> Nat]

AcceptTypes == accepts \subseteq [by : Nodes, block : Announced]

LEMMA TypeParts ==
    /\ TypeOK <=> NodeTypes /\ ThreadTypes /\ AcceptTypes
    /\ TypeOK' <=> (NodeTypes /\ ThreadTypes /\ AcceptTypes)'
  <1>1. (\A thread \in {fbTimers, vcTimers, runVC, prechecks, runFB} : thread \in [Nodes -> Nat])
        <=> ThreadTypes
    BY Zenon DEF ThreadTypes
  <1>2. (\A thread \in {fbTimers, vcTimers, runVC, prechecks, runFB} : thread \in [Nodes -> Nat])'
        <=> ThreadTypes'
    BY Zenon DEF ThreadTypes
  <1> QED
    BY <1>1, <1>2, Zenon DEF TypeOK, NodeTypes, AcceptTypes

\* One more thread, one less, none
LEMMA CountFacts ==
    ASSUME NEW f \in [Nodes -> Nat], NEW n \in Nodes
    PROVE  /\ [f EXCEPT ![n] = @ + 1] \in [Nodes -> Nat]
           /\ f[n] > 0 => [f EXCEPT ![n] = @ - 1] \in [Nodes -> Nat]
           /\ [f EXCEPT ![n] = 0] \in [Nodes -> Nat]
  OBVIOUS

\* The invariant but for the types, while no object, no block and no view changes
LEMMA SameObjects ==
    ASSUME IInv,
           UNCHANGED <<object, chain, outside, mode, committee, leaderID>>,
           accepts' = accepts \/ accepts' = {},
           signed' \subseteq signed,
           \A m \in Nodes : state'[m] = "VIEWCHANGE_CONSENSUS" =>
                               state[m] = "VIEWCHANGE_CONSENSUS"
    PROVE  (ShapeInv /\ CommitteeInv /\ AcceptInv /\ ObjectInv /\ ViewInv
              /\ LeaderIndexConsistent)'
  <1>1. ShapeInv'
    BY DEF IInv, ShapeInv
  <1>2. CommitteeInv'
    BY DEF IInv, CommitteeInv
  <1>3. AcceptInv'
    BY DEF IInv, AcceptInv, Announced
  <1>4. ObjectInv'
    BY DEF IInv, ObjectInv, Member
  <1>5. ViewInv'
    BY DEF IInv, ViewInv
  <1>6. LeaderIndexConsistent'
    BY DEF IInv, LeaderIndexConsistent, Member
  <1> QED
    BY <1>1, <1>2, <1>3, <1>4, <1>5, <1>6

\* A thread times out, a view change begins or a member stops
LEMMA QuietStep ==
    ASSUME IInv, NEW n \in Nodes,
           \/ FinalBlockTimeout(n)
           \/ ViewChangeTimeout(n)
           \/ BeginViewChange(n)
           \/ Crash(n)
    PROVE  IInv'
  <1> USE DEF nodeVars, vcVars, threadVars
  <1>1. /\ UNCHANGED <<object, chain, outside, mode, committee, leaderID>>
        /\ accepts' = accepts /\ signed' = signed
    BY DEF FinalBlockTimeout, ViewChangeTimeout, BeginViewChange, Crash
  <1>2. \A m \in Nodes : state'[m] = "VIEWCHANGE_CONSENSUS" => state[m] = "VIEWCHANGE_CONSENSUS"
    BY DEF FinalBlockTimeout, ViewChangeTimeout, BeginViewChange, Crash, IInv, TypeOK
  <1>3. TypeOK'
    <2>1. NodeTypes /\ ThreadTypes /\ AcceptTypes
      BY TypeParts DEF IInv
    <2>2. AcceptTypes'
      BY <1>1, <2>1 DEF AcceptTypes, Announced
    <2>3. ThreadTypes'
      BY <2>1, CountFacts
      DEF FinalBlockTimeout, ViewChangeTimeout, BeginViewChange, Crash, ThreadTypes
    <2>4. NodeTypes'
      <3>1. CASE BeginViewChange(n)
        BY <2>1, <3>1 DEF BeginViewChange, NodeTypes, DirStates, Final,
           ViewChangeStates, LastKnownGoodState
      <3>2. CASE ~ BeginViewChange(n)
        BY <2>1, <3>2 DEF FinalBlockTimeout, ViewChangeTimeout, Crash, NodeTypes
      <3> QED
        BY <3>1, <3>2
    <2> QED
      BY <2>2, <2>3, <2>4, TypeParts
  <1> QED
    BY <1>1, <1>2, <1>3, SameObjects DEF IInv

\* All threads time out together
LEMMA RoundStep ==
    ASSUME IInv, RoundTimeout
    PROVE  IInv'
  <1> USE DEF nodeVars, vcVars, threadVars
  <1>1. /\ UNCHANGED <<nodeVars, vcVars, prechecks, runFB, state, object, outside>>
        /\ runVC' = [n \in Nodes |-> IF Active(n) THEN runVC[n] + fbTimers[n] + vcTimers[n]
                                                  ELSE runVC[n]]
        /\ fbTimers' = [n \in Nodes |-> 0]
        /\ vcTimers' = [n \in Nodes |-> 0]
        /\ accepts' = {}
        /\ signed' \subseteq signed
    BY DEF RoundTimeout
  <1>2. TypeOK'
    <2>1. NodeTypes /\ ThreadTypes
      BY TypeParts DEF IInv
    <2>2. AcceptTypes'
      BY <1>1 DEF AcceptTypes
    <2>3. ThreadTypes'
      BY <1>1, <2>1 DEF ThreadTypes
    <2>4. NodeTypes'
      BY <1>1, <2>1 DEF NodeTypes
    <2> QED
      BY <2>2, <2>3, <2>4, TypeParts
  <1> QED
    BY <1>1, <1>2, SameObjects DEF IInv

\* The committees and the views, while no chain changes
LEMMA SameView ==
    ASSUME IInv, UNCHANGED <<chain, outside, mode, committee, leaderID>>
    PROVE  (CommitteeInv /\ ViewInv /\ LeaderIndexConsistent)'
  <1>1. CommitteeInv'
    BY DEF IInv, CommitteeInv
  <1>2. ViewInv'
    BY DEF IInv, ViewInv
  <1>3. LeaderIndexConsistent'
    BY DEF IInv, LeaderIndexConsistent, Member
  <1> QED
    BY <1>1, <1>2, <1>3

\* A member that announces or accepts a block
LEMMA AcceptsGrow ==
    ASSUME AcceptTypes, NEW n \in Nodes, NEW block,
           \/ accepts' = accepts
           \/ accepts' = accepts \cup {[by |-> n, block |-> block]}
    PROVE  /\ AcceptTypes'
           /\ \A b \in Announced' : b \in Announced \/ b = block
           /\ \A a \in accepts' : a \in accepts \/ (a.by = n /\ a.block = block)
  <1>1. PICK one : one = [by |-> n, block |-> block]
    OBVIOUS
  <1>2. one.by = n /\ one.block = block
    BY <1>1
  <1>3. \A a \in accepts' : a \in accepts \/ a = one
    BY <1>1
  <1>4. \A b \in Announced' : b \in Announced \/ b = block
    BY <1>2, <1>3 DEF Announced
  <1>5. ASSUME NEW a \in accepts' PROVE a \in [by : Nodes, block : Announced']
    <2>1. a.block \in Announced'
      BY DEF Announced
    <2>2. CASE a \in accepts
      <3>1. a \in [by : Nodes, block : Announced]
        BY <2>2 DEF AcceptTypes
      <3>2. a = [by |-> a.by, block |-> a.block] /\ a.by \in Nodes
        BY <3>1
      <3> QED
        BY <2>1, <3>2
    <2>3. CASE a = one
      BY <1>1, <1>2, <2>1, <2>3
    <2> QED
      BY <1>3, <2>2, <2>3
  <1> QED
    BY <1>2, <1>3, <1>4, <1>5 DEF AcceptTypes

\* A member starts a consensus, with a block of its own or without one
LEMMA ObjectShape ==
    ASSUME ShapeInv, NEW n \in Nodes, NEW kind, NEW id, NEW leader, NEW block,
           UNCHANGED <<chain, outside>>,
           object' = [object EXCEPT ![n] = [kind |-> kind, id |-> id,
                                            leader |-> leader, block |-> block]]
    PROVE  /\ ShapeInv'
           /\ object'[n].block = block
           /\ \A m \in Nodes \ {n} : object'[m] = object[m]
  <1>1. PICK V : object \in [Nodes -> [kind : V, id : V, leader : V, block : V]]
    BY DEF ShapeInv
  <1>2. PICK new : new = [kind |-> kind, id |-> id, leader |-> leader, block |-> block]
    OBVIOUS
  <1>3. PICK W : W = V \cup {kind, id, leader, block}
    OBVIOUS
  <1>4. new \in [kind : W, id : W, leader : W, block : W] /\ new.block = block
    BY <1>2, <1>3
  <1>5. object \in [Nodes -> [kind : W, id : W, leader : W, block : W]]
    <2>1. V \subseteq W
      BY <1>3
    <2>2. [kind : V, id : V, leader : V, block : V] \subseteq [kind : W, id : W, leader : W, block : W]
      BY <2>1
    <2> QED
      BY <1>1, <2>2
  <1>6. object' = [object EXCEPT ![n] = new]
    BY <1>2
  <1>7. /\ object' \in [Nodes -> [kind : W, id : W, leader : W, block : W]]
        /\ object'[n] = new
        /\ \A m \in Nodes \ {n} : object'[m] = object[m]
    BY <1>4, <1>5, <1>6
  <1>8. ShapeInv'
    BY <1>7 DEF ShapeInv
  <1> QED
    BY <1>4, <1>7, <1>8

\* The final block consensus starts
LEMMA StartStep ==
    ASSUME IInv, NEW n \in Nodes,
           \/ RunConsensusOnFinalBlock(n)
           \/ EarlyFinalBlock(n)
           \/ ProcessNextConsensus(n)
    PROVE  IInv'
  <1> USE DEF nodeVars, vcVars, threadVars
  <1>1. /\ UNCHANGED <<nodeVars, vcVars, vcTimers, runVC, prechecks, signed, outside>>
        /\ runFB' = runFB \/ (runFB[n] > 0 /\ runFB' = [runFB EXCEPT ![n] = @ - 1])
        /\ \/ StartFinalBlock(n)
           \/ UNCHANGED <<state, object, fbTimers, accepts>>
    <2>1. CASE RunConsensusOnFinalBlock(n)
      BY <2>1, Zenon DEF RunConsensusOnFinalBlock
    <2>2. CASE EarlyFinalBlock(n)
      BY <2>2, Zenon DEF EarlyFinalBlock
    <2>3. CASE ProcessNextConsensus(n)
      BY <2>3, Zenon DEF ProcessNextConsensus
    <2> QED
      BY <2>1, <2>2, <2>3
  <1>2. NodeTypes /\ ThreadTypes /\ AcceptTypes
    BY TypeParts DEF IInv
  <1>3. CASE UNCHANGED <<state, object, fbTimers, accepts>>
    <2>1. ThreadTypes'
      BY <1>1, <1>2, <1>3, CountFacts DEF ThreadTypes
    <2>2. NodeTypes'
      BY <1>1, <1>2, <1>3 DEF NodeTypes
    <2>3. AcceptTypes'
      BY <1>2, <1>3 DEF AcceptTypes, Announced
    <2>4. TypeOK'
      BY <2>1, <2>2, <2>3, TypeParts
    <2> QED
      BY <1>1, <1>3, <2>4, SameObjects DEF IInv
  <1>4. CASE StartFinalBlock(n)
    <2>1. PICK block : /\ block = IF mode[n] = "PRIMARY_DS" THEN FinalBlock(n) ELSE NoBlock
                       /\ block.kind # "vc"
      <3>1. FinalBlock(n).kind = "final"
        BY DEF FinalBlock
      <3>2. NoBlock.kind = "none"
        BY DEF NoBlock
      <3> QED
        BY <3>1, <3>2
    <2>2. /\ state' = [state EXCEPT ![n] = "FINALBLOCK_CONSENSUS"]
          /\ object' = [object EXCEPT ![n] =
                          [kind |-> "final", id |-> Epoch(n),
                           leader |-> leaderID[n], block |-> block]]
          /\ fbTimers' = [fbTimers EXCEPT ![n] = @ + 1]
          /\ Announce(n, block)
      BY <1>4, <2>1, Zenon DEF StartFinalBlock
    <2>3. \/ accepts' = accepts
          \/ accepts' = accepts \cup {[by |-> n, block |-> block]}
      BY <2>2 DEF Announce
    <2>4. /\ AcceptTypes'
          /\ \A b \in Announced' : b \in Announced \/ b = block
          /\ \A a \in accepts' : a \in accepts \/ (a.by = n /\ a.block = block)
      BY <1>2, <2>3, AcceptsGrow
    <2>5. AcceptInv'
      BY <1>1, <2>1, <2>4 DEF IInv, AcceptInv, BlockOK
    <2>6. ShapeInv' /\ \A m \in Nodes \ {n} : object'[m] = object[m]
      BY <1>1, <2>2, ObjectShape DEF IInv
    <2>7. /\ state'[n] = "FINALBLOCK_CONSENSUS"
          /\ \A m \in Nodes \ {n} : state'[m] = state[m]
      BY <1>2, <2>2 DEF NodeTypes
    <2>8. ObjectInv'
      BY <1>1, <2>6, <2>7 DEF IInv, ObjectInv, Member
    <2>9. ThreadTypes'
      BY <1>1, <1>2, <2>2, CountFacts DEF ThreadTypes
    <2>10. NodeTypes'
      BY <1>1, <1>2, <2>2 DEF NodeTypes, DirStates, Final
    <2> QED
      BY <1>1, <2>4, <2>5, <2>6, <2>8, <2>9, <2>10, SameView, TypeParts DEF IInv
  <1> QED
    BY <1>1, <1>3, <1>4

\* A view change consensus starts with the next candidate
LEMMA CandidateStep ==
    ASSUME HashIsNumber, IInv, NEW n \in Nodes, RunConsensusOnViewChange(n)
    PROVE  IInv'
  <1> USE DEF nodeVars, vcVars, threadVars
  <1>1. NodeTypes /\ ThreadTypes /\ AcceptTypes
    BY TypeParts DEF IInv
  <1>2. PICK k : k = counter[n] + 1
    OBVIOUS
  <1>3. PICK index : index = CalculateNewLeaderIndex(n, k)
    OBVIOUS
  <1>4. index \in 0 .. (N - 1) /\ index # leaderID[n]
    BY <1>2, <1>3, CandidateFacts DEF RunConsensusOnViewChange
  <1>5. IsPermutation(committee[n]) /\ mode[n] # "IDLE"
    BY DEF RunConsensusOnViewChange, Active, IInv, CommitteeInv
  <1>6. PICK blamed : blamed = Append(faulty[n], Member(n, FaultyLeaderIndex(n, k)))
    OBVIOUS
  <1>7. blamed \in Seq(Nodes)
    <2>1. FaultyLeaderIndex(n, k) \in 0 .. (N - 1)
      BY <1>1 DEF FaultyLeaderIndex, NodeTypes
    <2>2. Member(n, FaultyLeaderIndex(n, k)) \in Nodes /\ faulty[n] \in Seq(Nodes)
      BY <1>1, <1>5, <2>1, MemberFacts DEF NodeTypes
    <2> QED
      BY <1>6, <2>2, AppendProperties
  <1>8. PICK block : block = IF Member(n, index) = n THEN VCBlock(n, k, index, blamed)
                                                     ELSE NoBlock
    OBVIOUS
  <1>9. /\ counter' = [counter EXCEPT ![n] = k]
        /\ candidate' = [candidate EXCEPT ![n] = index]
        /\ faulty' = [faulty EXCEPT ![n] = blamed]
        /\ object' = [object EXCEPT ![n] = [kind |-> "vc", id |-> k,
                                            leader |-> index, block |-> block]]
        /\ Announce(n, block)
        /\ prechecks[n] > 0
        /\ prechecks' = [prechecks EXCEPT ![n] = @ - 1]
        /\ state' = [state EXCEPT ![n] = "VIEWCHANGE_CONSENSUS"]
        /\ vcTimers' = [vcTimers EXCEPT ![n] = @ + 1]
        /\ UNCHANGED <<nodeVars, vcstate, fbTimers, runVC, runFB, signed, outside>>
    BY <1>2, <1>3, <1>6, <1>8, Zenon DEF RunConsensusOnViewChange
  <1>10. Member(n, index) \in Nodes
    BY <1>4, <1>5, MemberFacts
  <1>11. block.kind = "vc" => /\ block.leader = Member(n, index)
                              /\ block.faulty = blamed
                              /\ block.committee = committee[n]
                              /\ block.proposer = n
    <2>1. NoBlock.kind = "none"
      BY DEF NoBlock
    <2>2. CASE block = NoBlock
      BY <2>1, <2>2
    <2>3. CASE block = VCBlock(n, k, index, blamed)
      BY <2>3 DEF VCBlock
    <2> QED
      BY <1>8, <2>2, <2>3
  <1>12. BlockOK(block)
    BY <1>7, <1>10, <1>11 DEF BlockOK
  <1>13. \/ accepts' = accepts
         \/ accepts' = accepts \cup {[by |-> n, block |-> block]}
    BY <1>9 DEF Announce
  <1>14. /\ AcceptTypes'
         /\ \A b \in Announced' : b \in Announced \/ b = block
         /\ \A a \in accepts' : a \in accepts \/ (a.by = n /\ a.block = block)
    BY <1>1, <1>13, AcceptsGrow
  <1>15. AcceptInv'
    BY <1>9, <1>11, <1>12, <1>14 DEF IInv, AcceptInv
  <1>16. /\ ShapeInv'
         /\ object'[n].block = block
         /\ \A m \in Nodes \ {n} : object'[m] = object[m]
    BY <1>9, ObjectShape DEF IInv
  <1>17. \A m \in Nodes \ {n} : state'[m] = state[m]
    BY <1>1, <1>9 DEF NodeTypes
  <1>18. ObjectInv'
    <2>1. ASSUME NEW m \in Nodes, mode[m] # "IDLE", state'[m] = "VIEWCHANGE_CONSENSUS",
                 object'[m].block.kind = "vc"
          PROVE  /\ BlockOK(object'[m].block)
                 /\ object'[m].block.committee = committee[m]
                 /\ object'[m].block.proposer # m => object'[m].block.state \in Final
                 /\ \E i \in 0 .. (N - 1) : i # leaderID[m] /\ object'[m].block.leader = Member(m, i)
      <3>1. CASE m = n
        BY <1>4, <1>11, <1>12, <1>16, <2>1, <3>1
      <3>2. CASE m # n
        BY <1>16, <1>17, <2>1, <3>2 DEF IInv, ObjectInv
      <3> QED
        BY <3>1, <3>2
    <2>2. UNCHANGED <<mode, committee, leaderID>>
      BY <1>9
    <2> QED
      BY <2>1, <2>2 DEF ObjectInv, Member, BlockOK
  <1>19. ThreadTypes'
    BY <1>1, <1>9, CountFacts DEF ThreadTypes
  <1>20. NodeTypes'
    <2>1. k \in Nat
      BY <1>1, <1>2 DEF NodeTypes
    <2>2. \A m \in Nodes : faulty'[m] \in Seq(Nodes)
      BY <1>1, <1>7, <1>9 DEF NodeTypes
    <2> QED
      BY <1>1, <1>4, <1>9, <2>1, <2>2 DEF NodeTypes, DirStates
  <1> QED
    BY <1>9, <1>14, <1>15, <1>16, <1>18, <1>19, <1>20, SameView, TypeParts DEF IInv

\* A backup accepts a block
LEMMA AcceptStep ==
    ASSUME HashIsNumber, IInv, NEW n \in Nodes, NEW block \in Announced, Accept(n, block)
    PROVE  IInv'
  <1> USE DEF nodeVars, vcVars, threadVars
  <1>1. NodeTypes /\ ThreadTypes /\ AcceptTypes
    BY TypeParts DEF IInv
  <1>2. /\ object' = [object EXCEPT ![n].block = block]
        /\ accepts' = accepts \cup {[by |-> n, block |-> block]}
        /\ UNCHANGED <<nodeVars, vcVars, threadVars, state, signed, outside>>
        /\ mode[n] # "IDLE"
    BY DEF Accept, Active
  <1>3. IsPermutation(committee[n]) /\ BlockOK(block)
    BY <1>2 DEF IInv, CommitteeInv, AcceptInv
  <1>4. block.kind = "vc" =>
          /\ block.committee = committee[n]
          /\ block.state \in Final
          /\ \E i \in 0 .. (N - 1) : i # leaderID[n] /\ block.leader = Member(n, i)
    <2> SUFFICES ASSUME block.kind = "vc"
                 PROVE  /\ block.committee = committee[n]
                        /\ block.state \in Final
                        /\ \E i \in 0 .. (N - 1) : i # leaderID[n] /\ block.leader = Member(n, i)
      OBVIOUS
    <2>1. ViewChangeValidator(n, block)
      BY DEF Accept
    <2>2. /\ block.committee = committee[n]
          /\ LeaderFound(n, counter[n])
          /\ block.leader = Member(n, CalculateNewLeaderIndex(n, counter[n]))
          /\ block.state \in Final
      BY <2>1 DEF ViewChangeValidator, ValidateViewChangeState
    <2> QED
      BY <2>2, CandidateFacts
  <1>5. /\ AcceptTypes'
        /\ \A b \in Announced' : b \in Announced \/ b = block
        /\ \A a \in accepts' : a \in accepts \/ (a.by = n /\ a.block = block)
    BY <1>1, <1>2, AcceptsGrow
  <1>6. AcceptInv'
    BY <1>2, <1>3, <1>4, <1>5 DEF IInv, AcceptInv
  <1>7. /\ ShapeInv'
        /\ object'[n].block = block
        /\ \A m \in Nodes \ {n} : object'[m] = object[m]
    <2>1. PICK V : object \in [Nodes -> [kind : V, id : V, leader : V, block : V]]
      BY DEF IInv, ShapeInv
    <2>2. PICK old : old = object[n] /\ old \in [kind : V, id : V, leader : V, block : V]
      BY <2>1
    <2>3. object' = [object EXCEPT ![n] = [kind |-> old.kind, id |-> old.id,
                                           leader |-> old.leader, block |-> block]]
      <3>1. [old EXCEPT !.block = block] = [kind |-> old.kind, id |-> old.id,
                                            leader |-> old.leader, block |-> block]
        BY <2>2
      <3>2. object' = [object EXCEPT ![n] = [object[n] EXCEPT !.block = block]]
        BY <1>2, Zenon
      <3> QED
        BY <2>2, <3>1, <3>2, Zenon
    <2>4. ShapeInv /\ UNCHANGED <<chain, outside>>
      BY <1>2 DEF IInv
    <2> QED
      BY <2>3, <2>4, ObjectShape
  <1>8. ObjectInv'
    <2>1. ASSUME NEW m \in Nodes, mode[m] # "IDLE", state[m] = "VIEWCHANGE_CONSENSUS",
                 object'[m].block.kind = "vc"
          PROVE  /\ BlockOK(object'[m].block)
                 /\ object'[m].block.committee = committee[m]
                 /\ object'[m].block.proposer # m => object'[m].block.state \in Final
                 /\ \E i \in 0 .. (N - 1) : i # leaderID[m] /\ object'[m].block.leader = Member(m, i)
      <3>1. CASE m = n
        BY <1>3, <1>4, <1>7, <2>1, <3>1
      <3>2. CASE m # n
        BY <1>7, <2>1, <3>2 DEF IInv, ObjectInv
      <3> QED
        BY <3>1, <3>2
    <2>2. UNCHANGED <<mode, state, committee, leaderID>>
      BY <1>2
    <2> QED
      BY <2>1, <2>2 DEF ObjectInv, Member, BlockOK
  <1>9. ThreadTypes'
    BY <1>1, <1>2 DEF ThreadTypes
  <1>10. NodeTypes'
    BY <1>1, <1>2 DEF NodeTypes
  <1> QED
    BY <1>2, <1>5, <1>6, <1>7, <1>8, <1>9, <1>10, SameView, TypeParts DEF IInv

\* A member that completes a VC block: it was made for the committee of the member,
\* replaces the leader of a final block consensus, and names another leader
LEMMA CompletedFacts ==
    ASSUME IInv, NEW n \in Nodes, NEW block, LeaderDone(n, block) \/ BackupDone(n, block),
           block.kind = "vc"
    PROVE  /\ BlockOK(block)
           /\ block.committee = committee[n]
           /\ block.state \in Final
           /\ \E i \in 0 .. (N - 1) : i # leaderID[n] /\ block.leader = Member(n, i)
           /\ mode[n] # "IDLE"
           /\ ViewChangeWhenDone(n, block)
           /\ UNCHANGED <<object, accepts, outside>>
  <1>1. mode[n] # "IDLE" /\ WhenDone(n, block)
    BY Zenon DEF LeaderDone, BackupDone, Active
  <1>2. /\ object[n].block = block
        /\ state[n] = "VIEWCHANGE_CONSENSUS"
        /\ ViewChangeWhenDone(n, block)
        /\ UNCHANGED <<object, accepts, outside>>
    <2>1. "vc" # "final"
      OBVIOUS
    <2> QED
      BY <1>1, <2>1, Zenon DEF WhenDone, StateOf
  <1>3. /\ BlockOK(block)
        /\ block.committee = committee[n]
        /\ block.proposer # n => block.state \in Final
        /\ \E i \in 0 .. (N - 1) : i # leaderID[n] /\ block.leader = Member(n, i)
    BY <1>1, <1>2 DEF IInv, ObjectInv
  <1>4. block.state \in Final
    <2>1. CASE block.proposer # n
      BY <1>3, <2>1
    <2>2. CASE block.proposer = n
      <3>1. Cardinality({a \in accepts : a.block = block}) >= Quorum
        BY <2>2, Zenon DEF LeaderDone, BackupDone
      <3>2. AcceptTypes
        BY TypeParts DEF IInv
      <3>3. PICK a \in accepts : a.block = block /\ a.by # block.proposer
        BY <3>1, <3>2, QuorumBacks DEF AcceptTypes
      <3> QED
        BY <3>3 DEF IInv, AcceptInv
    <2> QED
      BY <2>1, <2>2
  <1> QED
    BY <1>1, <1>2, <1>3, <1>4

\* The committee and the leader that a completed VC block gives
LEMMA NewViewFacts ==
    ASSUME NEW comm, IsPermutation(comm), NEW block, block.kind = "vc", BlockOK(block)
    PROVE  /\ IsPermutation(NewComposition(comm, block))
           /\ NewLeaderID(NewComposition(comm, block), block) \in 0 .. (N - 1)
           /\ NewComposition(comm, block)[NewLeaderID(NewComposition(comm, block), block) + 1]
                = block.leader
  <1>1. block.leader \in Nodes /\ block.faulty \in Seq(Nodes)
    BY DEF BlockOK
  <1>2. IsPermutation(NewComposition(comm, block))
    BY <1>1, FoldPermutes DEF NewComposition
  <1> QED
    BY <1>1, <1>2, IndexFacts DEF NewLeaderID

\* A chain that grows by a block
LEMMA ChainGrows ==
    ASSUME NEW c, NEW V, c \in Seq(V), NEW block
    PROVE  /\ Append(c, block) \in Seq(V \cup {block})
           /\ Append(c, block) # <<>>
           /\ Append(c, block) # c
           /\ Last(Append(c, block)) = block
  <1>1. PICK W : W = V \cup {block}
    OBVIOUS
  <1>2. c \in Seq(W) /\ block \in W
    BY <1>1
  <1>3. PICK d : d = Append(c, block)
    OBVIOUS
  <1>4. d \in Seq(W) /\ Len(d) = Len(c) + 1 /\ d[Len(c) + 1] = block /\ Len(c) \in Nat
    BY <1>2, <1>3, AppendProperties, LenProperties
  <1>5. d # <<>> /\ d # c
    BY <1>4
  <1> QED
    BY <1>1, <1>3, <1>4, <1>5 DEF Last

\* The chains, while one of them grows
LEMMA ChainShape ==
    ASSUME ShapeInv, NEW n \in Nodes, NEW block, UNCHANGED <<object, outside>>,
           chain' = [chain EXCEPT ![n] = Append(@, block)]
    PROVE  /\ ShapeInv'
           /\ chain'[n] # <<>>
           /\ chain'[n] # chain[n]
           /\ Last(chain'[n]) = block
           /\ \A m \in Nodes \ {n} : chain'[m] = chain[m]
  <1>1. PICK V : chain \in [Nodes -> Seq(V)]
    BY DEF ShapeInv
  <1>2. PICK d : d = Append(chain[n], block)
    OBVIOUS
  <1>3. chain[n] \in Seq(V)
    BY <1>1
  <1>4. d \in Seq(V \cup {block}) /\ d # <<>> /\ d # chain[n] /\ Last(d) = block
    BY <1>2, <1>3, ChainGrows
  <1>5. PICK W : W = V \cup {block}
    OBVIOUS
  <1>6. chain \in [Nodes -> Seq(W)]
    BY <1>1, <1>5
  <1>7. chain' = [chain EXCEPT ![n] = d]
    BY <1>2
  <1>8. chain' \in [Nodes -> Seq(W)] /\ chain'[n] = d /\ \A m \in Nodes \ {n} : chain'[m] = chain[m]
    BY <1>4, <1>5, <1>6, <1>7
  <1>9. ShapeInv'
    BY <1>8 DEF ShapeInv
  <1> QED
    BY <1>4, <1>8, <1>9

\* What a completed view change does to the view of its member
LEMMA ElectionFacts ==
    ASSUME IInv, NEW n \in Nodes, NEW block, LeaderDone(n, block) \/ BackupDone(n, block),
           block.kind = "vc"
    PROVE  /\ IsPermutation(committee'[n])
           /\ committee'[n] = NewComposition(block.committee, block)
           /\ leaderID'[n] = NewLeaderID(committee'[n], block)
           /\ leaderID'[n] \in 0 .. (N - 1)
           /\ committee'[n][leaderID'[n] + 1] = block.leader
           /\ mode'[n] = IF block.leader = n THEN "PRIMARY_DS" ELSE "BACKUP_DS"
           /\ \A m \in Nodes \ {n} : /\ committee'[m] = committee[m]
                                     /\ leaderID'[m] = leaderID[m]
                                     /\ mode'[m] = mode[m]
                                     /\ state'[m] = state[m]
           /\ state' = [state EXCEPT ![n] = "FINALBLOCK_CONSENSUS_PREP"]
           /\ runFB' = [runFB EXCEPT ![n] = @ + 1]
           /\ chain' = [chain EXCEPT ![n] = Append(@, block)]
  <1>1. /\ BlockOK(block)
        /\ block.committee = committee[n]
        /\ block.state \in Final
        /\ mode[n] # "IDLE"
        /\ ViewChangeWhenDone(n, block)
    BY CompletedFacts
  <1>2. PICK comm : comm = NewComposition(committee[n], block)
    OBVIOUS
  <1>3. /\ mode' = [mode EXCEPT ![n] = IF block.leader = n THEN "PRIMARY_DS"
                                                           ELSE "BACKUP_DS"]
        /\ committee' = [committee EXCEPT ![n] = comm]
        /\ leaderID' = [leaderID EXCEPT ![n] = NewLeaderID(comm, block)]
        /\ state' = [state EXCEPT ![n] = "FINALBLOCK_CONSENSUS_PREP"]
        /\ runFB' = [runFB EXCEPT ![n] = @ + 1]
        /\ chain' = [chain EXCEPT ![n] = Append(@, block)]
    BY <1>1, <1>2, Zenon DEF ViewChangeWhenDone
  <1>4. NodeTypes
    BY TypeParts DEF IInv
  <1>5. IsPermutation(committee[n])
    BY <1>1 DEF IInv, CommitteeInv
  <1>6. /\ IsPermutation(comm)
        /\ NewLeaderID(comm, block) \in 0 .. (N - 1)
        /\ comm[NewLeaderID(comm, block) + 1] = block.leader
    BY <1>1, <1>2, <1>5, NewViewFacts
  <1>7. committee'[n] = comm /\ \A m \in Nodes \ {n} : committee'[m] = committee[m]
    BY <1>3, <1>4 DEF NodeTypes
  <1>8. leaderID'[n] = NewLeaderID(comm, block) /\ \A m \in Nodes \ {n} : leaderID'[m] = leaderID[m]
    BY <1>3, <1>4 DEF NodeTypes
  <1>9. /\ mode'[n] = IF block.leader = n THEN "PRIMARY_DS" ELSE "BACKUP_DS"
        /\ \A m \in Nodes \ {n} : mode'[m] = mode[m]
    BY <1>3, <1>4 DEF NodeTypes
  <1>10. \A m \in Nodes \ {n} : state'[m] = state[m]
    BY <1>3, <1>4 DEF NodeTypes
  <1> QED
    BY <1>1, <1>2, <1>3, <1>6, <1>7, <1>8, <1>9, <1>10

\* A view change is completed
LEMMA ElectionStep ==
    ASSUME IInv, NEW n \in Nodes, NEW block \in Announced \cup signed,
           LeaderDone(n, block) \/ BackupDone(n, block), block.kind = "vc"
    PROVE  IInv'
  <1> USE DEF nodeVars, vcVars, threadVars
  <1>1. NodeTypes /\ ThreadTypes /\ AcceptTypes
    BY TypeParts DEF IInv
  <1>2. /\ BlockOK(block)
        /\ mode[n] # "IDLE"
        /\ ViewChangeWhenDone(n, block)
        /\ UNCHANGED <<object, accepts, outside>>
    BY CompletedFacts
  <1>3. /\ vcTimers' = [vcTimers EXCEPT ![n] = 0]
        /\ candidate' = [candidate EXCEPT ![n] = 0]
        /\ faulty' = [faulty EXCEPT ![n] = <<>>]
        /\ mode' = [mode EXCEPT ![n] = IF block.leader = n THEN "PRIMARY_DS"
                                                           ELSE "BACKUP_DS"]
        /\ committee' = [committee EXCEPT ![n] = NewComposition(committee[n], block)]
        /\ leaderID' = [leaderID EXCEPT ![n] =
                          NewLeaderID(NewComposition(committee[n], block), block)]
        /\ UNCHANGED <<crashed, txChain, vcstate, counter, fbTimers, runVC, prechecks>>
    BY <1>2, Zenon DEF ViewChangeWhenDone
  <1>4. /\ IsPermutation(committee'[n])
        /\ committee'[n] = NewComposition(block.committee, block)
        /\ leaderID'[n] = NewLeaderID(committee'[n], block)
        /\ leaderID'[n] \in 0 .. (N - 1)
        /\ committee'[n][leaderID'[n] + 1] = block.leader
        /\ mode'[n] = IF block.leader = n THEN "PRIMARY_DS" ELSE "BACKUP_DS"
        /\ \A m \in Nodes \ {n} : /\ committee'[m] = committee[m]
                                  /\ leaderID'[m] = leaderID[m]
                                  /\ mode'[m] = mode[m]
                                  /\ state'[m] = state[m]
        /\ state' = [state EXCEPT ![n] = "FINALBLOCK_CONSENSUS_PREP"]
        /\ runFB' = [runFB EXCEPT ![n] = @ + 1]
        /\ chain' = [chain EXCEPT ![n] = Append(@, block)]
    BY ElectionFacts
  <1>5. ThreadTypes'
    BY <1>1, <1>3, <1>4, CountFacts DEF ThreadTypes
  <1>6. NodeTypes'
    <2>1. committee' \in [Nodes -> Seq(Nodes)]
      <3>1. committee'[n] \in Seq(Nodes)
        BY <1>4, PermutationSeq
      <3>2. \A m \in Nodes : committee'[m] \in Seq(Nodes)
        BY <1>1, <1>4, <3>1 DEF NodeTypes
      <3> QED
        BY <1>1, <1>3, <3>2 DEF NodeTypes
    <2>2. leaderID' \in [Nodes -> 0 .. (N - 1)]
      <3>1. \A m \in Nodes : leaderID'[m] \in 0 .. (N - 1)
        BY <1>1, <1>4 DEF NodeTypes
      <3> QED
        BY <1>1, <1>3, <3>1 DEF NodeTypes
    <2>3. candidate' \in [Nodes -> 0 .. (N - 1)]
      BY <1>1, <1>3, SizeAssumption DEF NodeTypes
    <2>4. \A m \in Nodes : faulty'[m] \in Seq(Nodes)
      BY <1>1, <1>3 DEF NodeTypes
    <2>5. state' \in [Nodes -> DirStates]
      BY <1>1, <1>4 DEF NodeTypes, DirStates, Final
    <2>6. mode' \in [Nodes -> {"PRIMARY_DS", "BACKUP_DS", "IDLE"}]
      BY <1>1, <1>3 DEF NodeTypes
    <2> QED
      BY <1>1, <1>2, <1>3, <2>1, <2>2, <2>3, <2>4, <2>5, <2>6 DEF NodeTypes
  <1>7. AcceptTypes'
    BY <1>1, <1>2 DEF AcceptTypes, Announced
  <1>8. /\ ShapeInv'
        /\ chain'[n] # <<>>
        /\ Last(chain'[n]) = block
        /\ \A m \in Nodes \ {n} : chain'[m] = chain[m]
    BY <1>2, <1>4, ChainShape DEF IInv
  <1>9. CommitteeInv'
    BY <1>2, <1>4 DEF IInv, CommitteeInv
  <1>10. AcceptInv'
    <2>1. signed' \subseteq signed \cup {block}
      BY DEF LeaderDone, BackupDone
    <2> QED
      BY <1>2, <2>1 DEF IInv, AcceptInv, Announced
  <1>11. ObjectInv'
    <2>1. state'[n] # "VIEWCHANGE_CONSENSUS"
      BY <1>1, <1>4 DEF NodeTypes
    <2> QED
      BY <1>2, <1>4, <2>1 DEF IInv, ObjectInv, Member
  <1>12. ViewInv'
    BY <1>2, <1>4, <1>8 DEF IInv, ViewInv
  <1>13. LeaderIndexConsistent'
    BY <1>4 DEF IInv, LeaderIndexConsistent, Member
  <1> QED
    BY <1>5, <1>6, <1>7, <1>8, <1>9, <1>10, <1>11, <1>12, <1>13, TypeParts DEF IInv

\* A final block is completed
LEMMA FinalStep ==
    ASSUME IInv, NEW n \in Nodes, NEW block \in Announced \cup signed,
           LeaderDone(n, block) \/ BackupDone(n, block), block.kind # "vc"
    PROVE  IInv'
  <1> USE DEF nodeVars, vcVars, threadVars
  <1>1. NodeTypes /\ ThreadTypes /\ AcceptTypes
    BY TypeParts DEF IInv
  <1>2. /\ FinalBlockWhenDone(n, block)
        /\ UNCHANGED <<object, accepts, outside>>
    BY Zenon DEF LeaderDone, BackupDone, WhenDone
  <1>3. /\ counter' = [counter EXCEPT ![n] = 0]
        /\ fbTimers' = [fbTimers EXCEPT ![n] = 0]
        /\ state' = [state EXCEPT ![n] = "MICROBLOCK_SUBMISSION"]
        /\ UNCHANGED <<crashed, mode, chain, committee, leaderID, vcstate, candidate,
                       faulty, vcTimers, runVC, prechecks, runFB>>
    BY <1>2, Zenon DEF FinalBlockWhenDone
  <1>4. ThreadTypes'
    BY <1>1, <1>3, CountFacts DEF ThreadTypes
  <1>5. NodeTypes'
    BY <1>1, <1>2, <1>3 DEF NodeTypes, DirStates
  <1>6. AcceptTypes'
    BY <1>1, <1>2 DEF AcceptTypes, Announced
  <1>7. ShapeInv'
    BY <1>2, <1>3 DEF IInv, ShapeInv
  <1>8. AcceptInv'
    <2>1. signed' \subseteq signed \cup {block}
      BY DEF LeaderDone, BackupDone
    <2> QED
      BY <1>2, <2>1 DEF IInv, AcceptInv, Announced
  <1>9. ObjectInv'
    <2>1. \A m \in Nodes : state'[m] = "VIEWCHANGE_CONSENSUS" => state[m] = "VIEWCHANGE_CONSENSUS"
      BY <1>1, <1>3 DEF NodeTypes
    <2> QED
      BY <1>2, <1>3, <2>1 DEF IInv, ObjectInv, Member
  <1> QED
    BY <1>2, <1>3, <1>4, <1>5, <1>6, <1>7, <1>8, <1>9, SameView, TypeParts DEF IInv

\* The precheck fails: a backup leaves, a primary only forgets its view change
LEMMA PrecheckStep ==
    ASSUME IInv, NEW n \in Nodes, PrecheckFails(n)
    PROVE  IInv'
  <1>1. NodeTypes /\ ThreadTypes /\ AcceptTypes
    BY TypeParts DEF IInv
  <1>2. /\ prechecks[n] > 0
        /\ prechecks' = [prechecks EXCEPT ![n] = @ - 1]
        /\ vcTimers' = [vcTimers EXCEPT ![n] = 0]
        /\ candidate' = [candidate EXCEPT ![n] = 0]
        /\ faulty' = [faulty EXCEPT ![n] = <<>>]
        /\ counter' = [counter EXCEPT ![n] = 0]
        /\ UNCHANGED <<crashed, txChain, chain, vcstate, fbTimers, runVC, runFB,
                       state, accepts, signed, outside>>
    BY Zenon DEF PrecheckFails
  <1>3. ThreadTypes'
    BY <1>1, <1>2, CountFacts DEF ThreadTypes
  <1>4. candidate' \in [Nodes -> 0 .. (N - 1)] /\ counter' \in [Nodes -> Nat]
    BY <1>1, <1>2, SizeAssumption DEF NodeTypes
  <1>5. \A m \in Nodes : faulty'[m] \in Seq(Nodes)
    BY <1>1, <1>2 DEF NodeTypes
  <1>6. AcceptTypes' /\ AcceptInv'
    BY <1>1, <1>2 DEF IInv, AcceptInv, AcceptTypes, Announced
  <1>7. CASE UNCHANGED <<mode, object, leaderID, committee>>
    <2>1. NodeTypes'
      BY <1>1, <1>2, <1>4, <1>5, <1>7 DEF NodeTypes
    <2>2. TypeOK'
      BY <1>3, <1>6, <2>1, TypeParts
    <2> QED
      BY <1>2, <1>7, <2>2, SameObjects DEF IInv
  <1>8. CASE /\ mode' = [mode EXCEPT ![n] = "IDLE"]
             /\ object' = [object EXCEPT ![n] = NoObject]
             /\ leaderID' = [leaderID EXCEPT ![n] = 0]
             /\ committee' = [committee EXCEPT ![n] = <<>>]
    <2>1. /\ mode'[n] = "IDLE"
          /\ \A m \in Nodes \ {n} : /\ mode'[m] = mode[m]
                                    /\ leaderID'[m] = leaderID[m]
                                    /\ committee'[m] = committee[m]
      BY <1>1, <1>8 DEF NodeTypes
    <2>2. ShapeInv' /\ \A m \in Nodes \ {n} : object'[m] = object[m]
      <3>1. object' = [object EXCEPT ![n] = [kind |-> "none", id |-> 0, leader |-> 0,
                                             block |-> NoBlock]]
        BY <1>8 DEF NoObject
      <3> QED
        BY <1>2, <3>1, ObjectShape DEF IInv
    <2>3. NodeTypes'
      <3>1. mode' \in [Nodes -> {"PRIMARY_DS", "BACKUP_DS", "IDLE"}]
        BY <1>1, <1>8 DEF NodeTypes
      <3>2. leaderID' \in [Nodes -> 0 .. (N - 1)]
        BY <1>1, <1>8, SizeAssumption DEF NodeTypes
      <3>3. committee' \in [Nodes -> Seq(Nodes)]
        BY <1>1, <1>8 DEF NodeTypes
      <3> QED
        BY <1>1, <1>2, <1>4, <1>5, <3>1, <3>2, <3>3 DEF NodeTypes
    <2>4. CommitteeInv'
      BY <1>2, <2>1 DEF IInv, CommitteeInv
    <2>5. ObjectInv'
      BY <1>2, <2>1, <2>2 DEF IInv, ObjectInv, Member
    <2>6. ViewInv'
      BY <1>2, <2>1 DEF IInv, ViewInv
    <2>7. LeaderIndexConsistent'
      BY <2>1 DEF IInv, LeaderIndexConsistent, Member
    <2> QED
      BY <1>3, <1>6, <2>2, <2>3, <2>4, <2>5, <2>6, <2>7, TypeParts DEF IInv
  <1> QED
    BY <1>7, <1>8, Zenon DEF PrecheckFails

\* The node outside the committee applies a block
LEMMA OutsideStep ==
    ASSUME IInv, NEW block \in signed, ProcessVCBlock(block) \/ ProcessFinalBlock(block)
    PROVE  IInv'
  <1> USE DEF nodeVars, vcVars, threadVars
  <1>1. NodeTypes /\ ThreadTypes /\ AcceptTypes
    BY TypeParts DEF IInv
  <1>2. UNCHANGED <<nodeVars, vcVars, threadVars, state, object, accepts, signed>>
    BY DEF ProcessVCBlock, ProcessFinalBlock
  <1>3. PICK V : outside \in [txChain : V, chain : Seq(V), committee : Seq(Nodes)]
    BY DEF IInv, ShapeInv
  <1>4. PICK old : old = outside /\ old \in [txChain : V, chain : Seq(V), committee : Seq(Nodes)]
    BY <1>3
  <1>5. PICK x, c, m, W :
          /\ outside' = [txChain |-> x, chain |-> c, committee |-> m]
          /\ x \in W /\ c \in Seq(W) /\ IsPermutation(m)
          /\ m = IF c = <<>> THEN [i \in Nodes |-> i]
                 ELSE NewComposition(Last(c).committee, Last(c))
    <2>1. /\ IsPermutation(old.committee)
          /\ old.committee = IF old.chain = <<>> THEN [i \in Nodes |-> i]
                             ELSE NewComposition(Last(old.chain).committee, Last(old.chain))
      BY <1>4 DEF IInv, CommitteeInv, ViewInv
    <2>2. CASE ProcessVCBlock(block)
      <3>1. PICK c : c = Append(old.chain, block)
        OBVIOUS
      <3>2. PICK m : m = NewComposition(old.committee, block)
        OBVIOUS
      <3>3. block.kind = "vc" /\ block.committee = old.committee
        BY <1>4, <2>2 DEF ProcessVCBlock
      <3>4. BlockOK(block)
        BY DEF IInv, AcceptInv
      <3>5. IsPermutation(m)
        BY <2>1, <3>2, <3>3, <3>4, NewViewFacts
      <3>6. old.chain \in Seq(V) /\ old.txChain \in V
        BY <1>4
      <3>7. c \in Seq(V \cup {block}) /\ c # <<>> /\ Last(c) = block
        BY <3>1, <3>6, ChainGrows
      <3>8. outside' = [old EXCEPT !.chain = c, !.committee = m]
        BY <1>4, <2>2, <3>1, <3>2 DEF ProcessVCBlock, UpdateDSCommiteeCompositionAfterVC, NewComposition
      <3>9. outside' = [txChain |-> old.txChain, chain |-> c, committee |-> m]
        BY <1>4, <3>8
      <3>10. old.txChain \in V \cup {block}
        BY <3>6
      <3>11. m = IF c = <<>> THEN [i \in Nodes |-> i]
                 ELSE NewComposition(Last(c).committee, Last(c))
        BY <3>2, <3>3, <3>7
      <3> QED
        BY <3>5, <3>7, <3>9, <3>10, <3>11
    <2>3. CASE ProcessFinalBlock(block)
      <3>1. PICK x : x = Append(old.txChain, block)
        OBVIOUS
      <3>2. outside' = [old EXCEPT !.txChain = x]
        BY <1>4, <2>3, <3>1 DEF ProcessFinalBlock
      <3>3. outside' = [txChain |-> x, chain |-> old.chain, committee |-> old.committee]
        BY <1>4, <3>2
      <3>4. old.chain \in Seq(V \cup {x}) /\ x \in V \cup {x}
        BY <1>4
      <3> QED
        BY <2>1, <3>3, <3>4
    <2> QED
      BY <2>2, <2>3
  <1>6. /\ outside' \in [txChain : W, chain : Seq(W), committee : Seq(Nodes)]
        /\ outside'.chain = c /\ outside'.committee = m
    <2>1. m \in Seq(Nodes)
      BY <1>5, PermutationSeq
    <2> QED
      BY <1>5, <2>1
  <1>7. TypeOK'
    <2>1. NodeTypes'
      BY <1>1, <1>2, <1>6 DEF NodeTypes
    <2>2. ThreadTypes'
      BY <1>1, <1>2 DEF ThreadTypes
    <2>3. AcceptTypes'
      BY <1>1, <1>2 DEF AcceptTypes, Announced
    <2> QED
      BY <2>1, <2>2, <2>3, TypeParts
  <1>8. ShapeInv'
    BY <1>2, <1>6 DEF IInv, ShapeInv
  <1>9. CommitteeInv'
    BY <1>2, <1>5, <1>6 DEF IInv, CommitteeInv
  <1>10. AcceptInv'
    BY <1>2 DEF IInv, AcceptInv, Announced
  <1>11. ObjectInv'
    BY <1>2 DEF IInv, ObjectInv, Member
  <1>12. ViewInv'
    BY <1>2, <1>5, <1>6 DEF IInv, ViewInv
  <1>13. LeaderIndexConsistent'
    BY <1>2 DEF IInv, LeaderIndexConsistent, Member
  <1> QED
    BY <1>7, <1>8, <1>9, <1>10, <1>11, <1>12, <1>13 DEF IInv

\* The first state
LEMMA InitOK ==
    ASSUME Init
    PROVE  IInv
  <1>1. N \in Nat /\ N > 1 /\ Nodes = 1 .. N /\ 1 \in Nodes
    BY SizeAssumption DEF Nodes
  <1>2. PICK id : id = [i \in Nodes |-> i] /\ IsPermutation(id)
    <2>1. IsPermutation([i \in Nodes |-> i])
      BY DEF IsPermutation
    <2> QED
      BY <2>1
  <1>3. id \in Seq(Nodes)
    BY <1>2, PermutationSeq
  <1>4. /\ committee = [n \in Nodes |-> id] /\ leaderID = [n \in Nodes |-> 0]
        /\ chain = [n \in Nodes |-> <<>>]
        /\ outside = [txChain |-> <<>>, chain |-> <<>>, committee |-> id]
    BY <1>2 DEF Init
  <1>5. NodeTypes
    BY <1>1, <1>3, <1>4 DEF Init, NodeTypes, DirStates, Final, ViewChangeStates
  <1>6. ThreadTypes
    BY DEF Init, ThreadTypes
  <1>7. AcceptTypes
    BY DEF Init, AcceptTypes
  <1>8. ShapeInv
    <2>1. object \in [Nodes -> [kind : {"none", 0, NoBlock}, id : {"none", 0, NoBlock},
                                leader : {"none", 0, NoBlock}, block : {"none", 0, NoBlock}]]
      BY DEF Init, NoObject
    <2>2. chain \in [Nodes -> Seq({<<>>})]
      BY <1>4
    <2>3. outside \in [txChain : {<<>>}, chain : Seq({<<>>}), committee : Seq(Nodes)]
      BY <1>3, <1>4
    <2> QED
      BY <2>1, <2>2, <2>3 DEF ShapeInv
  <1>9. CommitteeInv
    BY <1>2, <1>4 DEF CommitteeInv
  <1>10. AcceptInv
    BY DEF Init, AcceptInv, Announced
  <1>11. ObjectInv
    BY DEF Init, ObjectInv
  <1>12. ViewInv
    BY <1>2, <1>4 DEF ViewInv
  <1>13. LeaderIndexConsistent
    BY <1>1, <1>2, <1>4 DEF Init, LeaderIndexConsistent, Member
  <1> QED
    BY <1>5, <1>6, <1>7, <1>8, <1>9, <1>10, <1>11, <1>12, <1>13, TypeParts DEF IInv

-----------------------------------------------------------------------------
(* Every step, of a system with any timeouts or with long ones *)

\* Which blocks and members a step is about
LEMMA StepKinds ==
    ASSUME Next \/ TimelyNext
    PROVE  \/ \E n \in Nodes : \/ RunConsensusOnFinalBlock(n)
                               \/ EarlyFinalBlock(n)
                               \/ ProcessNextConsensus(n)
           \/ \E n \in Nodes : \/ FinalBlockTimeout(n)
                               \/ ViewChangeTimeout(n)
                               \/ BeginViewChange(n)
                               \/ Crash(n)
           \/ \E n \in Nodes : PrecheckFails(n)
           \/ \E n \in Nodes : RunConsensusOnViewChange(n)
           \/ \E n \in Nodes, block \in Announced : Accept(n, block)
           \/ \E n \in Nodes, block \in Announced \cup signed :
                LeaderDone(n, block) \/ BackupDone(n, block)
           \/ \E block \in signed : ProcessVCBlock(block) \/ ProcessFinalBlock(block)
           \/ RoundTimeout
  <1>1. CASE Step
    BY <1>1, Zenon DEF Step
  <1>2. CASE ~ Step
    BY <1>2, Zenon DEF Next, TimelyNext, PrecheckPasses
  <1> QED
    BY <1>1, <1>2

\* The invariant is inductive
LEMMA StepOK ==
    ASSUME HashIsNumber, IInv, [Next \/ TimelyNext]_vars
    PROVE  IInv'
  <1>1. CASE UNCHANGED vars
    <2> USE <1>1 DEF vars, nodeVars, vcVars, threadVars
    <2>1. TypeOK'
      <3>1. NodeTypes /\ ThreadTypes /\ AcceptTypes
        BY TypeParts DEF IInv
      <3>2. NodeTypes'
        BY <3>1 DEF NodeTypes
      <3>3. ThreadTypes'
        BY <3>1 DEF ThreadTypes
      <3>4. AcceptTypes'
        BY <3>1 DEF AcceptTypes, Announced
      <3> QED
        BY <3>2, <3>3, <3>4, TypeParts
    <2> QED
      BY <2>1, SameObjects DEF IInv
  <1>2. ASSUME NEW n \in Nodes, NEW block \in Announced \cup signed,
               LeaderDone(n, block) \/ BackupDone(n, block)
        PROVE  IInv'
    BY <1>2, ElectionStep, FinalStep
  <1>3. CASE Next \/ TimelyNext
    BY <1>2, <1>3, StepKinds, StartStep, QuietStep, PrecheckStep, CandidateStep, AcceptStep,
       OutsideStep, RoundStep, Zenon
  <1> QED
    BY <1>1, <1>3

\* A signed VC block comes from a leader that has completed it, so it replaces the
\* leader of a final block consensus
LEMMA SignedStep ==
    ASSUME IInv, StaleViewChangeRejected, [Next \/ TimelyNext]_vars
    PROVE  StaleViewChangeRejected'
  <1> USE DEF nodeVars, vcVars, threadVars
  <1>1. CASE signed' \subseteq signed
    BY <1>1 DEF StaleViewChangeRejected
  <1>2. ASSUME NEW n \in Nodes, NEW block, LeaderDone(n, block) \/ BackupDone(n, block)
        PROVE  StaleViewChangeRejected'
    <2>1. signed' \subseteq signed \cup {block}
      BY <1>2 DEF LeaderDone, BackupDone
    <2>2. block.kind = "vc" => block.state \in Final
      BY <1>2, CompletedFacts
    <2> QED
      BY <2>1, <2>2 DEF StaleViewChangeRejected
  <1>3. UNCHANGED vars => signed' \subseteq signed
    BY DEF vars
  <1>4. RoundTimeout => signed' \subseteq signed
    BY DEF RoundTimeout
  <1>5. ASSUME NEW n \in Nodes,
               \/ RunConsensusOnFinalBlock(n)
               \/ EarlyFinalBlock(n)
               \/ ProcessNextConsensus(n)
               \/ FinalBlockTimeout(n)
               \/ ViewChangeTimeout(n)
               \/ BeginViewChange(n)
               \/ Crash(n)
               \/ PrecheckFails(n)
               \/ RunConsensusOnViewChange(n)
               \/ \E block \in Announced : Accept(n, block)
        PROVE  signed' = signed
    BY <1>5, Zenon
    DEF RunConsensusOnFinalBlock, EarlyFinalBlock, ProcessNextConsensus, FinalBlockTimeout,
        ViewChangeTimeout, BeginViewChange, Crash, PrecheckFails, RunConsensusOnViewChange,
        Accept
  <1>6. ASSUME NEW block, ProcessVCBlock(block) \/ ProcessFinalBlock(block)
        PROVE  signed' = signed
    BY <1>6, Zenon DEF ProcessVCBlock, ProcessFinalBlock
  <1>7. signed' = signed => signed' \subseteq signed
    OBVIOUS
  <1> QED
    BY <1>1, <1>2, <1>3, <1>4, <1>5, <1>6, <1>7, StepKinds, Zenon

\* A view change that is completed never elects the present leader
LEMMA ElectionDiffers ==
    ASSUME IInv, [Next \/ TimelyNext]_vars, NEW n \in Nodes, chain'[n] # chain[n]
    PROVE  committee'[n][leaderID'[n] + 1] # Member(n, leaderID[n])
  <1> USE DEF nodeVars, vcVars, threadVars
  <1>1. chain' # chain
    OBVIOUS
  <1>2. UNCHANGED vars \/ RoundTimeout => chain' = chain
    BY DEF vars, RoundTimeout
  <1>3. ASSUME NEW m \in Nodes,
               \/ RunConsensusOnFinalBlock(m)
               \/ EarlyFinalBlock(m)
               \/ ProcessNextConsensus(m)
               \/ FinalBlockTimeout(m)
               \/ ViewChangeTimeout(m)
               \/ BeginViewChange(m)
               \/ Crash(m)
               \/ PrecheckFails(m)
               \/ RunConsensusOnViewChange(m)
               \/ \E block \in Announced : Accept(m, block)
        PROVE  chain' = chain
    BY <1>3, Zenon
    DEF RunConsensusOnFinalBlock, EarlyFinalBlock, ProcessNextConsensus, FinalBlockTimeout,
        ViewChangeTimeout, BeginViewChange, Crash, PrecheckFails, RunConsensusOnViewChange,
        Accept
  <1>4. ASSUME NEW block, ProcessVCBlock(block) \/ ProcessFinalBlock(block)
        PROVE  chain' = chain
    BY <1>4, Zenon DEF ProcessVCBlock, ProcessFinalBlock
  <1>5. PICK m \in Nodes, block \in Announced \cup signed :
          LeaderDone(m, block) \/ BackupDone(m, block)
    BY <1>1, <1>2, <1>3, <1>4, StepKinds, Zenon
  <1>6. block.kind = "vc"
    <2>1. block.kind # "vc" => FinalBlockWhenDone(m, block)
      BY <1>5, Zenon DEF LeaderDone, BackupDone, WhenDone
    <2> QED
      BY <1>1, <2>1, Zenon DEF FinalBlockWhenDone
  <1>7. m = n
    <2>1. chain' = [chain EXCEPT ![m] = Append(@, block)]
      BY <1>5, <1>6, ElectionFacts
    <2>2. \A k \in Nodes \ {m} : chain'[k] = chain[k]
      <3>1. UNCHANGED <<object, outside>>
        BY <1>5, <1>6, CompletedFacts
      <3> QED
        BY <2>1, <3>1, ChainShape DEF IInv
    <2> QED
      BY <2>2
  <1>8. committee'[n][leaderID'[n] + 1] = block.leader
    BY <1>5, <1>6, <1>7, ElectionFacts
  <1>9. PICK i \in 0 .. (N - 1) : i # leaderID[n] /\ block.leader = Member(n, i)
    BY <1>5, <1>6, <1>7, CompletedFacts
  <1>10. IsPermutation(committee[n])
    <2>1. mode[n] # "IDLE"
      BY <1>5, <1>6, <1>7, CompletedFacts
    <2> QED
      BY <2>1 DEF IInv, CommitteeInv
  <1>11. leaderID[n] \in 0 .. (N - 1)
    BY TypeParts DEF IInv, NodeTypes
  <1> QED
    BY <1>8, <1>9, <1>10, <1>11, MemberFacts

-----------------------------------------------------------------------------
(* The theorems hold with any timeouts (Spec) and with long ones (TimelySpec). *)

\* Both specifications have the steps that the lemmas are about
LEMMA BothSpecs == Spec \/ TimelySpec => Init /\ [][Next \/ TimelyNext]_vars
  <1>1. [Next]_vars => [Next \/ TimelyNext]_vars
    OBVIOUS
  <1>2. [TimelyNext]_vars => [Next \/ TimelyNext]_vars
    OBVIOUS
  <1> QED
    BY <1>1, <1>2, PTL DEF Spec, TimelySpec

\* The inductive invariant holds in every state: the committees, the objects and the
\* views of the members fit together after any sequence of timeouts, prechecks, view
\* changes and final blocks.
THEOREM Invariance == HashIsNumber => (Spec \/ TimelySpec => []IInv)
  <1> SUFFICES ASSUME HashIsNumber PROVE Spec \/ TimelySpec => []IInv
    OBVIOUS
  <1>1. Init => IInv
    BY InitOK
  <1>2. IInv /\ [Next \/ TimelyNext]_vars => IInv'
    BY StepOK
  <1> QED
    BY <1>1, <1>2, BothSpecs, PTL

\* Every variable keeps its type; the state that a view change goes back to
\* (SetLastKnownGoodState) is never one of the view change itself.
THEOREM TypeCorrect == HashIsNumber => (Spec \/ TimelySpec => []TypeOK)
  <1> SUFFICES ASSUME HashIsNumber PROVE Spec \/ TimelySpec => []TypeOK
    OBVIOUS
  <1>1. IInv => TypeOK
    BY DEF IInv
  <1>2. Spec \/ TimelySpec => []IInv
    BY Invariance
  <1> QED
    BY <1>1, <1>2, PTL

\* However many faulty leaders of however many VC blocks are pushed to the back
\* (ProcessViewChangeConsensusWhenDone), every member stays in the committee exactly
\* once.
THEOREM CommitteePermutationHolds ==
    HashIsNumber => (Spec \/ TimelySpec => []CommitteePermutation)
  <1> SUFFICES ASSUME HashIsNumber PROVE Spec \/ TimelySpec => []CommitteePermutation
    OBVIOUS
  <1>1. IInv => CommitteePermutation
    <2> SUFFICES ASSUME IInv, NEW n \in Nodes, mode[n] # "IDLE"
                 PROVE  Len(committee[n]) = N /\ ToSet(committee[n]) = Nodes
      BY DEF CommitteePermutation
    <2>1. PICK comm : comm = committee[n] /\ IsPermutation(comm)
      BY DEF IInv, CommitteeInv
    <2>2. Len(comm) = N /\ DOMAIN comm = Nodes
      BY <2>1, PermutationSeq
    <2>3. {comm[i] : i \in DOMAIN comm} = Nodes
      BY <2>1, <2>2 DEF IsPermutation
    <2> QED
      BY <2>1, <2>2, <2>3 DEF ToSet
  <1>2. Spec \/ TimelySpec => []IInv
    BY Invariance
  <1> QED
    BY <1>1, <1>2, PTL

\* A member acts as primary exactly when its leader index points to itself: the mode
\* is set from the VC block, the index is searched in the changed committee.
THEOREM LeaderIndexConsistentHolds ==
    HashIsNumber => (Spec \/ TimelySpec => []LeaderIndexConsistent)
  <1> SUFFICES ASSUME HashIsNumber PROVE Spec \/ TimelySpec => []LeaderIndexConsistent
    OBVIOUS
  <1>1. IInv => LeaderIndexConsistent
    BY DEF IInv
  <1>2. Spec \/ TimelySpec => []IInv
    BY Invariance
  <1> QED
    BY <1>1, <1>2, PTL

\* Members with the same VC blocks have the same committee order and the same leader,
\* and the node outside the committee, which applies the blocks with code of its own
\* (UpdateDSCommiteeCompositionAfterVC), has the same committee.
THEOREM SameChainSameViewHolds ==
    HashIsNumber => (Spec \/ TimelySpec => []SameChainSameView)
  <1> SUFFICES ASSUME HashIsNumber PROVE Spec \/ TimelySpec => []SameChainSameView
    OBVIOUS
  <1>1. IInv => SameChainSameView
    <2> SUFFICES ASSUME IInv PROVE SameChainSameView
      OBVIOUS
    <2>1. ASSUME NEW n \in Nodes, mode[n] # "IDLE"
          PROVE  /\ committee[n] = IF chain[n] = <<>> THEN [i \in Nodes |-> i]
                                   ELSE NewComposition(Last(chain[n]).committee, Last(chain[n]))
                 /\ leaderID[n] = IF chain[n] = <<>> THEN 0
                                  ELSE NewLeaderID(committee[n], Last(chain[n]))
      BY <2>1 DEF IInv, ViewInv
    <2>2. outside.committee = IF outside.chain = <<>> THEN [i \in Nodes |-> i]
                              ELSE NewComposition(Last(outside.chain).committee,
                                                  Last(outside.chain))
      BY DEF IInv, ViewInv
    <2>3. ASSUME NEW n \in Nodes, NEW m \in Nodes,
                 mode[n] # "IDLE", mode[m] # "IDLE", chain[n] = chain[m]
          PROVE  committee[n] = committee[m] /\ leaderID[n] = leaderID[m]
      BY <2>1, <2>3
    <2>4. ASSUME NEW n \in Nodes, mode[n] # "IDLE", chain[n] = outside.chain
          PROVE  outside.committee = committee[n]
      BY <2>1, <2>2, <2>4
    <2> QED
      BY <2>3, <2>4 DEF SameChainSameView
  <1>2. Spec \/ TimelySpec => []IInv
    BY Invariance
  <1> QED
    BY <1>1, <1>2, PTL

\* A view change that starts from a stale timer is never signed: of the quorum that
\* signs a VC block one is not its proposer, and its ViewChangeValidator has refused
\* every state that is not one of a final block consensus.
THEOREM StaleViewChangeRejectedHolds ==
    HashIsNumber => (Spec \/ TimelySpec => []StaleViewChangeRejected)
  <1> SUFFICES ASSUME HashIsNumber PROVE Spec \/ TimelySpec => []StaleViewChangeRejected
    OBVIOUS
  <1>1. Init => StaleViewChangeRejected
    BY DEF Init, StaleViewChangeRejected
  <1>2. IInv /\ StaleViewChangeRejected /\ [Next \/ TimelyNext]_vars => StaleViewChangeRejected'
    BY SignedStep
  <1>3. Spec \/ TimelySpec => []IInv
    BY Invariance
  <1> QED
    BY <1>1, <1>2, <1>3, BothSpecs, PTL

\* A completed view change never elects the leader that it replaces, although the
\* committee is reordered by the same step that sets the leader index.
THEOREM NewLeaderDiffersHolds == HashIsNumber => (Spec \/ TimelySpec => NewLeaderDiffers)
  <1> SUFFICES ASSUME HashIsNumber PROVE Spec \/ TimelySpec => NewLeaderDiffers
    OBVIOUS
  <1>1. IInv /\ [Next \/ TimelyNext]_vars =>
          [\A n \in Nodes : chain'[n] # chain[n] =>
             committee'[n][leaderID'[n] + 1] # Member(n, leaderID[n])]_vars
    BY ElectionDiffers
  <1>2. Spec \/ TimelySpec => []IInv
    BY Invariance
  <1> QED
    BY <1>1, <1>2, BothSpecs, PTL DEF NewLeaderDiffers

==============================================================================
