------------------------ MODULE ConsensusSigningProofs ------------------------
(***************************************************************************)
(* Proofs about what the signatures of Consensus stand for, for every      *)
(* committee, tolerance, number of subsets and set of faulty backups: the  *)
(* quorum behind a collective signature, the count of the commits, the use *)
(* of the commit secrets, the order of the leader's states, and the        *)
(* refinement of CoSigning.                                                *)
(***************************************************************************)
EXTENDS ConsensusProofs, FiniteSetTheorems

USE NAssumption, LeaderAssumption, SubsetsAssumption, MaxCommitsAssumption

CommitTypes == {"COMMIT", "FINALCOMMIT"}

ResponseTypes == {"RESPONSE", "FINALRESPONSE"}

SigTypes == {"COLLECTIVESIG", "FINALCOLLECTIVESIG"}

\* While commits can still be used, by the handler or by the commit window
\* thread, the counter is the number of nonzero commit points.
CommitInv ==
    /\ \A m \in msgs : m.type \in CommitTypes => m.point # 0
    /\ (\/ [type |-> "ANNOUNCE"] \notin msgs
        \/ lstate \in {ANNOUNCE_DONE, COLLECTIVESIG_DONE}
        \/ timer # "off")
         => commitCounter = Cardinality(Signers(commitPoints))
    /\ timer = "enough" => commitCounter >= Quorum

\* Backup b answered the challenge of a subset with a response of type t
Answered(t, k, b, s, challenge) ==
    \E r \in msgs : /\ r.type = t /\ r.from = b
                    /\ r.responses[k].secret = s
                    /\ r.responses[k].challenge = challenge

\* A subset that takes responses has counted the leader's and those that
\* backups sent for its challenge.
Collected(k, sub) ==
    \A t \in ResponseTypes : <<sub.state, t>> \in SubsetActions =>
        /\ sub.challenge.points = sub.points
        /\ sub.responses[LeaderID] # 0
        /\ sub.counter = Cardinality(Signers(sub.responses))
        /\ \A b \in Signers(sub.responses) \ {LeaderID} :
             Answered(t, k, b, sub.responses[b], sub.challenge)

SubsetInv == \A k \in SubsetIDs : Collected(k, subsets[k])

\* In which states the leader holds which signatures, and that the first one,
\* once it exists, names the leader
SigInv ==
    /\ lstate # DONE => lCS2 = NoSig
    /\ (\/ lstate \in {ANNOUNCE_DONE, CHALLENGE_DONE}
        \/ [type |-> "ANNOUNCE"] \notin msgs)
         => lCS1 = NoSig
    /\ lstate \in {COLLECTIVESIG_DONE, FINALCHALLENGE_DONE, DONE} =>
         LeaderID \in Signers(lCS1.points)

\* Every response answers a challenge of its round.
ResponseInv ==
    \A r \in msgs : r.type \in ResponseTypes =>
        \E c \in msgs :
           /\ c.type = IF r.type = "RESPONSE" THEN "CHALLENGE" ELSE "FINALCHALLENGE"
           /\ \A k \in SubsetIDs : r.responses[k].challenge = c.challenges[k]

ResponsesOf(b) == {r \in msgs : r.type \in ResponseTypes /\ r.from = b}

\* The response r belongs to the other round than the one backup b is in
OtherRound(r, b) ==
    \/ r.type = "FINALRESPONSE" /\ bstate[b] \in {COMMIT_DONE, RESPONSE_DONE}
    \/ r.type = "RESPONSE" /\ bstate[b] \in {FINALCOMMIT_DONE, FINALRESPONSE_DONE}

\* The secrets a backup has answered with are among those it has drawn, the
\* current one was used in the current round only, and none in both rounds.
SecretsInOrder(b) ==
    /\ \A r \in ResponsesOf(b), k \in SubsetIDs :
         /\ r.responses[k].secret <= secret[b]
         /\ OtherRound(r, b) => r.responses[k].secret # secret[b]
    /\ \A r1, r2 \in ResponsesOf(b), j, k \in SubsetIDs :
         r1.type = "RESPONSE" /\ r2.type = "FINALRESPONSE" =>
           r1.responses[j].secret # r2.responses[k].secret

SecretInv == \A b \in Backups \ Faulty : SecretsInOrder(b)

\* The invariant of ConsensusProofs with what the signatures stand for
SigningInv ==
    /\ IInv
    /\ CommitInv
    /\ SubsetInv
    /\ CosignedByQuorum
    /\ SigInv
    /\ ResponseInv
    /\ SecretInv

------------------------------------------------------------------------------
(* What the steps send *)

\* Building the subsets sends at most a challenge; when it does, the subsets
\* are those of the challenge and the commit map is empty.
LEMMA GenerateAndStartEffect ==
    ASSUME IInv, NEW cp, GenerateAndStartSubsets(cp)
    PROVE  /\ msgs \subseteq msgs'
           /\ \A n \in msgs' \ msgs : n.type \in {"CHALLENGE", "FINALCHALLENGE"}
           /\ commitPoints' = NoPoints
           /\ \E choice \in SubsetChoices(cp) :
                \/ /\ lstate = ANNOUNCE_DONE /\ lstate' = CHALLENGE_DONE
                   /\ subsets' = SubsetsOf(cp, choice, CHALLENGE_DONE, TRUE)
                \/ /\ lstate = COLLECTIVESIG_DONE /\ lstate' = FINALCHALLENGE_DONE
                   /\ subsets' = SubsetsOf(cp, choice, FINALCHALLENGE_DONE, TRUE)
                \/ /\ lstate \notin {ANNOUNCE_DONE, COLLECTIVESIG_DONE}
                   /\ lstate' = lstate
                   /\ subsets' = SubsetsOf(cp, choice, lstate, FALSE)
  <1>1. PICK choice \in SubsetChoices(cp) :
           /\ commitPoints' = NoPoints
           /\ \/ \E r \in ChallengeRounds :
                   /\ r.from = lstate
                   /\ lstate' = r.to
                   /\ subsets' = SubsetsOf(cp, choice, r.to, TRUE)
                   /\ msgs' = msgs \cup {ChallengeMessage(r.type, choice, subsets')}
              \/ /\ \A r \in ChallengeRounds : r.from # lstate
                 /\ lstate' = lstate
                 /\ subsets' = SubsetsOf(cp, choice, lstate, FALSE)
                 /\ msgs' = msgs
    BY DEF GenerateAndStartSubsets
  <1>2. CASE \E r \in ChallengeRounds :
                /\ r.from = lstate
                /\ lstate' = r.to
                /\ subsets' = SubsetsOf(cp, choice, r.to, TRUE)
                /\ msgs' = msgs \cup {ChallengeMessage(r.type, choice, subsets')}
    <2>1. PICK r \in ChallengeRounds :
                /\ r.from = lstate
                /\ lstate' = r.to
                /\ subsets' = SubsetsOf(cp, choice, r.to, TRUE)
                /\ msgs' = msgs \cup {ChallengeMessage(r.type, choice, subsets')}
      BY <1>2
    <2>2. \/ r = [from |-> ANNOUNCE_DONE, to |-> CHALLENGE_DONE,
                  type |-> "CHALLENGE"]
          \/ r = [from |-> COLLECTIVESIG_DONE, to |-> FINALCHALLENGE_DONE,
                  type |-> "FINALCHALLENGE"]
      BY DEF ChallengeRounds
    <2>3. \A subs : ChallengeMessage(r.type, choice, subs).type = r.type
      BY DEF ChallengeMessage
    <2>4. \A n \in msgs' \ msgs : n.type = r.type
      BY <2>1, <2>3
    <2>5. r.type \in {"CHALLENGE", "FINALCHALLENGE"}
      BY <2>2
    <2>6. \/ /\ lstate = ANNOUNCE_DONE /\ lstate' = CHALLENGE_DONE
             /\ subsets' = SubsetsOf(cp, choice, CHALLENGE_DONE, TRUE)
          \/ /\ lstate = COLLECTIVESIG_DONE /\ lstate' = FINALCHALLENGE_DONE
             /\ subsets' = SubsetsOf(cp, choice, FINALCHALLENGE_DONE, TRUE)
      <3>1. \/ r.from = ANNOUNCE_DONE /\ r.to = CHALLENGE_DONE
            \/ r.from = COLLECTIVESIG_DONE /\ r.to = FINALCHALLENGE_DONE
        BY <2>2
      <3> QED
        BY <2>1, <3>1, Zenon
    <2>7. msgs \subseteq msgs'
      BY <2>1
    <2> QED
      BY <1>1, <2>4, <2>5, <2>6, <2>7
  <1>3. CASE /\ \A r \in ChallengeRounds : r.from # lstate
             /\ lstate' = lstate
             /\ subsets' = SubsetsOf(cp, choice, lstate, FALSE)
             /\ msgs' = msgs
    <2>1. lstate \notin {ANNOUNCE_DONE, COLLECTIVESIG_DONE}
      BY <1>3 DEF ChallengeRounds
    <2> QED
      BY <1>1, <1>3, <2>1
  <1> QED
    BY <1>1, <1>2, <1>3

\* The leader sends no commit and no response, and only the completion of a
\* subset sends a collective signature.
LEMMA LeaderMessages ==
    ASSUME IInv, LeaderNext
    PROVE  /\ msgs \subseteq msgs'
           /\ UNCHANGED backupVars
           /\ \A n \in msgs' \ msgs :
                /\ n.type \notin CommitTypes \cup ResponseTypes
                /\ n.type \in SigTypes =>
                     \E m \in msgs : ProcessMessageResponseCore(m)
  <1> USE DEF CommitTypes, ResponseTypes, SigTypes
  <1>1. CASE StartConsensus
    BY <1>1 DEF StartConsensus
  <1>2. ASSUME NEW m \in msgs, ProcessMessageCommitCore(m)
        PROVE  /\ msgs \subseteq msgs' /\ UNCHANGED backupVars
               /\ \A n \in msgs' \ msgs : n.type \in {"CHALLENGE", "FINALCHALLENGE"}
    BY <1>2, GenerateAndStartEffect DEF ProcessMessageCommitCore
  <1>3. ASSUME NEW m \in msgs, ProcessMessageCommitFailure(m)
        PROVE  /\ msgs \subseteq msgs' /\ UNCHANGED backupVars
               /\ \A n \in msgs' \ msgs : n.type = "CONSENSUSFAILURE"
    BY <1>3 DEF ProcessMessageCommitFailure
  <1>4. ASSUME NEW m \in msgs, ProcessMessageResponseCore(m)
        PROVE  /\ msgs \subseteq msgs' /\ UNCHANGED backupVars
               /\ \A n \in msgs' \ msgs : n.type \in SigTypes
    <2>1. CASE msgs' = msgs
      BY <1>4, <2>1 DEF ProcessMessageResponseCore
    <2>2. ASSUME NEW k, NEW sig, NEW recorded, FinishSubset(k, m, sig, recorded)
          PROVE  /\ msgs \subseteq msgs'
                 /\ \A n \in msgs' \ msgs : n.type \in SigTypes
      BY <2>2 DEF FinishSubset
    <2> QED
      BY <1>4, <2>1, <2>2 DEF ProcessMessageResponseCore
  <1>5. CASE TimerWait \/ TimerWake \/ TimerInsufficient
    BY <1>5 DEF TimerWait, TimerWake, TimerInsufficient
  <1>6. CASE TimerStartSubsets
    BY <1>6, GenerateAndStartEffect DEF TimerStartSubsets
  <1> QED
    BY <1>1, <1>2, <1>3, <1>4, <1>5, <1>6 DEF LeaderNext

\* A backup changes nothing of the leader, sends no collective signature and
\* commits to nonzero points only; a response comes from a challenge.
LEMMA BackupMessages ==
    ASSUME IInv, NEW b \in Backups, BackupNext(b)
    PROVE  /\ msgs \subseteq msgs'
           /\ UNCHANGED leaderVars
           /\ \A n \in msgs' \ msgs :
                /\ n.type \notin SigTypes
                /\ n # [type |-> "CONSENSUSFAILURE"]
                /\ n.type \in CommitTypes => n.point # 0
                /\ n.type \in ResponseTypes =>
                     \E m \in msgs : ProcessMessageChallengeCore(b, m)
  <1> USE DEF CommitTypes, ResponseTypes, SigTypes
  <1>1. NewSecret(b) # 0
    BY DEF IInv, TypeOK, Secrets, NewSecret
  <1>2. CASE ProcessMessageAnnounce(b)
    BY <1>1, <1>2 DEF ProcessMessageAnnounce
  <1>3. CASE FetchDone(b) \/ FetchTimeout(b) \/ ProcessMessageConsensusFailure(b)
    BY <1>3 DEF FetchDone, FetchTimeout, ProcessMessageConsensusFailure
  <1>4. ASSUME NEW m \in msgs, ProcessMessageChallengeCore(b, m)
        PROVE  /\ msgs \subseteq msgs' /\ UNCHANGED leaderVars
               /\ \A n \in msgs' \ msgs : n.type \in ResponseTypes
    BY <1>4 DEF ProcessMessageChallengeCore, ResponseMessage
  <1>5. ASSUME NEW m \in msgs, ProcessMessageCollectiveSig(b, m)
        PROVE  /\ msgs \subseteq msgs' /\ UNCHANGED leaderVars
               /\ \A n \in msgs' \ msgs : n.type = "FINALCOMMIT" /\ n.point # 0
    BY <1>1, <1>5 DEF ProcessMessageCollectiveSig
  <1>6. ASSUME NEW m \in msgs, ProcessMessageFinalCollectiveSig(b, m)
        PROVE  msgs' = msgs /\ UNCHANGED leaderVars
    BY <1>6 DEF ProcessMessageFinalCollectiveSig
  <1> QED
    BY <1>2, <1>3, <1>4, <1>5, <1>6 DEF BackupNext

------------------------------------------------------------------------------
(* Counting signers *)

\* The signers of a vector of commit points or responses are a finite set.
LEMMA SignersFinite ==
    ASSUME NEW p
    PROVE  IsFiniteSet(Signers(p)) /\ Cardinality(Signers(p)) \in Nat
  <1>1. IsFiniteSet(Nodes)
    BY FS_Interval DEF Nodes
  <1>2. Signers(p) \subseteq Nodes
    BY DEF Signers
  <1>3. IsFiniteSet(Signers(p))
    BY <1>1, <1>2, FS_Subset
  <1> QED
    BY <1>3, FS_CardinalityType

\* Where the leader is the only signer, there is one.
LEMMA LeaderOnly ==
    ASSUME NEW p, \A x \in Nodes : p[x] # 0 <=> x = LeaderID
    PROVE  Signers(p) = {LeaderID} /\ Cardinality(Signers(p)) = 1
  <1>1. Signers(p) = {LeaderID}
    BY DEF Signers
  <1> QED
    BY <1>1, FS_Singleton

\* A node that signs for the first time adds one to the signers.
LEMMA AddSigner ==
    ASSUME NEW p, NEW q, NEW n \in Nodes, p[n] = 0,
           \A x \in Nodes : q[x] # 0 <=> p[x] # 0 \/ x = n
    PROVE  /\ Signers(q) = Signers(p) \cup {n}
           /\ Cardinality(Signers(q)) = Cardinality(Signers(p)) + 1
  <1>1. Signers(q) = Signers(p) \cup {n}
    BY DEF Signers
  <1>2. n \notin Signers(p)
    BY DEF Signers
  <1> QED
    BY <1>1, <1>2, SignersFinite, FS_AddElement

\* The vector of a round's start has the leader as its only signer.
LEMMA LeaderStarts ==
    ASSUME NEW p, p = [NoPoints EXCEPT ![LeaderID] = 1]
    PROVE  p[LeaderID] = 1 /\ \A x \in Nodes : p[x] # 0 <=> x = LeaderID
  BY DEF NoPoints

\* The quorum is at least the tolerated fraction of the committee.
LEMMA QuorumTolerance ==
    /\ Quorum \in Nat
    /\ Quorum * 1000 >= N * TOLERANCE
  <1>1. N * TOLERANCE \in Nat
    <2>1. \A x, y \in Nat : x * y \in Nat
      OBVIOUS
    <2>2. TOLERANCE \in Nat
      BY ToleranceAssumption
    <2> QED
      BY <2>1, <2>2
  <1>2. \A p \in Nat : /\ (p + 999) \div 1000 \in Nat
                       /\ ((p + 999) \div 1000) * 1000 >= p
    OBVIOUS
  <1> QED
    BY <1>1, <1>2 DEF Quorum, NumForConsensus

------------------------------------------------------------------------------
(* The count of the commits *)

\* A step of a backup keeps the count: it only adds commits to the messages.
LEMMA BackupCommitInv ==
    ASSUME IInv, CommitInv, NEW b \in Backups, BackupNext(b)
    PROVE  CommitInv'
  <1>1. /\ msgs \subseteq msgs'
        /\ UNCHANGED leaderVars
        /\ \A n \in msgs' \ msgs : n.type \in CommitTypes => n.point # 0
    BY BackupMessages
  <1> QED
    BY <1>1 DEF CommitInv, leaderVars

\* A commit that is accepted adds one to the counter and to the signers, or
\* ends the collection of the round.
LEMMA CommitCoreCommitInv ==
    ASSUME IInv, CommitInv, NEW m \in msgs, ProcessMessageCommitCore(m)
    PROVE  CommitInv'
  <1> USE DEF INITIAL, ANNOUNCE_DONE, CHALLENGE_DONE, COLLECTIVESIG_DONE,
              FINALCHALLENGE_DONE, DONE, ERROR
  <1>1. m.from \in Nodes /\ m.point # 0 /\ m.type \in CommitTypes
    BY MessageFields DEF IInv, TypeOK, Backups, ProcessMessageCommitCore, CommitInv,
                         CommitTypes
  <1>2. /\ lstate \in {ANNOUNCE_DONE, COLLECTIVESIG_DONE}
        /\ commitPoints[m.from] = 0
        /\ commitCounter' = commitCounter + 1
        /\ timer' = timer
    BY DEF ProcessMessageCommitCore, LeaderActions, NotCommitted
  <1>3. commitCounter = Cardinality(Signers(commitPoints))
    BY <1>2 DEF CommitInv
  <1>4. \A n \in msgs' : n.type \in CommitTypes => n.point # 0
    <2>1. LeaderNext
      BY DEF LeaderNext
    <2> QED
      BY <2>1, LeaderMessages DEF CommitInv
  <1>5. [type |-> "ANNOUNCE"] \in msgs
    BY DEF IInv, LeaderInv
  <1>6. CASE /\ commitPoints' = [commitPoints EXCEPT ![m.from] = m.point]
             /\ UNCHANGED <<lstate, subsets, msgs>>
    <2>1. Cardinality(Signers(commitPoints')) = Cardinality(Signers(commitPoints)) + 1
      <3>1. \A x \in Nodes :
               commitPoints'[x] # 0 <=> commitPoints[x] # 0 \/ x = m.from
        BY <1>1, <1>2, <1>6 DEF IInv, TypeOK, Points
      <3> QED
        BY <1>1, <1>2, <3>1, AddSigner
    <2>2. timer' = "enough" => commitCounter' >= Quorum
      BY <1>2, QuorumTolerance DEF CommitInv, IInv, TypeOK
    <2> QED
      BY <1>2, <1>3, <1>4, <2>1, <2>2 DEF CommitInv
  <1>7. CASE /\ NumOfSubsets = 1
             /\ GenerateAndStartSubsets([commitPoints EXCEPT ![m.from] = m.point])
    <2>1. timer' = "off"
      BY <1>2, <1>7 DEF IInv, LeaderInv
    <2>2. /\ lstate' \in {CHALLENGE_DONE, FINALCHALLENGE_DONE}
          /\ msgs \subseteq msgs'
      BY <1>2, <1>7, GenerateAndStartEffect
    <2> QED
      BY <1>4, <1>5, <2>1, <2>2 DEF CommitInv
  <1> QED
    BY <1>6, <1>7 DEF ProcessMessageCommitCore

\* The completion of a subset resets counter and commit points together.
LEMMA ResponseCoreCommitInv ==
    ASSUME IInv, CommitInv, NEW m \in msgs, ProcessMessageResponseCore(m)
    PROVE  CommitInv'
  <1> USE DEF INITIAL, ANNOUNCE_DONE, CHALLENGE_DONE, COLLECTIVESIG_DONE,
              FINALCHALLENGE_DONE, DONE, ERROR
  <1>1. /\ \A n \in msgs' : n.type \in CommitTypes => n.point # 0
        /\ msgs \subseteq msgs'
    <2>1. LeaderNext
      BY DEF LeaderNext
    <2> QED
      BY <2>1, LeaderMessages DEF CommitInv
  <1>2. CASE UNCHANGED <<lstate, commitPoints, commitCounter, timer, msgs>>
    BY <1>1, <1>2 DEF CommitInv
  <1>3. ASSUME NEW k, NEW sig, NEW recorded, FinishSubset(k, m, sig, recorded)
        PROVE  CommitInv'
    <2>1. timer = "off" /\ [type |-> "ANNOUNCE"] \in msgs
      BY DEF ProcessMessageResponseCore, LeaderActions, IInv, LeaderInv
    <2>2. CASE m.type = "RESPONSE"
      <3>1. /\ commitPoints' = [NoPoints EXCEPT ![LeaderID] = 1]
            /\ commitCounter' = 1
            /\ timer' # "enough"
        BY <1>3, <2>1, <2>2 DEF FinishSubset
      <3>2. commitCounter' = Cardinality(Signers(commitPoints'))
        BY <3>1, LeaderStarts, LeaderOnly
      <3> QED
        BY <1>1, <3>1, <3>2 DEF CommitInv
    <2>3. CASE m.type # "RESPONSE"
      <3>1. lstate' = DONE /\ timer' = "off"
        BY <1>3, <2>1, <2>3 DEF FinishSubset
      <3> QED
        BY <1>1, <2>1, <3>1 DEF CommitInv
    <2> QED
      BY <2>2, <2>3
  <1> QED
    BY <1>2, <1>3 DEF ProcessMessageResponseCore

\* The other steps of the leader leave the count alone; the window thread
\* reads it while it is right.
LEMMA LeaderCommitInv ==
    ASSUME IInv, CommitInv, LeaderNext
    PROVE  CommitInv'
  <1> USE DEF INITIAL, ANNOUNCE_DONE, CHALLENGE_DONE, COLLECTIVESIG_DONE,
              FINALCHALLENGE_DONE, DONE, ERROR
  <1>1. /\ \A n \in msgs' : n.type \in CommitTypes => n.point # 0
        /\ msgs \subseteq msgs'
    BY LeaderMessages DEF CommitInv
  <1>2. CASE StartConsensus
    BY <1>1, <1>2 DEF StartConsensus, CommitInv
  <1>3. ASSUME NEW m \in msgs, ProcessMessageCommitFailure(m)
        PROVE  CommitInv'
    BY <1>1, <1>3 DEF ProcessMessageCommitFailure, CommitInv
  <1>4. CASE TimerWait \/ TimerWake
    BY <1>1, <1>4, QuorumTolerance
    DEF TimerWait, TimerWake, CommitInv, IInv, TypeOK
  <1>5. CASE TimerInsufficient
    BY <1>1, <1>5 DEF TimerInsufficient, CommitInv
  <1>6. CASE TimerStartSubsets
    <2>1. [type |-> "ANNOUNCE"] \in msgs
      BY <1>6 DEF TimerStartSubsets, IInv, LeaderInv
    <2>2. timer' = "off" /\ lstate' \notin {ANNOUNCE_DONE, COLLECTIVESIG_DONE}
      <3>1. GenerateAndStartSubsets(commitPoints) /\ timer' = "off"
        BY <1>6 DEF TimerStartSubsets
      <3>2. \/ lstate' \in {CHALLENGE_DONE, FINALCHALLENGE_DONE}
            \/ lstate \notin {ANNOUNCE_DONE, COLLECTIVESIG_DONE} /\ lstate' = lstate
        BY <3>1, GenerateAndStartEffect, Zenon
      <3> QED
        BY <3>1, <3>2
    <2> QED
      BY <1>1, <2>1, <2>2 DEF CommitInv
  <1> QED
    BY <1>2, <1>3, <1>4, <1>5, <1>6, CommitCoreCommitInv, ResponseCoreCommitInv
    DEF LeaderNext

------------------------------------------------------------------------------
(* The responses of the subsets *)

\* More messages do not change what the subsets have collected.
LEMMA CollectedFrame ==
    ASSUME SubsetInv, subsets' = subsets, msgs \subseteq msgs'
    PROVE  SubsetInv'
  <1>1. \A t, k, b, s, c : Answered(t, k, b, s, c) => Answered(t, k, b, s, c)'
    BY DEF Answered
  <1> QED
    BY <1>1 DEF SubsetInv, Collected

\* A subset that was just built has collected the leader's response, or takes no
\* responses because no challenge was sent.
LEMMA GenerateAndStartSubsetInv ==
    ASSUME IInv, NEW cp, GenerateAndStartSubsets(cp),
           lstate \notin {CHALLENGE_DONE, FINALCHALLENGE_DONE}
    PROVE  SubsetInv'
  <1> USE DEF INITIAL, ANNOUNCE_DONE, CHALLENGE_DONE, COLLECTIVESIG_DONE,
              FINALCHALLENGE_DONE, DONE, ERROR
  <1>1. PICK choice, s, started :
           /\ started \in BOOLEAN
           /\ subsets' = SubsetsOf(cp, choice, s, started)
           /\ started \/ s \notin {CHALLENGE_DONE, FINALCHALLENGE_DONE}
    BY GenerateAndStartEffect, Zenon
  <1>2. ASSUME NEW k \in SubsetIDs
        PROVE  Collected(k, subsets[k])'
    <2>1. CASE subsets'[k] = NoSubset
      BY <2>1 DEF Collected, NoSubset, SubsetActions
    <2>2. CASE subsets'[k] = NewSubset(cp, choice[k], s, started)
      <3>1. CASE started
        <4>1. PICK sub : sub = subsets'[k]
          OBVIOUS
        <4>2. /\ sub.challenge.points = sub.points
              /\ sub.responses = [NoPoints EXCEPT ![LeaderID] = 1]
              /\ sub.counter = 1
          BY <2>2, <3>1, <4>1 DEF NewSubset
        <4>3. /\ sub.responses[LeaderID] # 0
              /\ sub.counter = Cardinality(Signers(sub.responses))
              /\ Signers(sub.responses) \ {LeaderID} = {}
          BY <4>2, LeaderStarts, LeaderOnly
        <4> QED
          BY <4>1, <4>2, <4>3 DEF Collected
      <3>2. CASE ~started
        <4>1. subsets'[k].state = s
          BY <2>2 DEF NewSubset
        <4> QED
          BY <1>1, <3>2, <4>1 DEF Collected, SubsetActions
      <3> QED
        BY <3>1, <3>2
    <2>3. subsets'[k] \in {NoSubset, NewSubset(cp, choice[k], s, started)}
      BY <1>1 DEF SubsetsOf
    <2> QED
      BY <2>1, <2>2, <2>3
  <1> QED
    BY <1>2 DEF SubsetInv

\* A response that a subset accepts is one that its sender sent for the challenge
\* of the subset, and it is counted once.
LEMMA RecordInCollected ==
    ASSUME IInv, SubsetInv, NEW m \in msgs, m.type \in ResponseTypes,
           NEW K \in SUBSET Accepting(m), NEW k \in SubsetIDs
    PROVE  Collected(k, RecordIn(K, m)[k])
  <1>1. CASE k \notin K
    BY <1>1 DEF RecordIn, SubsetInv
  <1>2. CASE k \in K
    <2>0. PICK sub, new : sub = subsets[k] /\ new = RecordIn(K, m)[k]
      OBVIOUS
    <2>1. /\ m.from \in Nodes /\ m.responses \in [SubsetIDs -> Responses]
          /\ m.from # LeaderID
      BY MessageFields DEF IInv, TypeOK, Backups, ResponseTypes
    <2>2. /\ <<sub.state, m.type>> \in SubsetActions
          /\ m.from \in Signers(sub.points)
          /\ sub.responses[m.from] = 0
          /\ m.responses[k].challenge = sub.challenge
          /\ m.responses[k].secret = sub.points[m.from]
      BY <1>2, <2>0 DEF Accepting, AcceptsResponse, VerifyResponse
    <2>3. m.responses[k].secret # 0
      BY <2>2 DEF Signers
    <2>4. /\ sub \in Subsets
          /\ sub.responses \in [Nodes -> ResponseSecrets]
          /\ sub.counter \in Nat
      BY <2>0 DEF IInv, TypeOK, Subsets, ResponseMaps
    <2>5. /\ new.responses = [sub.responses EXCEPT ![m.from] = m.responses[k].secret]
          /\ new.counter = sub.counter + 1
          /\ new.state = sub.state /\ new.points = sub.points
          /\ new.challenge = sub.challenge
      BY <1>2, <2>0, <2>4 DEF RecordIn, RecordResponse, Subsets
    <2>6. /\ Signers(new.responses) = Signers(sub.responses) \cup {m.from}
          /\ Cardinality(Signers(new.responses)) = Cardinality(Signers(sub.responses)) + 1
      <3>1. \A x \in Nodes :
               new.responses[x] # 0 <=> sub.responses[x] # 0 \/ x = m.from
        BY <2>1, <2>2, <2>3, <2>4, <2>5
      <3> QED
        BY <2>1, <2>2, <3>1, AddSigner
    <2>7. \A t \in ResponseTypes : <<sub.state, t>> \in SubsetActions => t = m.type
      BY <2>2 DEF SubsetActions, ResponseTypes, CHALLENGE_DONE, FINALCHALLENGE_DONE
    <2>8. /\ sub.challenge.points = sub.points
          /\ sub.responses[LeaderID] # 0
          /\ sub.counter = Cardinality(Signers(sub.responses))
          /\ \A b \in Signers(sub.responses) \ {LeaderID} :
               Answered(m.type, k, b, sub.responses[b], sub.challenge)
      BY <2>0, <2>2 DEF SubsetInv, Collected
    <2>9. Answered(m.type, k, m.from, m.responses[k].secret, sub.challenge)
      BY <2>2 DEF Answered
    <2>10. /\ new.responses[LeaderID] # 0
           /\ new.responses[m.from] = m.responses[k].secret
           /\ \A b \in Signers(sub.responses) \ {LeaderID} :
                new.responses[b] = sub.responses[b]
      BY <2>1, <2>2, <2>4, <2>5, <2>8 DEF Signers
    <2>11. \A b \in Signers(new.responses) \ {LeaderID} :
              Answered(m.type, k, b, new.responses[b], new.challenge)
      BY <2>5, <2>6, <2>8, <2>9, <2>10
    <2>12. Collected(k, new)
      BY <2>5, <2>6, <2>7, <2>8, <2>10, <2>11 DEF Collected
    <2> QED
      BY <2>0, <2>12
  <1> QED
    BY <1>1, <1>2

\* A response leaves every subset that still takes responses with those it has
\* collected.
LEMMA ResponseCoreSubsetInv ==
    ASSUME IInv, SubsetInv, NEW m \in msgs, ProcessMessageResponseCore(m)
    PROVE  SubsetInv'
  <1> USE DEF INITIAL, CHALLENGE_DONE, COLLECTIVESIG_DONE, FINALCHALLENGE_DONE,
              DONE, ERROR
  <1>1. m.type \in ResponseTypes
    BY DEF ProcessMessageResponseCore, ResponseTypes
  <1>2. ASSUME NEW K \in SUBSET Accepting(m), NEW k \in SubsetIDs, NEW sub,
               msgs' = msgs, sub = RecordIn(K, m)[k], subsets'[k] = sub
        PROVE  Collected(k, subsets[k])'
    <2>1. Collected(k, sub)
      BY <1>1, <1>2, RecordInCollected
    <2> QED
      BY <1>2, <2>1 DEF Collected, Answered
  <1>3. ASSUME NEW k \in SubsetIDs,
               \A t \in ResponseTypes : <<subsets'[k].state, t>> \notin SubsetActions
        PROVE  Collected(k, subsets[k])'
    BY <1>3 DEF Collected
  <1>4. CASE subsets' = RecordIn(Accepting(m), m) /\ msgs' = msgs
    BY <1>2, <1>4 DEF SubsetInv
  <1>5. ASSUME NEW k \in Completed(m), NEW recorded, NEW sig,
               recorded = RecordIn({j \in Accepting(m) : j <= k}, m),
               FinishSubset(k, m, sig, recorded)
        PROVE  SubsetInv'
    <2>1. recorded \in [SubsetIDs -> Subsets]
      BY <1>1, <1>5, RecordInType DEF IInv, ResponseTypes
    <2>2. \A j \in SubsetIDs :
             subsets'[j].state \in {COLLECTIVESIG_DONE, DONE, INITIAL}
      BY <1>5, <2>1 DEF FinishSubset, Subsets
    <2>3. \A j \in SubsetIDs, t \in ResponseTypes :
             <<subsets'[j].state, t>> \notin SubsetActions
      BY <2>2 DEF SubsetActions
    <2> QED
      BY <1>3, <2>3 DEF SubsetInv
  <1>6. ASSUME NEW k \in Completed(m), NEW recorded,
               recorded = RecordIn({j \in Accepting(m) : j <= k}, m),
               subsets' = [recorded EXCEPT ![k] = [@ EXCEPT !.state = ERROR]],
               msgs' = msgs
        PROVE  SubsetInv'
    <2>1. recorded \in [SubsetIDs -> Subsets]
      BY <1>1, <1>6, RecordInType DEF IInv, ResponseTypes
    <2>2. ASSUME NEW j \in SubsetIDs PROVE Collected(j, subsets[j])'
      <3>1. CASE j = k
        <4>1. subsets'[j].state = ERROR
          BY <1>6, <2>1, <3>1 DEF Subsets
        <4> QED
          BY <1>3, <4>1 DEF SubsetActions
      <3>2. CASE j # k
        <4>1. subsets'[j] = recorded[j]
          BY <1>6, <2>1, <3>2
        <4> QED
          BY <1>2, <1>6, <4>1
      <3> QED
        BY <3>1, <3>2
    <2> QED
      BY <2>2 DEF SubsetInv
  <1> QED
    BY <1>4, <1>5, <1>6 DEF ProcessMessageResponseCore

\* No other step touches the responses of a subset that takes them.
LEMMA SubsetInvStep ==
    ASSUME IInv, SubsetInv, Next
    PROVE  SubsetInv'
  <1> USE DEF INITIAL, ANNOUNCE_DONE, CHALLENGE_DONE, COLLECTIVESIG_DONE,
              FINALCHALLENGE_DONE, DONE, ERROR
  <1>1. ASSUME NEW b \in Backups, BackupNext(b) PROVE SubsetInv'
    <2>1. subsets' = subsets /\ msgs \subseteq msgs'
      BY <1>1, BackupMessages DEF leaderVars
    <2> QED
      BY <2>1, CollectedFrame
  <1>2. CASE StartConsensus
    BY <1>2, CollectedFrame DEF StartConsensus
  <1>3. ASSUME NEW m \in msgs, ProcessMessageCommitCore(m) PROVE SubsetInv'
    <2>1. lstate \notin {CHALLENGE_DONE, FINALCHALLENGE_DONE}
      BY <1>3 DEF ProcessMessageCommitCore, LeaderActions
    <2>2. CASE subsets' = subsets /\ msgs' = msgs
      BY <2>2, CollectedFrame
    <2>3. CASE GenerateAndStartSubsets([commitPoints EXCEPT ![m.from] = m.point])
      BY <2>1, <2>3, GenerateAndStartSubsetInv
    <2> QED
      BY <1>3, <2>2, <2>3 DEF ProcessMessageCommitCore
  <1>4. ASSUME NEW m \in msgs, ProcessMessageCommitFailure(m) PROVE SubsetInv'
    BY <1>4, CollectedFrame DEF ProcessMessageCommitFailure
  <1>5. CASE TimerWait \/ TimerWake \/ TimerInsufficient
    BY <1>5, CollectedFrame DEF TimerWait, TimerWake, TimerInsufficient
  <1>6. CASE TimerStartSubsets
    <2>1. lstate \notin {CHALLENGE_DONE, FINALCHALLENGE_DONE}
      BY <1>6 DEF TimerStartSubsets, IInv, LeaderInv
    <2> QED
      BY <1>6, <2>1, GenerateAndStartSubsetInv DEF TimerStartSubsets
  <1> QED
    BY <1>1, <1>2, <1>3, <1>4, <1>5, <1>6, ResponseCoreSubsetInv
    DEF Next, LeaderNext

------------------------------------------------------------------------------
(* What is behind a collective signature *)

\* A subset that is completed and whose signature verifies has a quorum of
\* signers, the leader among them, and each backup among them answered the
\* challenge that was signed.
LEMMA CompletedSigners ==
    ASSUME IInv, SubsetInv, NEW m \in msgs, m.type \in ResponseTypes,
           NEW k \in Completed(m), NEW sub,
           sub = RecordIn({j \in Accepting(m) : j <= k}, m)[k],
           NEW sig, sig = AggregateSign(sub),
           MultiSigVerify(lmsg, sig, Signers(sub.responses))
    PROVE  /\ LeaderID \in Signers(sub.responses)
           /\ Cardinality(Signers(sub.responses)) = Quorum
           /\ Signers(sig.points) = Signers(sub.responses)
           /\ \A b \in Signers(sub.responses) \ {LeaderID} :
                Answered(m.type, k, b, sig.points[b],
                         [msg |-> sig.msg, points |-> sig.points])
  <1>1. k \in SubsetIDs /\ k \in Accepting(m) /\ subsets[k].counter + 1 = Quorum
    BY DEF Completed, Accepting
  <1>2. k \in {j \in Accepting(m) : j <= k}
    BY <1>1 DEF SubsetIDs
  <1>3. Collected(k, sub)
    BY <1>1, RecordInCollected
  <1>4. /\ subsets[k] \in Subsets
        /\ m.from \in Nodes /\ m.responses[k] \in Responses
    BY <1>1, MessageFields DEF IInv, TypeOK, ResponseTypes, Backups
  <1>5. /\ sub.state = subsets[k].state
        /\ sub.counter = subsets[k].counter + 1
        /\ sub.challenge = subsets[k].challenge
    BY <1>1, <1>2, <1>4 DEF RecordIn, RecordResponse, Subsets
  <1>6. <<sub.state, m.type>> \in SubsetActions
    BY <1>1, <1>5 DEF Accepting, AcceptsResponse
  <1>7. /\ sub.responses[LeaderID] # 0
        /\ sub.counter = Cardinality(Signers(sub.responses))
        /\ \A b \in Signers(sub.responses) \ {LeaderID} :
             Answered(m.type, k, b, sub.responses[b], sub.challenge)
    BY <1>3, <1>6 DEF Collected
  <1>8. /\ sig.msg = sub.challenge.msg /\ sig.points = sub.challenge.points
        /\ sig.responses = sub.responses
    BY DEF AggregateSign
  <1>9. sub.responses = sig.points /\ Signers(sig.points) = Signers(sub.responses)
    BY <1>8 DEF MultiSigVerify
  <1>10. sub.challenge = [msg |-> sig.msg, points |-> sig.points]
    <2>1. sub.challenge \in Challenges
      BY <1>4, <1>5 DEF Subsets
    <2> QED
      BY <1>8, <2>1 DEF Challenges
  <1>11. LeaderID \in Signers(sub.responses)
    BY <1>7 DEF Signers
  <1>12. Cardinality(Signers(sub.responses)) = Quorum
    BY <1>1, <1>5, <1>7
  <1>13. \A b \in Signers(sub.responses) \ {LeaderID} :
            Answered(m.type, k, b, sig.points[b],
                     [msg |-> sig.msg, points |-> sig.points])
    BY <1>7, <1>9, <1>10
  <1> QED
    BY <1>9, <1>11, <1>12, <1>13

\* The step that sends the signature of subset k, with a quorum behind it
SendsSignature(m, k, sig, bitmap) ==
    /\ LeaderID \in bitmap /\ bitmap \subseteq Nodes
    /\ Cardinality(bitmap) = Quorum
    /\ Signers(sig.points) = bitmap
    /\ \A b \in bitmap \ {LeaderID} :
         Answered(m.type, k, b, sig.points[b],
                  [msg |-> sig.msg, points |-> sig.points])
    /\ \/ /\ m.type = "RESPONSE" /\ lstate = CHALLENGE_DONE
          /\ lstate' = COLLECTIVESIG_DONE
          /\ msgs' = msgs \cup {[type |-> "COLLECTIVESIG", sig |-> sig,
                                 bitmap |-> bitmap]}
          /\ lCS1' = sig /\ lCS2' = lCS2
       \/ /\ m.type = "FINALRESPONSE" /\ lstate = FINALCHALLENGE_DONE
          /\ lstate' = DONE
          /\ msgs' = msgs \cup {[type |-> "FINALCOLLECTIVESIG",
                                 sig |-> sig, bitmap |-> bitmap]}
          /\ lCS2' = sig /\ lCS1' = lCS1

\* What a response changes of the leader: nothing but the subsets, or a subset
\* is completed and its signature, which a quorum stands for, is sent.
LEMMA ResponseCoreEffect ==
    ASSUME IInv, SubsetInv, NEW m \in msgs, ProcessMessageResponseCore(m)
    PROVE  \/ UNCHANGED <<lstate, lCS1, lCS2, msgs>>
           \/ \E k \in SubsetIDs : \E sig, bitmap : SendsSignature(m, k, sig, bitmap)
  <1>1. m.type \in ResponseTypes
    BY DEF ProcessMessageResponseCore, ResponseTypes
  <1>2. \/ m.type = "RESPONSE" /\ lstate = CHALLENGE_DONE
        \/ m.type = "FINALRESPONSE" /\ lstate = FINALCHALLENGE_DONE
    BY DEF ProcessMessageResponseCore, LeaderActions, INITIAL, ANNOUNCE_DONE,
           CHALLENGE_DONE, COLLECTIVESIG_DONE, FINALCHALLENGE_DONE, DONE
  <1>3. CASE UNCHANGED <<lstate, lCS1, lCS2, msgs>>
    BY <1>3
  <1>4. ASSUME NEW k \in Completed(m), NEW recorded, NEW sig,
               recorded = RecordIn({j \in Accepting(m) : j <= k}, m),
               sig = AggregateSign(recorded[k]),
               MultiSigVerify(lmsg, sig, Signers(recorded[k].responses)),
               FinishSubset(k, m, sig, recorded)
        PROVE  \E bitmap : SendsSignature(m, k, sig, bitmap)
    <2>1. PICK sub, bitmap : sub = recorded[k] /\ bitmap = Signers(sub.responses)
      OBVIOUS
    <2>2. /\ LeaderID \in bitmap
          /\ Cardinality(bitmap) = Quorum
          /\ Signers(sig.points) = bitmap
          /\ \A b \in bitmap \ {LeaderID} :
               Answered(m.type, k, b, sig.points[b],
                        [msg |-> sig.msg, points |-> sig.points])
      BY <1>1, <1>4, <2>1, CompletedSigners
    <2>3. bitmap \subseteq Nodes
      BY <2>1 DEF Signers
    <2>4. CASE m.type = "RESPONSE" /\ lstate = CHALLENGE_DONE
      <3>1. /\ lstate' = COLLECTIVESIG_DONE
            /\ msgs' = msgs \cup {[type |-> "COLLECTIVESIG", sig |-> sig,
                                   bitmap |-> bitmap]}
            /\ lCS1' = sig /\ lCS2' = lCS2
        BY <1>4, <2>1, <2>4 DEF FinishSubset
      <3> QED
        BY <2>2, <2>3, <2>4, <3>1 DEF SendsSignature
    <2>5. CASE m.type = "FINALRESPONSE" /\ lstate = FINALCHALLENGE_DONE
      <3>1. /\ lstate' = DONE
            /\ msgs' = msgs \cup {[type |-> "FINALCOLLECTIVESIG", sig |-> sig,
                                   bitmap |-> bitmap]}
            /\ lCS2' = sig /\ lCS1' = lCS1
        BY <1>4, <2>1, <2>5 DEF FinishSubset
      <3> QED
        BY <2>2, <2>3, <2>5, <3>1 DEF SendsSignature
    <2> QED
      BY <1>2, <2>4, <2>5
  <1>5. Completed(m) \subseteq SubsetIDs
    BY DEF Completed, Accepting
  <1>6. ASSUME ~ UNCHANGED <<lstate, lCS1, lCS2, msgs>>
        PROVE  \E k \in Completed(m) : \E recorded, sig :
                 /\ recorded = RecordIn({j \in Accepting(m) : j <= k}, m)
                 /\ sig = AggregateSign(recorded[k])
                 /\ MultiSigVerify(lmsg, sig, Signers(recorded[k].responses))
                 /\ FinishSubset(k, m, sig, recorded)
    BY <1>6, Zenon DEF ProcessMessageResponseCore
  <1> QED
    BY <1>3, <1>4, <1>5, <1>6

\* No step sends a collective signature without a quorum behind it.
LEMMA CosignedByQuorumStep ==
    ASSUME IInv, SubsetInv, CosignedByQuorum, Next
    PROVE  CosignedByQuorum'
  <1>1. /\ msgs \subseteq msgs'
        /\ \A n \in msgs' \ msgs : n.type \in SigTypes =>
             \E m \in msgs : ProcessMessageResponseCore(m)
    BY LeaderMessages, BackupMessages DEF Next
  <1> DEFINE Backed(n) ==
               /\ LeaderID \in n.bitmap
               /\ Cardinality(n.bitmap) * 1000 >= N * TOLERANCE
               /\ \A b \in n.bitmap \ {LeaderID} : \E k \in SubsetIDs :
                    Answered(IF n.type = "COLLECTIVESIG" THEN "RESPONSE"
                                                         ELSE "FINALRESPONSE",
                             k, b, n.sig.points[b],
                             [msg |-> n.sig.msg, points |-> n.sig.points])
  <1>2. CosignedByQuorum <=> \A n \in msgs : n.type \in SigTypes => Backed(n)
    BY DEF CosignedByQuorum, Answered, SigTypes
  <1>3. CosignedByQuorum' <=> \A n \in msgs' : n.type \in SigTypes => Backed(n)'
    BY DEF CosignedByQuorum, Answered, SigTypes
  <1>4. \A n : Backed(n) => Backed(n)'
    BY <1>1 DEF Answered
  <1>5. ASSUME NEW n \in msgs' \ msgs, n.type \in SigTypes
        PROVE  Backed(n)
    <2>1. PICK m \in msgs : ProcessMessageResponseCore(m)
      BY <1>1, <1>5
    <2>2. PICK k \in SubsetIDs : \E sig, bitmap : SendsSignature(m, k, sig, bitmap)
      <3>1. msgs' # msgs
        BY <1>5
      <3> QED
        BY <2>1, <3>1, ResponseCoreEffect
    <2>3. PICK sig, bitmap : SendsSignature(m, k, sig, bitmap)
      BY <2>2
    <2>4. /\ LeaderID \in bitmap /\ bitmap \subseteq Nodes
          /\ Cardinality(bitmap) = Quorum
          /\ \A b \in bitmap \ {LeaderID} :
               Answered(m.type, k, b, sig.points[b],
                        [msg |-> sig.msg, points |-> sig.points])
          /\ \/ /\ m.type = "RESPONSE"
                /\ n = [type |-> "COLLECTIVESIG", sig |-> sig, bitmap |-> bitmap]
             \/ /\ m.type = "FINALRESPONSE"
                /\ n = [type |-> "FINALCOLLECTIVESIG", sig |-> sig,
                        bitmap |-> bitmap]
      BY <1>5, <2>3 DEF SendsSignature
    <2>5. /\ n.bitmap = bitmap /\ n.sig = sig
          /\ m.type = IF n.type = "COLLECTIVESIG" THEN "RESPONSE" ELSE "FINALRESPONSE"
      BY <2>4
    <2> QED
      BY <2>4, <2>5, QuorumTolerance
  <1> HIDE DEF Backed
  <1> QED
    BY <1>1, <1>2, <1>3, <1>4, <1>5

\* A step of the leader changes its signatures only in the state of their round.
LEMMA SigInvStep ==
    ASSUME IInv, SubsetInv, SigInv, Next
    PROVE  SigInv'
  <1> USE DEF INITIAL, ANNOUNCE_DONE, CHALLENGE_DONE, COLLECTIVESIG_DONE,
              FINALCHALLENGE_DONE, DONE, ERROR
  <1>1. msgs \subseteq msgs'
    BY LeaderMessages, BackupMessages DEF Next
  <1>2. ASSUME UNCHANGED <<lstate, lCS1, lCS2>> PROVE SigInv'
    BY <1>1, <1>2 DEF SigInv
  <1>3. ASSUME NEW cp, GenerateAndStartSubsets(cp), UNCHANGED <<lCS1, lCS2>>
        PROVE  SigInv'
    <2>1. \/ lstate = ANNOUNCE_DONE /\ lstate' = CHALLENGE_DONE
          \/ lstate = COLLECTIVESIG_DONE /\ lstate' = FINALCHALLENGE_DONE
          \/ lstate' = lstate
      BY <1>3, GenerateAndStartEffect, Zenon
    <2> QED
      BY <1>1, <1>3, <2>1 DEF SigInv
  <1>4. ASSUME NEW b \in Backups, BackupNext(b) PROVE SigInv'
    BY <1>2, <1>4, BackupMessages DEF leaderVars
  <1>5. CASE StartConsensus
    BY <1>1, <1>5 DEF StartConsensus, LeaderActions, SigInv
  <1>6. ASSUME NEW m \in msgs, ProcessMessageCommitCore(m) PROVE SigInv'
    <2>1. PICK cp : cp = [commitPoints EXCEPT ![m.from] = m.point]
      OBVIOUS
    <2>2. UNCHANGED lstate \/ GenerateAndStartSubsets(cp)
      BY <1>6, <2>1, Zenon DEF ProcessMessageCommitCore
    <2>3. UNCHANGED <<lCS1, lCS2>>
      BY <1>6 DEF ProcessMessageCommitCore
    <2> QED
      BY <1>2, <1>3, <2>2, <2>3
  <1>7. ASSUME NEW m \in msgs, ProcessMessageCommitFailure(m) PROVE SigInv'
    <2>1. lstate # DONE /\ [type |-> "ANNOUNCE"] \in msgs
      BY <1>7 DEF ProcessMessageCommitFailure, OwnerAccepts, IInv, LeaderInv
    <2> QED
      BY <1>1, <1>7, <2>1 DEF ProcessMessageCommitFailure, SigInv
  <1>8. ASSUME NEW m \in msgs, ProcessMessageResponseCore(m) PROVE SigInv'
    <2>1. [type |-> "ANNOUNCE"] \in msgs
      BY DEF IInv, LeaderInv
    <2>2. CASE UNCHANGED <<lstate, lCS1, lCS2, msgs>>
      BY <1>2, <2>2
    <2>3. CASE \E sig, bitmap :
                /\ LeaderID \in bitmap /\ Signers(sig.points) = bitmap
                /\ lstate = CHALLENGE_DONE /\ lstate' = COLLECTIVESIG_DONE
                /\ lCS1' = sig /\ lCS2' = lCS2
      BY <1>1, <2>1, <2>3 DEF SigInv
    <2>4. CASE /\ lstate = FINALCHALLENGE_DONE /\ lstate' = DONE
               /\ lCS1' = lCS1
      BY <1>1, <2>1, <2>4 DEF SigInv
    <2> QED
      BY <1>8, <2>2, <2>3, <2>4, ResponseCoreEffect DEF SendsSignature
  <1>9. CASE TimerWait \/ TimerWake
    BY <1>2, <1>9 DEF TimerWait, TimerWake
  <1>10. CASE TimerInsufficient
    <2>1. lstate # DONE /\ [type |-> "ANNOUNCE"] \in msgs
      BY <1>10 DEF TimerInsufficient, IInv, LeaderInv
    <2> QED
      BY <1>1, <1>10, <2>1 DEF TimerInsufficient, SigInv
  <1>11. CASE TimerStartSubsets
    BY <1>3, <1>11 DEF TimerStartSubsets
  <1> QED
    BY <1>4, <1>5, <1>6, <1>7, <1>8, <1>9, <1>10, <1>11 DEF Next, LeaderNext

------------------------------------------------------------------------------
(* The commit secrets *)

\* Every new response answers a challenge, with the sender's current secret
\* unless the sender is faulty, and in the round the sender is in.
LEMMA ChallengeCoreEffect ==
    ASSUME IInv, NEW b \in Backups, NEW m \in msgs, ProcessMessageChallengeCore(b, m)
    PROVE  /\ \E s \in AnswerSecrets(b) : msgs' = msgs \cup {ResponseMessage(b, m, s)}
           /\ secret' = secret
           /\ \/ /\ m.type = "CHALLENGE"
                 /\ bstate[b] \in {COMMIT_DONE, RESPONSE_DONE}
                 /\ bstate' = [bstate EXCEPT ![b] = RESPONSE_DONE]
              \/ /\ m.type = "FINALCHALLENGE"
                 /\ bstate[b] \in {FINALCOMMIT_DONE, FINALRESPONSE_DONE}
                 /\ bstate' = [bstate EXCEPT ![b] = FINALRESPONSE_DONE]
  <1> USE DEF INITIAL, COMMIT_DONE, RESPONSE_DONE, FINALCOMMIT_DONE,
              FINALRESPONSE_DONE, DONE, ERROR
  <1>1. \/ m.type = "CHALLENGE" /\ bstate[b] \in {COMMIT_DONE, RESPONSE_DONE}
        \/ /\ m.type = "FINALCHALLENGE"
           /\ bstate[b] \in {FINALCOMMIT_DONE, FINALRESPONSE_DONE}
    BY DEF ProcessMessageChallengeCore, BackupAccepts, BackupActions
  <1>2. ChallengeVerifies(b, m)
    BY <1>1 DEF ChallengeVerifies, IInv, MessageInv, BackupInv
  <1> QED
    BY <1>1, <1>2 DEF ProcessMessageChallengeCore

\* The type, the sender and the contents of a response message
LEMMA ResponseMessageFields ==
    ASSUME NEW b, NEW m, NEW s, NEW r, r = ResponseMessage(b, m, s)
    PROVE  /\ r.type = IF m.type = "CHALLENGE" THEN "RESPONSE" ELSE "FINALRESPONSE"
           /\ r.from = b
           /\ \A k \in SubsetIDs : /\ r.responses[k].secret = s
                                   /\ r.responses[k].challenge = m.challenges[k]
  BY DEF ResponseMessage

\* Every step keeps it true that each response answers a challenge.
LEMMA ResponseInvStep ==
    ASSUME IInv, ResponseInv, Next
    PROVE  ResponseInv'
  <1>1. /\ msgs \subseteq msgs'
        /\ \A r \in msgs' \ msgs : r.type \in ResponseTypes =>
             \E b \in Backups, c \in msgs : ProcessMessageChallengeCore(b, c)
    BY LeaderMessages, BackupMessages DEF Next
  <1>2. ASSUME NEW r \in msgs' \ msgs, r.type \in ResponseTypes
        PROVE  \E c \in msgs :
                 /\ c.type = IF r.type = "RESPONSE" THEN "CHALLENGE"
                                                    ELSE "FINALCHALLENGE"
                 /\ \A k \in SubsetIDs : r.responses[k].challenge = c.challenges[k]
    <2>1. PICK b \in Backups, c \in msgs : ProcessMessageChallengeCore(b, c)
      BY <1>1, <1>2
    <2>2. PICK s : r = ResponseMessage(b, c, s)
      BY <1>2, <2>1, ChallengeCoreEffect
    <2>3. c.type \in {"CHALLENGE", "FINALCHALLENGE"}
      BY <2>1 DEF ProcessMessageChallengeCore
    <2> QED
      BY <2>2, <2>3, ResponseMessageFields
  <1> QED
    BY <1>1, <1>2 DEF ResponseInv

\* Without a new response of an honest backup, its secrets stay in order as long
\* as the backup stays in its round, leaves it, or draws a new secret.
LEMMA SecretFrame ==
    ASSUME SecretInv, NEW b \in Backups \ Faulty, TypeOK,
           ResponsesOf(b)' = ResponsesOf(b),
           \/ secret'[b] = secret[b] /\ bstate'[b] = bstate[b]
           \/ secret'[b] = secret[b] /\ bstate'[b] \in {INITIAL, DONE, ERROR}
           \/ secret'[b] = secret[b] + 1
    PROVE  SecretsInOrder(b)'
  <1>1. /\ \A r \in ResponsesOf(b), k \in SubsetIDs :
             /\ r.responses[k].secret <= secret[b]
             /\ r.responses[k].secret \in Nat
             /\ OtherRound(r, b) => r.responses[k].secret # secret[b]
        /\ secret[b] \in Nat
    <2>1. \A r \in ResponsesOf(b), k \in SubsetIDs : r.responses[k].secret \in Nat
      BY MessageFields DEF TypeOK, ResponsesOf, ResponseTypes, Responses,
                           ResponseSecrets, BadSecret
    <2> QED
      BY <2>1 DEF SecretInv, SecretsInOrder, TypeOK, Secrets
  <1>2. ASSUME NEW r \in ResponsesOf(b), NEW k \in SubsetIDs
        PROVE  /\ r.responses[k].secret <= secret'[b]
               /\ OtherRound(r, b)' => r.responses[k].secret # secret'[b]
    BY <1>1 DEF OtherRound, INITIAL, COMMIT_DONE, RESPONSE_DONE, FINALCOMMIT_DONE,
                FINALRESPONSE_DONE, DONE, ERROR
  <1>3. \A r1, r2 \in ResponsesOf(b), j, k \in SubsetIDs :
           r1.type = "RESPONSE" /\ r2.type = "FINALRESPONSE" =>
             r1.responses[j].secret # r2.responses[k].secret
    BY DEF SecretInv, SecretsInOrder
  <1> QED
    BY <1>2, <1>3 DEF SecretsInOrder

\* A backup that does not answer a challenge stays as it is, leaves its round, or
\* draws a new secret.
LEMMA BackupSecrets ==
    ASSUME IInv, NEW b \in Backups, BackupNext(b),
           \A m \in msgs : ~ ProcessMessageChallengeCore(b, m)
    PROVE  \/ secret'[b] = secret[b] /\ bstate'[b] = bstate[b]
           \/ secret'[b] = secret[b] /\ bstate'[b] \in {INITIAL, DONE, ERROR}
           \/ secret'[b] = secret[b] + 1
  <1>1. CASE ProcessMessageAnnounce(b)
    BY <1>1 DEF ProcessMessageAnnounce, NewSecret, IInv, TypeOK
  <1>2. CASE FetchDone(b) \/ FetchTimeout(b) \/ ProcessMessageConsensusFailure(b)
    BY <1>2 DEF FetchDone, FetchTimeout, ProcessMessageConsensusFailure, IInv, TypeOK
  <1>3. ASSUME NEW m \in msgs, ProcessMessageCollectiveSig(b, m)
        PROVE  \/ secret'[b] = secret[b] + 1
               \/ secret'[b] = secret[b] /\ bstate'[b] = ERROR
    BY <1>3 DEF ProcessMessageCollectiveSig, NewSecret, IInv, TypeOK
  <1>4. ASSUME NEW m \in msgs, ProcessMessageFinalCollectiveSig(b, m)
        PROVE  secret'[b] = secret[b] /\ bstate'[b] \in {DONE, ERROR}
    BY <1>4 DEF ProcessMessageFinalCollectiveSig, IInv, TypeOK
  <1> QED
    BY <1>1, <1>2, <1>3, <1>4 DEF BackupNext

\* A backup leaves the state and the secrets of the others alone.
LEMMA OtherBackups ==
    ASSUME IInv, NEW b \in Backups, BackupNext(b), NEW c \in Backups, c # b
    PROVE  /\ secret'[c] = secret[c] /\ bstate'[c] = bstate[c]
           /\ ResponsesOf(c)' = ResponsesOf(c)
  <1>1. secret'[c] = secret[c] /\ bstate'[c] = bstate[c]
    <2>1. CASE ProcessMessageAnnounce(b)
      BY <2>1 DEF ProcessMessageAnnounce, IInv, TypeOK
    <2>2. CASE FetchDone(b) \/ FetchTimeout(b) \/ ProcessMessageConsensusFailure(b)
      BY <2>2 DEF FetchDone, FetchTimeout, ProcessMessageConsensusFailure, IInv, TypeOK
    <2>3. ASSUME NEW m \in msgs,
                 \/ ProcessMessageChallengeCore(b, m)
                 \/ ProcessMessageCollectiveSig(b, m)
                 \/ ProcessMessageFinalCollectiveSig(b, m)
          PROVE  secret'[c] = secret[c] /\ bstate'[c] = bstate[c]
      BY <2>3 DEF ProcessMessageChallengeCore, ProcessMessageCollectiveSig,
                  ProcessMessageFinalCollectiveSig, IInv, TypeOK
    <2> QED
      BY <2>1, <2>2, <2>3 DEF BackupNext
  <1>2. /\ msgs \subseteq msgs'
        /\ \A n \in msgs' \ msgs : n.type \in ResponseTypes =>
             \E m \in msgs : ProcessMessageChallengeCore(b, m)
    BY BackupMessages
  <1>3. \A n \in msgs' \ msgs : n.type \in ResponseTypes => n.from = b
    <2> SUFFICES ASSUME NEW n \in msgs' \ msgs, n.type \in ResponseTypes
                 PROVE  n.from = b
      OBVIOUS
    <2>1. PICK m \in msgs : ProcessMessageChallengeCore(b, m)
      BY <1>2
    <2>2. PICK s : msgs' = msgs \cup {ResponseMessage(b, m, s)}
      BY <2>1, ChallengeCoreEffect
    <2> QED
      BY <2>2, ResponseMessageFields
  <1> QED
    BY <1>1, <1>2, <1>3 DEF ResponsesOf

\* An honest backup answers a challenge with its current secret, which it has not
\* used in the other round.
LEMMA ChallengeSecrets ==
    ASSUME IInv, SecretInv, NEW b \in Backups \ Faulty, NEW m \in msgs,
           ProcessMessageChallengeCore(b, m)
    PROVE  SecretsInOrder(b)'
  <1> USE DEF INITIAL, COMMIT_DONE, RESPONSE_DONE, FINALCOMMIT_DONE,
              FINALRESPONSE_DONE, DONE, ERROR
  <1>1. PICK r0 : r0 = ResponseMessage(b, m, secret[b])
    OBVIOUS
  <1>2. /\ msgs' = msgs \cup {r0}
        /\ secret' = secret
    BY <1>1, ChallengeCoreEffect DEF AnswerSecrets
  <1>3. /\ r0.type = IF m.type = "CHALLENGE" THEN "RESPONSE" ELSE "FINALRESPONSE"
        /\ r0.from = b
        /\ \A k \in SubsetIDs : r0.responses[k].secret = secret[b]
    BY <1>1, ResponseMessageFields
  <1>4. /\ ResponsesOf(b)' = ResponsesOf(b) \cup {r0}
        /\ r0.type \in ResponseTypes
    BY <1>2, <1>3 DEF ResponsesOf, ResponseTypes
  <1>5. /\ \A r : OtherRound(r, b)' <=> OtherRound(r, b)
        /\ \A r \in ResponsesOf(b) : r.type # r0.type => OtherRound(r, b)
        /\ ~ OtherRound(r0, b)
    <2>1. \/ /\ m.type = "CHALLENGE" /\ r0.type = "RESPONSE"
             /\ bstate[b] \in {COMMIT_DONE, RESPONSE_DONE}
             /\ bstate'[b] = RESPONSE_DONE
          \/ /\ m.type = "FINALCHALLENGE" /\ r0.type = "FINALRESPONSE"
             /\ bstate[b] \in {FINALCOMMIT_DONE, FINALRESPONSE_DONE}
             /\ bstate'[b] = FINALRESPONSE_DONE
      BY <1>3, ChallengeCoreEffect DEF IInv, TypeOK
    <2> QED
      BY <2>1 DEF OtherRound, ResponsesOf, ResponseTypes
  <1>6. /\ \A r \in ResponsesOf(b), k \in SubsetIDs :
             /\ r.responses[k].secret <= secret[b]
             /\ OtherRound(r, b) => r.responses[k].secret # secret[b]
        /\ \A r1, r2 \in ResponsesOf(b), j, k \in SubsetIDs :
             r1.type = "RESPONSE" /\ r2.type = "FINALRESPONSE" =>
               r1.responses[j].secret # r2.responses[k].secret
    BY DEF SecretInv, SecretsInOrder
  <1>7. secret[b] <= secret[b]
    BY DEF IInv, TypeOK, Secrets
  <1>8. \A r \in ResponsesOf(b) \cup {r0}, k \in SubsetIDs :
           /\ r.responses[k].secret <= secret[b]
           /\ OtherRound(r, b) => r.responses[k].secret # secret[b]
    BY <1>3, <1>5, <1>6, <1>7
  <1>9. \A r1, r2 \in ResponsesOf(b) \cup {r0}, j, k \in SubsetIDs :
           r1.type = "RESPONSE" /\ r2.type = "FINALRESPONSE" =>
             r1.responses[j].secret # r2.responses[k].secret
    BY <1>3, <1>5, <1>6
  <1> QED
    BY <1>2, <1>4, <1>5, <1>8, <1>9 DEF SecretsInOrder

\* Every step keeps the secrets of the honest backups in order.
LEMMA SecretInvStep ==
    ASSUME IInv, SecretInv, Next
    PROVE  SecretInv'
  <1> SUFFICES ASSUME NEW b \in Backups \ Faulty PROVE SecretsInOrder(b)'
    BY DEF SecretInv
  <1>1. CASE LeaderNext
    <2>1. /\ msgs \subseteq msgs' /\ secret' = secret /\ bstate' = bstate
          /\ \A n \in msgs' \ msgs : n.type \notin ResponseTypes
      BY <1>1, LeaderMessages DEF backupVars
    <2>2. ResponsesOf(b)' = ResponsesOf(b)
      BY <2>1 DEF ResponsesOf
    <2> QED
      BY <2>1, <2>2, SecretFrame DEF IInv
  <1>2. ASSUME NEW c \in Backups, BackupNext(c), c # b
        PROVE  SecretsInOrder(b)'
    BY <1>2, OtherBackups, SecretFrame DEF IInv
  <1>3. ASSUME BackupNext(b), \A m \in msgs : ~ ProcessMessageChallengeCore(b, m)
        PROVE  SecretsInOrder(b)'
    <2>1. ResponsesOf(b)' = ResponsesOf(b)
      BY <1>3, BackupMessages DEF ResponsesOf
    <2> QED
      BY <1>3, <2>1, BackupSecrets, SecretFrame DEF IInv
  <1> QED
    BY <1>1, <1>2, <1>3, ChallengeSecrets DEF Next

------------------------------------------------------------------------------
(* The invariance theorems *)

\* The invariant holds before the announcement.
LEMMA InitSigningInv == Init => SigningInv
  <1> SUFFICES ASSUME Init PROVE SigningInv
    OBVIOUS
  <1> USE DEF INITIAL, ANNOUNCE_DONE, COMMIT_DONE, CHALLENGE_DONE, RESPONSE_DONE,
              COLLECTIVESIG_DONE, FINALCOMMIT_DONE, FINALCHALLENGE_DONE,
              FINALRESPONSE_DONE, DONE, ERROR
  <1>1. CommitInv
    <2>1. commitCounter = Cardinality(Signers(commitPoints))
      BY LeaderStarts, LeaderOnly DEF Init
    <2> QED
      BY <2>1 DEF Init, CommitInv
  <1>2. SubsetInv
    BY DEF Init, SubsetInv, Collected, NoSubset, SubsetActions
  <1>3. CosignedByQuorum
    BY DEF Init, CosignedByQuorum
  <1>4. SigInv
    BY DEF Init, SigInv
  <1>5. ResponseInv /\ SecretInv
    BY DEF Init, ResponseInv, SecretInv, SecretsInOrder, ResponsesOf
  <1> QED
    BY <1>1, <1>2, <1>3, <1>4, <1>5, InitIInv DEF SigningInv

\* Every step keeps the invariant.
LEMMA NextSigningInv == SigningInv /\ [Next]_vars => SigningInv'
  <1> SUFFICES ASSUME SigningInv, [Next]_vars PROVE SigningInv'
    OBVIOUS
  <1>1. IInv'
    BY NextIInv DEF SigningInv
  <1>2. CASE Next
    <2>1. CommitInv'
      BY <1>2, LeaderCommitInv, BackupCommitInv DEF SigningInv, Next
    <2> QED
      BY <1>1, <1>2, <2>1, SubsetInvStep, CosignedByQuorumStep, SigInvStep,
         ResponseInvStep, SecretInvStep DEF SigningInv
  <1>3. CASE UNCHANGED vars
    <2>1. CommitInv' /\ SigInv' /\ CosignedByQuorum' /\ ResponseInv'
      BY <1>3 DEF SigningInv, vars, leaderVars, CommitInv, SigInv,
                  CosignedByQuorum, ResponseInv
    <2>2. SubsetInv'
      BY <1>3, CollectedFrame DEF SigningInv, vars, leaderVars
    <2>3. SecretInv'
      BY <1>3 DEF SigningInv, vars, backupVars, SecretInv, SecretsInOrder,
                  ResponsesOf, OtherRound
    <2> QED
      BY <1>1, <2>1, <2>2, <2>3 DEF SigningInv
  <1> QED
    BY <1>2, <1>3

\* The inductive invariant holds in every reachable state.
THEOREM SigningInvariance == Spec => []SigningInv
  BY InitSigningInv, NextSigningInv, PTL DEF Spec

\* Every collective signature that is sent out stands for at least the tolerated
\* fraction of the committee, and each backup it names answered the challenge
\* that was signed.
THEOREM CosignedByQuorumHolds == Spec => []CosignedByQuorum
  BY SigningInvariance, PTL DEF SigningInv

\* While commits are collected m_commitCounter is the number of commit points,
\* and a window that closed with enough commits finds a quorum of them.
THEOREM CommitsCountedHolds == Spec => []CommitsCounted
  <1>1. SigningInv => CommitsCounted
    BY DEF SigningInv, CommitInv, CommitsCounted
  <1> QED
    BY <1>1, SigningInvariance, PTL

\* An honest backup never answers over two messages with one commit secret.
THEOREM SecretPerMessageHolds == Spec => []SecretPerMessage
  <1>1. SigningInv => SecretPerMessage
    <2> SUFFICES ASSUME SigningInv,
                        NEW r1 \in msgs, NEW r2 \in msgs,
                        r1.type \in ResponseTypes, r2.type \in ResponseTypes,
                        r1.from = r2.from, r1.from \notin Faulty,
                        NEW j \in SubsetIDs, NEW k \in SubsetIDs,
                        r1.responses[j].challenge # NoChallenge,
                        r2.responses[k].challenge # NoChallenge,
                        r1.responses[j].secret = r2.responses[k].secret
                 PROVE  r1.responses[j].challenge.msg = r2.responses[k].challenge.msg
      BY DEF SecretPerMessage, ResponseTypes
    <2>1. ASSUME NEW r \in msgs, r.type \in ResponseTypes, NEW i \in SubsetIDs,
                 r.responses[i].challenge # NoChallenge
          PROVE  r.responses[i].challenge.msg =
                   IF r.type = "RESPONSE" THEN Header ELSE AppendSig(Header, lCS1)
      BY <2>1 DEF SigningInv, ResponseInv, ResponseTypes, IInv, MessageInv
    <2>2. r1.type = r2.type
      <3>1. r1.from \in Backups \ Faulty
        BY MessageFields DEF SigningInv, IInv, TypeOK, ResponseTypes
      <3>2. SecretsInOrder(r1.from)
        BY <3>1 DEF SigningInv, SecretInv
      <3>3. r1 \in ResponsesOf(r1.from) /\ r2 \in ResponsesOf(r1.from)
        BY DEF ResponsesOf
      <3> QED
        BY <3>2, <3>3 DEF SecretsInOrder, ResponseTypes
    <2> QED
      BY <2>1, <2>2
  <1> QED
    BY <1>1, SigningInvariance, PTL

\* The state of the leader only advances or drops, and a leader that dropped
\* signs nothing any more.
THEOREM LeaderAdvancesHolds == Spec => LeaderAdvances
  <1> DEFINE Advance ==
               /\ lstate' \in {INITIAL, ERROR} \/ lstate' >= lstate
               /\ (lstate \in {INITIAL, ERROR} /\ [type |-> "ANNOUNCE"] \in msgs)
                    => /\ lstate' \in {INITIAL, ERROR}
                       /\ lCS1' = lCS1 /\ lCS2' = lCS2
  <1>1. SigningInv /\ [Next]_vars => [Advance]_vars
    <2> SUFFICES ASSUME SigningInv, Next PROVE Advance
      OBVIOUS
    <2> USE DEF INITIAL, ANNOUNCE_DONE, CHALLENGE_DONE, COLLECTIVESIG_DONE,
                FINALCHALLENGE_DONE, DONE, ERROR
    <2>1. lstate \in Int
      BY DEF SigningInv, IInv, TypeOK, States
    <2>2. ASSUME UNCHANGED <<lstate, lCS1, lCS2>> PROVE Advance
      BY <2>1, <2>2
    <2>3. ASSUME NEW cp, GenerateAndStartSubsets(cp), UNCHANGED <<lCS1, lCS2>>
          PROVE  Advance
      <3>1. \/ lstate = ANNOUNCE_DONE /\ lstate' = CHALLENGE_DONE
            \/ lstate = COLLECTIVESIG_DONE /\ lstate' = FINALCHALLENGE_DONE
            \/ lstate' = lstate
        BY <2>3, GenerateAndStartEffect, Zenon DEF SigningInv
      <3> QED
        BY <2>1, <2>3, <3>1
    <2>4. ASSUME NEW b \in Backups, BackupNext(b) PROVE Advance
      BY <2>2, <2>4, BackupMessages DEF leaderVars, SigningInv
    <2>5. CASE StartConsensus
      BY <2>5 DEF StartConsensus, LeaderActions
    <2>6. ASSUME NEW m \in msgs, ProcessMessageCommitCore(m) PROVE Advance
      <3>1. PICK cp : cp = [commitPoints EXCEPT ![m.from] = m.point]
        OBVIOUS
      <3>2. UNCHANGED lstate \/ GenerateAndStartSubsets(cp)
        BY <2>6, <3>1, Zenon DEF ProcessMessageCommitCore
      <3>3. UNCHANGED <<lCS1, lCS2>>
        BY <2>6 DEF ProcessMessageCommitCore
      <3> QED
        BY <2>2, <2>3, <3>2, <3>3
    <2>7. ASSUME NEW m \in msgs, ProcessMessageCommitFailure(m) PROVE Advance
      BY <2>1, <2>7 DEF ProcessMessageCommitFailure
    <2>8. ASSUME NEW m \in msgs, ProcessMessageResponseCore(m) PROVE Advance
      <3>1. \/ UNCHANGED <<lstate, lCS1, lCS2>>
            \/ lstate = CHALLENGE_DONE /\ lstate' = COLLECTIVESIG_DONE
            \/ lstate = FINALCHALLENGE_DONE /\ lstate' = DONE
        BY <2>8, ResponseCoreEffect DEF SigningInv, SendsSignature
      <3> QED
        BY <2>2, <3>1
    <2>9. CASE TimerWait \/ TimerWake \/ TimerInsufficient
      BY <2>1, <2>9 DEF TimerWait, TimerWake, TimerInsufficient
    <2>10. CASE TimerStartSubsets
      BY <2>3, <2>10 DEF TimerStartSubsets
    <2> HIDE DEF Advance
    <2> QED
      BY <2>4, <2>5, <2>6, <2>7, <2>8, <2>9, <2>10 DEF Next, LeaderNext
  <1> QED
    BY <1>1, SigningInvariance, PTL DEF Spec, LeaderAdvances

------------------------------------------------------------------------------
(* The refinement of CoSigning *)

\* No signature and no bitmap exist before the announcement.
LEMMA InitCoSign == Init => CoSign!Init
  <1> SUFFICES ASSUME Init PROVE CoSign!Init
    OBVIOUS
  <1>1. Signers(NoSig.points) = {}
    BY DEF Signers, NoSig, NoPoints
  <1>2. Signers(lCS1.points) = {} /\ Signers(lCS2.points) = {}
    BY <1>1 DEF Init
  <1>3. (lstate = ERROR \/ [type |-> "CONSENSUSFAILURE"] \in msgs) = FALSE
    BY DEF Init, INITIAL, ERROR
  <1>4. /\ [b \in Backups |-> Signers(bCS1[b].points)] = [b \in Backups |-> {}]
        /\ [b \in Backups |-> Signers(bCS2[b].points)] = [b \in Backups |-> {}]
    BY <1>1 DEF Init
  <1> QED
    BY <1>2, <1>3, <1>4 DEF CoSign!Init, CoSign!Backups, Backups

\* The mapped variables of CoSigning
First  == Signers(lCS1.points)
Second == Signers(lCS2.points)
GivenUp == lstate = ERROR \/ [type |-> "CONSENSUSFAILURE"] \in msgs
KnownFirst  == [b \in Backups |-> Signers(bCS1[b].points)]
KnownSecond == [b \in Backups |-> Signers(bCS2[b].points)]

\* A step that changes none of the signatures and does not give the instance up
\* is a stuttering step of CoSigning.
LEMMA CoSignStutter ==
    ASSUME UNCHANGED <<lCS1, lCS2, bCS1, bCS2>>, GivenUp' = GivenUp
    PROVE  UNCHANGED CoSign!vars
  <1>1. UNCHANGED <<First, Second, KnownFirst, KnownSecond>>
    BY DEF First, Second, KnownFirst, KnownSecond
  <1> QED
    BY <1>1, Zenon
    DEF CoSign!vars, First, Second, GivenUp, KnownFirst, KnownSecond

\* The first signature of the leader is SignFirst, the second SignSecond.
LEMMA ResponseCoreCoSign ==
    ASSUME SigningInv, NEW m \in msgs, ProcessMessageResponseCore(m)
    PROVE  [CoSign!Next]_(CoSign!vars)
  <1> USE DEF INITIAL, ANNOUNCE_DONE, CHALLENGE_DONE, COLLECTIVESIG_DONE,
              FINALCHALLENGE_DONE, DONE, ERROR
  <1>1. UNCHANGED <<bCS1, bCS2>>
    BY DEF ProcessMessageResponseCore, backupVars
  <1>2. UNCHANGED <<KnownFirst, KnownSecond>>
    BY <1>1 DEF KnownFirst, KnownSecond
  <1>3. Signers(NoSig.points) = {}
    BY DEF Signers, NoSig, NoPoints
  <1>4. CASE UNCHANGED <<lstate, lCS1, lCS2, msgs>>
    <2>1. GivenUp' = GivenUp
      BY <1>4 DEF GivenUp
    <2> QED
      BY <1>1, <1>4, <2>1, CoSignStutter
  <1>5. ASSUME NEW k, NEW sig, NEW bitmap, SendsSignature(m, k, sig, bitmap)
        PROVE  CoSign!Next
    <2>1. bitmap \in CoSign!Bitmaps
      <3>1. CoSign!Cardinality(bitmap) = Cardinality(bitmap)
        BY Zenon DEF Cardinality, IsFiniteSet, CoSign!Cardinality, CoSign!IsFiniteSet
      <3> QED
        BY <1>5, <3>1 DEF SendsSignature, CoSign!Bitmaps
    <2>2. GivenUp = FALSE /\ GivenUp' = FALSE
      <3>1. \A n \in msgs : n.type # "CONSENSUSFAILURE"
        BY <1>5 DEF SendsSignature, SigningInv, IInv, MessageInv
      <3>2. [type |-> "CONSENSUSFAILURE"] \notin msgs
        BY <3>1
      <3>3. [type |-> "CONSENSUSFAILURE"] \notin msgs'
        BY <1>5, <3>2 DEF SendsSignature
      <3>4. lstate # ERROR /\ lstate' # ERROR
        BY <1>5 DEF SendsSignature
      <3> QED
        BY <3>2, <3>3, <3>4 DEF GivenUp
    <2>3. CASE m.type = "RESPONSE"
      <3>1. /\ First = {} /\ First' = bitmap
            /\ Second' = Second
        BY <1>3, <1>5, <2>3 DEF SendsSignature, SigningInv, SigInv, First, Second
      <3>2. CoSign!SignFirst
        BY <1>2, <2>1, <2>2, <3>1, Zenon
        DEF CoSign!SignFirst, First, Second, GivenUp, KnownFirst, KnownSecond
      <3> QED
        BY <3>2 DEF CoSign!Next
    <2>4. CASE m.type = "FINALRESPONSE"
      <3>1. /\ First # {} /\ First' = First
            /\ Second = {} /\ Second' = bitmap
        BY <1>3, <1>5, <2>4 DEF SendsSignature, SigningInv, SigInv, First, Second
      <3>2. CoSign!SignSecond
        BY <1>2, <2>1, <2>2, <3>1, Zenon
        DEF CoSign!SignSecond, First, Second, GivenUp, KnownFirst, KnownSecond
      <3> QED
        BY <3>2 DEF CoSign!Next
    <2> QED
      BY <1>5, <2>3, <2>4 DEF SendsSignature
  <1> QED
    BY <1>4, <1>5, ResponseCoreEffect DEF SigningInv

\* The failure of the instance and a window that closes short are Abort: the
\* second signature does not exist yet.
LEMMA AbortCoSign ==
    ASSUME SigningInv, lstate # DONE,
           UNCHANGED <<lCS1, lCS2, bCS1, bCS2>>, GivenUp'
    PROVE  CoSign!Next
  <1>1. Signers(NoSig.points) = {}
    BY DEF Signers, NoSig, NoPoints
  <1>2. Second = {}
    BY <1>1 DEF SigningInv, SigInv, Second
  <1>3. UNCHANGED <<First, Second, KnownFirst, KnownSecond>>
    BY DEF First, Second, KnownFirst, KnownSecond
  <1>4. CoSign!Abort
    BY <1>2, <1>3, Zenon
    DEF CoSign!Abort, First, Second, GivenUp, KnownFirst, KnownSecond
  <1> QED
    BY <1>4 DEF CoSign!Next

\* Every step of the leader signs, aborts or changes no signature.
LEMMA LeaderCoSign ==
    ASSUME SigningInv, LeaderNext
    PROVE  [CoSign!Next]_(CoSign!vars)
  <1> USE DEF INITIAL, ANNOUNCE_DONE, CHALLENGE_DONE, COLLECTIVESIG_DONE,
              FINALCHALLENGE_DONE, DONE, ERROR
  <1>1. UNCHANGED <<bCS1, bCS2>> /\ msgs \subseteq msgs'
    BY LeaderMessages DEF SigningInv, backupVars
  <1>2. ASSUME UNCHANGED <<lCS1, lCS2>>, lstate' = ERROR <=> lstate = ERROR,
               \A n \in msgs' \ msgs : n.type # "CONSENSUSFAILURE"
        PROVE  UNCHANGED CoSign!vars
    <2>1. GivenUp' = GivenUp
      BY <1>1, <1>2 DEF GivenUp
    <2> QED
      BY <1>1, <1>2, <2>1, CoSignStutter
  <1>3. ASSUME NEW cp, GenerateAndStartSubsets(cp), UNCHANGED <<lCS1, lCS2>>
        PROVE  UNCHANGED CoSign!vars
    <2>1. /\ \A n \in msgs' \ msgs : n.type \in {"CHALLENGE", "FINALCHALLENGE"}
          /\ \/ lstate = ANNOUNCE_DONE /\ lstate' = CHALLENGE_DONE
             \/ lstate = COLLECTIVESIG_DONE /\ lstate' = FINALCHALLENGE_DONE
             \/ lstate' = lstate
      BY <1>3, GenerateAndStartEffect, Zenon DEF SigningInv
    <2> QED
      BY <1>2, <1>3, <2>1
  <1>4. CASE StartConsensus
    BY <1>2, <1>4 DEF StartConsensus, LeaderActions
  <1>5. ASSUME NEW m \in msgs, ProcessMessageCommitCore(m)
        PROVE  UNCHANGED CoSign!vars
    <2>1. PICK cp : cp = [commitPoints EXCEPT ![m.from] = m.point]
      OBVIOUS
    <2>2. UNCHANGED <<lstate, msgs>> \/ GenerateAndStartSubsets(cp)
      BY <1>5, <2>1, Zenon DEF ProcessMessageCommitCore
    <2>3. UNCHANGED <<lCS1, lCS2>>
      BY <1>5 DEF ProcessMessageCommitCore
    <2> QED
      BY <1>2, <1>3, <2>2, <2>3
  <1>6. ASSUME NEW m \in msgs, ProcessMessageCommitFailure(m)
        PROVE  [CoSign!Next]_(CoSign!vars)
    <2>1. lstate # DONE /\ UNCHANGED <<lCS1, lCS2>>
      BY <1>6 DEF ProcessMessageCommitFailure, OwnerAccepts
    <2>2. CASE UNCHANGED <<lstate, msgs>>
      BY <1>2, <2>1, <2>2
    <2>3. CASE msgs' = msgs \cup {[type |-> "CONSENSUSFAILURE"]}
      <3>1. GivenUp'
        BY <2>3 DEF GivenUp
      <3> QED
        BY <1>1, <2>1, <3>1, AbortCoSign
    <2> QED
      BY <1>6, <2>2, <2>3 DEF ProcessMessageCommitFailure
  <1>7. CASE TimerWait \/ TimerWake
    BY <1>2, <1>7 DEF TimerWait, TimerWake
  <1>8. CASE TimerInsufficient
    <2>1. lstate # DONE /\ lstate' = ERROR /\ UNCHANGED <<lCS1, lCS2>>
      BY <1>8 DEF TimerInsufficient, SigningInv, IInv, LeaderInv
    <2>2. GivenUp'
      BY <2>1 DEF GivenUp
    <2> QED
      BY <1>1, <2>1, <2>2, AbortCoSign
  <1>9. CASE TimerStartSubsets
    BY <1>3, <1>9 DEF TimerStartSubsets
  <1> QED
    BY <1>4, <1>5, <1>6, <1>7, <1>8, <1>9, ResponseCoreCoSign DEF LeaderNext

\* Every collective signature that was sent names the leader.
LEMMA LeaderSigns ==
    ASSUME SigningInv, NEW m \in msgs, m.type \in SigTypes
    PROVE  LeaderID \in Signers(m.sig.points)
  <1>1. LeaderID \in m.bitmap
    BY Zenon DEF SigningInv, CosignedByQuorum, SigTypes
  <1>2. Signers(m.sig.points) = m.bitmap
    BY DEF SigningInv, IInv, MessageInv, MultiSigVerify, SigTypes
  <1> QED
    BY <1>1, <1>2

\* A backup learns the leader's signatures, the second after the first, or
\* nothing.
LEMMA BackupCoSign ==
    ASSUME SigningInv, NEW b \in Backups, BackupNext(b)
    PROVE  [CoSign!Next]_(CoSign!vars)
  <1> USE DEF INITIAL, COMMIT_DONE, RESPONSE_DONE, FINALCOMMIT_DONE,
              FINALRESPONSE_DONE, DONE, ERROR
  <1>1. /\ UNCHANGED <<lCS1, lCS2>>
        /\ GivenUp' = GivenUp
    <2>1. /\ UNCHANGED <<lCS1, lCS2, lstate>> /\ msgs \subseteq msgs'
          /\ [type |-> "CONSENSUSFAILURE"] \notin msgs' \ msgs
      BY BackupMessages DEF SigningInv, leaderVars
    <2> QED
      BY <2>1 DEF GivenUp
  <1>2. First' = First /\ Second' = Second
    BY <1>1 DEF First, Second
  <1>3. ASSUME UNCHANGED <<bCS1, bCS2>> PROVE UNCHANGED CoSign!vars
    BY <1>1, <1>3, CoSignStutter
  <1>4. CASE \/ ProcessMessageAnnounce(b) \/ FetchDone(b) \/ FetchTimeout(b)
             \/ ProcessMessageConsensusFailure(b)
    BY <1>3, <1>4 DEF ProcessMessageAnnounce, FetchDone, FetchTimeout,
                      ProcessMessageConsensusFailure
  <1>5. ASSUME NEW m \in msgs, ProcessMessageChallengeCore(b, m)
        PROVE  UNCHANGED CoSign!vars
    BY <1>3, <1>5 DEF ProcessMessageChallengeCore
  <1>6. ASSUME NEW m \in msgs, ProcessMessageCollectiveSig(b, m)
        PROVE  CoSign!Next
    <2>1. m.type = "COLLECTIVESIG" /\ bmsg[b] = Header
      BY <1>6 DEF ProcessMessageCollectiveSig, BackupAccepts, BackupActions,
                  SigningInv, IInv, BackupInv
    <2>2. m.sig = lCS1 /\ MultiSigVerify(Header, m.sig, m.bitmap)
      BY <2>1 DEF SigningInv, IInv, MessageInv
    <2>3. First # {}
      BY <2>1, <2>2, LeaderSigns DEF First, SigTypes
    <2>4. bCS1' = [bCS1 EXCEPT ![b] = lCS1] /\ bCS2' = bCS2
      BY <1>6, <2>1, <2>2 DEF ProcessMessageCollectiveSig
    <2>5. /\ KnownFirst' = [KnownFirst EXCEPT ![b] = First]
          /\ KnownSecond' = KnownSecond
      BY <2>4 DEF KnownFirst, KnownSecond, First, SigningInv, IInv, TypeOK
    <2>6. CoSign!LearnFirst(b)
      BY <1>1, <1>2, <2>3, <2>5, Zenon
      DEF CoSign!LearnFirst, First, Second, GivenUp, KnownFirst, KnownSecond
    <2> QED
      BY <2>6 DEF CoSign!Next, CoSign!Backups, Backups
  <1>7. ASSUME NEW m \in msgs, ProcessMessageFinalCollectiveSig(b, m)
        PROVE  CoSign!Next
    <2>1. /\ m.type = "FINALCOLLECTIVESIG"
          /\ bstate[b] \in {FINALCOMMIT_DONE, FINALRESPONSE_DONE}
      BY <1>7 DEF ProcessMessageFinalCollectiveSig, BackupAccepts,
                  CanProcessMessage, BackupActions
    <2>2. /\ m.sig = lCS2
          /\ MultiSigVerify(bmsg[b], m.sig, m.bitmap)
      BY <2>1 DEF SigningInv, IInv, MessageInv, BackupInv
    <2>3. Second # {}
      BY <2>1, <2>2, LeaderSigns DEF Second, SigTypes
    <2>4. KnownFirst[b] # {}
      <3>1. PICK n \in msgs : n.type = "COLLECTIVESIG"
        BY <2>1 DEF SigningInv, IInv, BackupInv
      <3>2. LeaderID \in Signers(lCS1.points)
        BY <3>1, LeaderSigns DEF SigningInv, IInv, MessageInv, SigTypes
      <3>3. bCS1[b] = lCS1
        BY <2>1 DEF SigningInv, IInv, BackupInv
      <3> QED
        BY <3>2, <3>3 DEF KnownFirst
    <2>5. bCS2' = [bCS2 EXCEPT ![b] = lCS2] /\ bCS1' = bCS1
      BY <1>7, <2>2 DEF ProcessMessageFinalCollectiveSig
    <2>6. /\ KnownSecond' = [KnownSecond EXCEPT ![b] = Second]
          /\ KnownFirst' = KnownFirst
      BY <2>5 DEF KnownFirst, KnownSecond, Second, SigningInv, IInv, TypeOK
    <2>7. CoSign!LearnSecond(b)
      BY <1>1, <1>2, <2>3, <2>4, <2>6, Zenon
      DEF CoSign!LearnSecond, First, Second, GivenUp, KnownFirst, KnownSecond
    <2> QED
      BY <2>7 DEF CoSign!Next, CoSign!Backups, Backups
  <1> QED
    BY <1>4, <1>5, <1>6, <1>7 DEF BackupNext

\* The protocol implements CoSigning: a quorum signs, signs again over the first
\* signature, every backup learns these signatures in order and no others, and
\* an instance that was given up is never completed.
THEOREM ImplementsCoSigningHolds == Spec => ImplementsCoSigning
  <1>1. SigningInv /\ [Next]_vars => [CoSign!Next]_(CoSign!vars)
    <2> SUFFICES ASSUME SigningInv, [Next]_vars PROVE [CoSign!Next]_(CoSign!vars)
      OBVIOUS
    <2>1. CASE UNCHANGED vars
      <3>1. UNCHANGED <<lCS1, lCS2, bCS1, bCS2>> /\ GivenUp' = GivenUp
        BY <2>1 DEF vars, leaderVars, backupVars, GivenUp
      <3> QED
        BY <3>1, CoSignStutter
    <2> QED
      BY <2>1, LeaderCoSign, BackupCoSign DEF Next
  <1> QED
    BY <1>1, InitCoSign, SigningInvariance, PTL
    DEF Spec, ImplementsCoSigning, CoSign!Spec

==============================================================================
