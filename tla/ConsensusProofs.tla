--------------------------- MODULE ConsensusProofs ---------------------------
(***************************************************************************)
(* Proofs about Consensus, for every committee, tolerance, number of       *)
(* subsets and set of faulty backups.                                      *)
(***************************************************************************)
EXTENDS Consensus, TLAPS

USE NAssumption, LeaderAssumption, SubsetsAssumption, MaxCommitsAssumption

------------------------------------------------------------------------------
(* The shape of the messages and of the values they carry *)

\* The fields of a message are known from its type.
LEMMA MessageFields ==
    ASSUME NEW m \in Messages
    PROVE  /\ m.type \in {"COMMIT", "FINALCOMMIT"} =>
                m.from \in Backups /\ m.point \in Secrets
           /\ m.type = "COMMITFAILURE" => m.from \in Backups
           /\ m.type \in {"CHALLENGE", "FINALCHALLENGE"} =>
                m.to \in SUBSET Nodes /\ m.challenges \in [SubsetIDs -> Challenges]
           /\ m.type \in {"RESPONSE", "FINALRESPONSE"} =>
                m.from \in Backups /\ m.responses \in [SubsetIDs -> Responses]
           /\ m.type \in {"COLLECTIVESIG", "FINALCOLLECTIVESIG"} =>
                m.sig \in Sigs /\ m.bitmap \in SUBSET Nodes
  BY DEF Messages

\* The values the initial state and the resets are made of have their types.
LEMMA ConstantTypes ==
    /\ NoPoints \in Points
    /\ [NoPoints EXCEPT ![LeaderID] = 1] \in Points
    /\ NoPoints \in ResponseMaps
    /\ [NoPoints EXCEPT ![LeaderID] = 1] \in ResponseMaps
    /\ NoMessage \in CosignMessages
    /\ Header \in CosignMessages
    /\ NoChallenge \in Challenges
    /\ NoSig \in Sigs
    /\ NoSubset \in Subsets
  <1>1. /\ NoPoints \in Points
        /\ [NoPoints EXCEPT ![LeaderID] = 1] \in Points
    BY DEF NoPoints, Points, Secrets
  <1>2. /\ NoPoints \in ResponseMaps
        /\ [NoPoints EXCEPT ![LeaderID] = 1] \in ResponseMaps
    BY DEF NoPoints, ResponseMaps, ResponseSecrets, BadSecret
  <1>3. NoMessage \in CosignMessages /\ Header \in CosignMessages
    BY <1>1 DEF NoMessage, Header, CosignMessages
  <1>4. NoChallenge \in Challenges /\ NoSig \in Sigs
    BY <1>1, <1>2, <1>3 DEF NoChallenge, Challenges, NoSig, Sigs
  <1>5. NoSubset \in Subsets
    BY <1>1, <1>2, <1>4 DEF NoSubset, Subsets, States, INITIAL, ERROR
  <1> QED
    BY <1>1, <1>2, <1>3, <1>4, <1>5

\* The subsets built from a commit map are well formed, whatever the choice of
\* their peers and whether or not the challenge is sent.
LEMMA SubsetsOfType ==
    ASSUME NEW cp \in Points, NEW choice, NEW s \in States, NEW started \in BOOLEAN,
           lmsg \in CosignMessages
    PROVE  SubsetsOf(cp, choice, s, started) \in [SubsetIDs -> Subsets]
  <1>1. ASSUME NEW S PROVE NewSubset(cp, S, s, started) \in Subsets
    <2>1. SubsetPoints(cp, S) \in Points
      BY DEF SubsetPoints, Points, Secrets
    <2>2. [msg |-> lmsg, points |-> SubsetPoints(cp, S)] \in Challenges
      BY <2>1 DEF Challenges
    <2> QED
      BY <2>1, <2>2, ConstantTypes DEF NewSubset, Subsets
  <1> QED
    BY <1>1, ConstantTypes DEF SubsetsOf

\* The challenge message for such subsets is a message of the protocol.
LEMMA ChallengeMessageType ==
    ASSUME NEW cp \in Points, NEW choice \in SubsetChoices(cp),
           NEW type \in {"CHALLENGE", "FINALCHALLENGE"},
           NEW subs \in [SubsetIDs -> Subsets]
    PROVE  ChallengeMessage(type, choice, subs) \in Messages
  <1>1. \A k \in DOMAIN choice : choice[k] \subseteq Nodes
    BY DEF SubsetChoices, PeerChoices, Signers
  <1>2. {LeaderID} \cup UNION {choice[k] : k \in DOMAIN choice} \in SUBSET Nodes
    BY <1>1
  <1>3. [k \in SubsetIDs |-> subs[k].challenge] \in [SubsetIDs -> Challenges]
    BY DEF Subsets
  <1> QED
    BY <1>2, <1>3 DEF ChallengeMessage, Messages

------------------------------------------------------------------------------
(* Type correctness *)

\* Building and starting the subsets keeps the leader's types.
LEMMA GenerateAndStartType ==
    ASSUME TypeOK, NEW cp \in Points, GenerateAndStartSubsets(cp)
    PROVE  /\ lstate' \in States
           /\ commitPoints' \in Points
           /\ subsets' \in [SubsetIDs -> Subsets]
           /\ msgs' \subseteq Messages
  <1>1. PICK choice \in SubsetChoices(cp) :
           /\ commitPoints' = NoPoints
           /\ \/ \E r \in ChallengeRounds :
                   /\ r.from = lstate
                   /\ lstate' = r.to
                   /\ subsets' = SubsetsOf(cp, choice, r.to, TRUE)
                   /\ msgs' = msgs \cup {ChallengeMessage(r.type, choice, subsets')}
              \/ /\ lstate' = lstate
                 /\ subsets' = SubsetsOf(cp, choice, lstate, FALSE)
                 /\ msgs' = msgs
    BY DEF GenerateAndStartSubsets
  <1>2. commitPoints' \in Points
    BY <1>1, ConstantTypes
  <1>3. CASE \E r \in ChallengeRounds :
                /\ lstate' = r.to
                /\ subsets' = SubsetsOf(cp, choice, r.to, TRUE)
                /\ msgs' = msgs \cup {ChallengeMessage(r.type, choice, subsets')}
    <2>1. PICK r \in ChallengeRounds :
                /\ lstate' = r.to
                /\ subsets' = SubsetsOf(cp, choice, r.to, TRUE)
                /\ msgs' = msgs \cup {ChallengeMessage(r.type, choice, subsets')}
      BY <1>3
    <2>2. r.to \in States /\ r.type \in {"CHALLENGE", "FINALCHALLENGE"}
      BY DEF ChallengeRounds, States, INITIAL, ERROR, CHALLENGE_DONE,
             FINALCHALLENGE_DONE
    <2>3. subsets' \in [SubsetIDs -> Subsets]
      BY <2>1, <2>2, SubsetsOfType DEF TypeOK
    <2>4. ChallengeMessage(r.type, choice, subsets') \in Messages
      BY <2>2, <2>3, ChallengeMessageType
    <2> QED
      BY <1>2, <2>1, <2>2, <2>3, <2>4 DEF TypeOK
  <1>4. CASE /\ lstate' = lstate
             /\ subsets' = SubsetsOf(cp, choice, lstate, FALSE)
             /\ msgs' = msgs
    BY <1>2, <1>4, SubsetsOfType DEF TypeOK
  <1> QED
    BY <1>1, <1>3, <1>4

\* StartConsensus keeps the types: the announcement is a message.
LEMMA StartConsensusType == TypeOK /\ StartConsensus => TypeOK'
  <1> SUFFICES ASSUME TypeOK, StartConsensus PROVE TypeOK'
    OBVIOUS
  <1>1. [type |-> "ANNOUNCE"] \in Messages
    BY DEF Messages
  <1> QED
    BY <1>1, ConstantTypes
    DEF TypeOK, StartConsensus, backupVars, States, ANNOUNCE_DONE, INITIAL, ERROR

\* A commit keeps the types, with or without the start of the subsets.
LEMMA CommitCoreType ==
    ASSUME TypeOK, NEW m \in msgs, ProcessMessageCommitCore(m)
    PROVE  TypeOK'
  <1>1. m.from \in Backups /\ m.point \in Secrets
    BY MessageFields DEF TypeOK, ProcessMessageCommitCore
  <1>2. [commitPoints EXCEPT ![m.from] = m.point] \in Points
    BY <1>1 DEF TypeOK, Points
  <1>3. /\ lstate' \in States
        /\ commitPoints' \in Points
        /\ subsets' \in [SubsetIDs -> Subsets]
        /\ msgs' \subseteq Messages
    BY <1>2, GenerateAndStartType DEF TypeOK, ProcessMessageCommitCore
  <1>4. sufficient' \in BOOLEAN
    BY DEF TypeOK, ProcessMessageCommitCore
  <1> QED
    BY <1>3, <1>4 DEF TypeOK, ProcessMessageCommitCore, backupVars

\* A commit failure keeps the types, also when it aborts the instance.
LEMMA CommitFailureType ==
    ASSUME TypeOK, NEW m \in msgs, ProcessMessageCommitFailure(m)
    PROVE  TypeOK'
  <1>1. m.from \in Backups
    BY MessageFields DEF TypeOK, ProcessMessageCommitFailure
  <1>2. [type |-> "CONSENSUSFAILURE"] \in Messages
    BY DEF Messages
  <1> QED
    BY <1>1, <1>2 DEF TypeOK, ProcessMessageCommitFailure, backupVars,
                      States, INITIAL, ERROR

\* Recording a response keeps a subset well formed.
LEMMA RecordResponseType ==
    ASSUME NEW sub \in Subsets, NEW b \in Nodes, NEW r \in Responses
    PROVE  RecordResponse(sub, b, r) \in Subsets
  <1>1. r.secret \in ResponseSecrets
    BY DEF Responses
  <1>2. [sub.responses EXCEPT ![b] = r.secret] \in ResponseMaps
    BY <1>1 DEF Subsets, ResponseMaps
  <1>3. \A data \in ResponseMaps : [sub EXCEPT !.responses = data] \in Subsets
    BY DEF Subsets
  <1>4. \A s \in Subsets : [s EXCEPT !.counter = @ + 1] \in Subsets
    BY DEF Subsets
  <1> QED
    BY <1>2, <1>3, <1>4 DEF RecordResponse

\* The signature over a challenge, and a message extended by it, are well
\* formed.
LEMMA SignatureType ==
    ASSUME NEW sub \in Subsets PROVE AggregateSign(sub) \in Sigs
  BY DEF AggregateSign, Subsets, Challenges, Sigs

\* A response recorded in any of the subsets leaves them well formed.
LEMMA RecordInType ==
    ASSUME TypeOK, NEW m \in msgs, m.type \in {"RESPONSE", "FINALRESPONSE"}, NEW K
    PROVE  RecordIn(K, m) \in [SubsetIDs -> Subsets]
  <1>1. m.from \in Nodes /\ m.responses \in [SubsetIDs -> Responses]
    BY MessageFields DEF TypeOK, Backups
  <1> QED
    BY <1>1, RecordResponseType DEF RecordIn, TypeOK

\* A message extended by a signature, while it is the header alone
LEMMA AppendSigType ==
    ASSUME NEW sig \in Sigs PROVE AppendSig(Header, sig) \in CosignMessages
  BY DEF AppendSig, Header, Sigs, CosignMessages

\* The end of a subset keeps the types; in the first round the message is the
\* header alone.
LEMMA FinishSubsetType ==
    ASSUME TypeOK, NEW m \in msgs, NEW k \in SubsetIDs,
           NEW sig \in Sigs, NEW recorded \in [SubsetIDs -> Subsets],
           m.type = "RESPONSE" => lmsg = Header,
           FinishSubset(k, m, sig, recorded),
           UNCHANGED <<served, sufficient, backupVars>>
    PROVE  TypeOK'
  <1> DEFINE nextstate == IF m.type = "RESPONSE" THEN COLLECTIVESIG_DONE ELSE DONE
  <1>1. nextstate \in States /\ INITIAL \in States
    BY DEF States, INITIAL, ERROR, COLLECTIVESIG_DONE, DONE
  <1>2. lstate' \in States
    BY <1>1 DEF FinishSubset
  <1>3. subsets' \in [SubsetIDs -> Subsets]
    <2>1. \A j \in SubsetIDs, s \in States :
             [recorded[j] EXCEPT !.state = s] \in Subsets
      BY DEF Subsets
    <2> QED
      BY <1>1, <2>1 DEF FinishSubset
  <1>4. msgs' \subseteq Messages
    <2>1. Signers(recorded[k].responses) \in SUBSET Nodes
      BY DEF Signers
    <2>2. [type |-> IF m.type = "RESPONSE" THEN "COLLECTIVESIG"
                                           ELSE "FINALCOLLECTIVESIG",
           sig |-> sig, bitmap |-> Signers(recorded[k].responses)] \in Messages
      BY <2>1 DEF Messages
    <2> QED
      BY <2>2 DEF FinishSubset, TypeOK
  <1>5. /\ lmsg' \in CosignMessages /\ lCS1' \in Sigs /\ lCS2' \in Sigs
        /\ commitPoints' \in Points /\ commitCounter' \in Nat
        /\ failureCounter' \in Nat /\ failureMap' \subseteq Backups
        /\ timer' \in {"off", "armed", "waiting", "short", "enough"}
    BY ConstantTypes, AppendSigType DEF FinishSubset, TypeOK
  <1> QED
    BY <1>2, <1>3, <1>4, <1>5 DEF TypeOK, backupVars

\* A response keeps the types: it is recorded, or it completes a subset whose
\* signature is right or wrong.
LEMMA ResponseCoreType ==
    ASSUME TypeOK, LeaderInv, NEW m \in msgs, ProcessMessageResponseCore(m)
    PROVE  TypeOK'
  <1>1. m.type \in {"RESPONSE", "FINALRESPONSE"}
    BY DEF ProcessMessageResponseCore
  <1>2. m.type = "RESPONSE" => lmsg = Header
    BY DEF ProcessMessageResponseCore, LeaderInv, LeaderActions, INITIAL,
           ANNOUNCE_DONE, CHALLENGE_DONE, COLLECTIVESIG_DONE,
           FINALCHALLENGE_DONE, DONE
  <1>3. CASE /\ subsets' = RecordIn(Accepting(m), m)
             /\ UNCHANGED <<lstate, lmsg, commitPoints, commitCounter,
                         failureMap, failureCounter, timer, lCS1, lCS2, msgs>>
    BY <1>1, <1>3, RecordInType DEF TypeOK, ProcessMessageResponseCore, backupVars
  <1>4. ASSUME NEW k \in Completed(m), NEW recorded,
               recorded = RecordIn({j \in Accepting(m) : j <= k}, m),
               FinishSubset(k, m, AggregateSign(recorded[k]), recorded)
        PROVE  TypeOK'
    <2>1. k \in SubsetIDs
      BY DEF Completed, Accepting
    <2>2. recorded \in [SubsetIDs -> Subsets]
      BY <1>1, <1>4, RecordInType
    <2>3. AggregateSign(recorded[k]) \in Sigs
      BY <2>1, <2>2, SignatureType
    <2> QED
      BY <1>2, <1>4, <2>1, <2>2, <2>3, FinishSubsetType
      DEF ProcessMessageResponseCore
  <1>5. ASSUME NEW k \in Completed(m), NEW recorded,
               recorded = RecordIn({j \in Accepting(m) : j <= k}, m),
               subsets' = [recorded EXCEPT ![k] = [@ EXCEPT !.state = ERROR]],
               UNCHANGED <<lstate, lmsg, commitPoints, commitCounter,
                         failureMap, failureCounter, timer, lCS1, lCS2, msgs>>
        PROVE  TypeOK'
    <2>1. k \in SubsetIDs
      BY DEF Completed, Accepting
    <2>2. recorded \in [SubsetIDs -> Subsets]
      BY <1>1, <1>5, RecordInType
    <2>3. [recorded[k] EXCEPT !.state = ERROR] \in Subsets
      BY <2>1, <2>2 DEF Subsets, States, INITIAL, ERROR
    <2> QED
      BY <1>5, <2>1, <2>2, <2>3 DEF TypeOK, ProcessMessageResponseCore, backupVars
  <1> QED
    BY <1>3, <1>4, <1>5 DEF ProcessMessageResponseCore

\* The steps of the commit window thread keep the types.
LEMMA TimerType ==
    ASSUME TypeOK, TimerWait \/ TimerWake \/ TimerInsufficient \/ TimerStartSubsets
    PROVE  TypeOK'
  <1>1. CASE TimerWait
    BY <1>1 DEF TypeOK, TimerWait, backupVars
  <1>2. CASE TimerWake
    BY <1>2 DEF TypeOK, TimerWake, backupVars
  <1>3. CASE TimerInsufficient
    BY <1>3 DEF TypeOK, TimerInsufficient, backupVars, States, INITIAL, ERROR
  <1>4. CASE TimerStartSubsets
    <2>1. /\ lstate' \in States
          /\ commitPoints' \in Points
          /\ subsets' \in [SubsetIDs -> Subsets]
          /\ msgs' \subseteq Messages
      BY <1>4, GenerateAndStartType DEF TypeOK, TimerStartSubsets
    <2> QED
      BY <1>4, <2>1 DEF TypeOK, TimerStartSubsets, backupVars
  <1> QED
    BY <1>1, <1>2, <1>3, <1>4

\* Each verdict on the announcement keeps the types: the new secret stays within
\* the bound.
LEMMA AnnounceType ==
    ASSUME TypeOK, NEW b \in Backups, ProcessMessageAnnounce(b)
    PROVE  TypeOK'
  <1>1. bmsg' \in [Backups -> CosignMessages]
    BY ConstantTypes DEF TypeOK, ProcessMessageAnnounce
  <1>2. CASE /\ secret[b] < MaxCommits
             /\ secret' = [secret EXCEPT ![b] = NewSecret(b)]
             /\ bstate' = [bstate EXCEPT ![b] = COMMIT_DONE]
             /\ msgs' = msgs \cup {[type |-> "COMMIT", from |-> b,
                                    point |-> NewSecret(b)]}
             /\ UNCHANGED fetching
    <2>1. NewSecret(b) \in Secrets
      BY <1>2 DEF TypeOK, NewSecret, Secrets
    <2>2. [type |-> "COMMIT", from |-> b, point |-> NewSecret(b)] \in Messages
      BY <2>1 DEF Messages
    <2> QED
      BY <1>1, <1>2, <2>1, <2>2 DEF TypeOK, ProcessMessageAnnounce, leaderVars,
         States, INITIAL, ERROR, COMMIT_DONE
  <1>3. CASE \E v \in Verdicts \cap {"missing", "error"} :
               /\ bstate' = [bstate EXCEPT ![b] = ERROR]
               /\ fetching' = [fetching EXCEPT ![b] = (v = "missing")]
               /\ msgs' = msgs \cup {[type |-> "COMMITFAILURE", from |-> b]}
               /\ UNCHANGED secret
    <2>1. [type |-> "COMMITFAILURE", from |-> b] \in Messages
      BY DEF Messages
    <2>2. bstate' \in [Backups -> States]
      BY <1>3 DEF TypeOK, States, INITIAL, ERROR
    <2>3. fetching' \in [Backups -> BOOLEAN]
      BY <1>3 DEF TypeOK
    <2> QED
      BY <1>1, <1>3, <2>1, <2>2, <2>3 DEF TypeOK, ProcessMessageAnnounce, leaderVars
  <1>4. CASE UNCHANGED <<bstate, secret, fetching, msgs>>
    BY <1>1, <1>4 DEF TypeOK, ProcessMessageAnnounce, leaderVars
  <1> QED
    BY <1>2, <1>3, <1>4 DEF ProcessMessageAnnounce

\* The end of the wait for missing data, and an abort, keep the types.
LEMMA FetchAndFailureType ==
    ASSUME TypeOK, NEW b \in Backups,
           FetchDone(b) \/ FetchTimeout(b) \/ ProcessMessageConsensusFailure(b)
    PROVE  TypeOK'
  <1>1. CASE FetchDone(b)
    BY <1>1 DEF TypeOK, FetchDone, leaderVars, States, INITIAL, ERROR
  <1>2. CASE FetchTimeout(b)
    BY <1>2 DEF TypeOK, FetchTimeout, leaderVars
  <1>3. CASE ProcessMessageConsensusFailure(b)
    BY <1>3 DEF TypeOK, ProcessMessageConsensusFailure, leaderVars, States,
                INITIAL, ERROR
  <1> QED
    BY <1>1, <1>2, <1>3

\* A challenge keeps the types: the response to it is a message.
LEMMA ChallengeCoreType ==
    ASSUME TypeOK, NEW b \in Backups, NEW m \in msgs, ProcessMessageChallengeCore(b, m)
    PROVE  TypeOK'
  <1>1. m.challenges \in [SubsetIDs -> Challenges]
    BY MessageFields DEF TypeOK, ProcessMessageChallengeCore
  <1>2. ASSUME NEW s \in AnswerSecrets(b) PROVE ResponseMessage(b, m, s) \in Messages
    <2>1. s \in ResponseSecrets
      BY DEF TypeOK, AnswerSecrets, Secrets, ResponseSecrets, BadSecret
    <2>2. [k \in SubsetIDs |-> [secret |-> s, challenge |-> m.challenges[k]]]
             \in [SubsetIDs -> Responses]
      BY <1>1, <2>1 DEF Responses
    <2> QED
      BY <2>2 DEF ResponseMessage, Messages
  <1>3. msgs' \subseteq Messages
    BY <1>2 DEF TypeOK, ProcessMessageChallengeCore
  <1>4. bstate' \in [Backups -> States]
    BY DEF TypeOK, ProcessMessageChallengeCore, States, INITIAL, ERROR,
           RESPONSE_DONE, FINALRESPONSE_DONE
  <1> QED
    BY <1>3, <1>4 DEF TypeOK, ProcessMessageChallengeCore, leaderVars

\* The first collective signature keeps the types: it is appended to the header
\* alone.
LEMMA CollectiveSigType ==
    ASSUME TypeOK, BackupInv, NEW b \in Backups, NEW m \in msgs,
           ProcessMessageCollectiveSig(b, m)
    PROVE  TypeOK'
  <1>1. m.sig \in Sigs
    BY MessageFields DEF TypeOK, ProcessMessageCollectiveSig
  <1>2. bmsg[b] = Header
    BY DEF ProcessMessageCollectiveSig, BackupAccepts, BackupActions, BackupInv,
           INITIAL, COMMIT_DONE, RESPONSE_DONE, FINALCOMMIT_DONE, FINALRESPONSE_DONE
  <1>3. CASE MultiSigVerify(bmsg[b], m.sig, m.bitmap)
    <2>1. NewSecret(b) \in Secrets
      BY <1>3 DEF TypeOK, NewSecret, Secrets, ProcessMessageCollectiveSig
    <2>2. [type |-> "FINALCOMMIT", from |-> b, point |-> NewSecret(b)] \in Messages
      BY <2>1 DEF Messages
    <2>3. bmsg' \in [Backups -> CosignMessages]
      BY <1>1, <1>2, <1>3, AppendSigType DEF TypeOK, ProcessMessageCollectiveSig
    <2>4. bstate' \in [Backups -> States]
      BY <1>3 DEF TypeOK, ProcessMessageCollectiveSig, States, INITIAL, ERROR,
                  FINALCOMMIT_DONE
    <2> QED
      BY <1>1, <1>3, <2>1, <2>2, <2>3, <2>4
      DEF TypeOK, ProcessMessageCollectiveSig, leaderVars
  <1>4. CASE ~MultiSigVerify(bmsg[b], m.sig, m.bitmap)
    BY <1>4 DEF TypeOK, ProcessMessageCollectiveSig, leaderVars, States, INITIAL, ERROR
  <1> QED
    BY <1>3, <1>4

\* The second collective signature keeps the types.
LEMMA FinalCollectiveSigType ==
    ASSUME TypeOK, NEW b \in Backups, NEW m \in msgs,
           ProcessMessageFinalCollectiveSig(b, m)
    PROVE  TypeOK'
  <1>1. m.sig \in Sigs
    BY MessageFields DEF TypeOK, ProcessMessageFinalCollectiveSig
  <1>2. bstate' \in [Backups -> States]
    BY DEF TypeOK, ProcessMessageFinalCollectiveSig, States, INITIAL, ERROR, DONE
  <1> QED
    BY <1>1, <1>2 DEF TypeOK, ProcessMessageFinalCollectiveSig, leaderVars

------------------------------------------------------------------------------
(* The steps of the leader *)

\* A step of the leader that keeps a first signature once it was sent, and the
\* second one once it is DONE, disturbs nothing the backups rely on.
LEMMA LeaderFrame ==
    ASSUME BackupInv, LeaderNeverRejected, UNCHANGED backupVars, msgs \subseteq msgs',
           (\E m \in msgs : m.type = "COLLECTIVESIG") => lCS1' = lCS1,
           lstate = DONE => lstate' = DONE /\ lCS2' = lCS2
    PROVE  BackupInv' /\ LeaderNeverRejected'
  <1>1. BackupInv'
    BY DEF BackupInv, backupVars
  <1>2. LeaderNeverRejected'
    BY DEF LeaderNeverRejected, backupVars
  <1> QED
    BY <1>1, <1>2

\* Every challenge the leader sends is over its current message, and the state
\* it sends it in tells which message that is.
LEMMA GenerateAndStartInv ==
    ASSUME IInv, NEW cp, GenerateAndStartSubsets(cp),
           UNCHANGED <<lmsg, lCS1, lCS2>>, timer' = "off"
    PROVE  /\ LeaderInv' /\ MessageInv'
           /\ msgs \subseteq msgs'
           /\ lstate = DONE => lstate' = DONE
  <1> USE DEF INITIAL, ANNOUNCE_DONE, CHALLENGE_DONE, COLLECTIVESIG_DONE,
              FINALCHALLENGE_DONE, DONE, ERROR
  <1>1. PICK choice \in SubsetChoices(cp) :
              \/ \E r \in ChallengeRounds :
                   /\ r.from = lstate
                   /\ lstate' = r.to
                   /\ subsets' = SubsetsOf(cp, choice, r.to, TRUE)
                   /\ msgs' = msgs \cup {ChallengeMessage(r.type, choice, subsets')}
              \/ lstate' = lstate /\ msgs' = msgs
    BY DEF GenerateAndStartSubsets
  <1>2. CASE lstate' = lstate /\ msgs' = msgs
    BY <1>2 DEF IInv, LeaderInv, MessageInv
  <1>3. ASSUME NEW r \in ChallengeRounds,
               r.from = lstate,
               lstate' = r.to,
               subsets' = SubsetsOf(cp, choice, r.to, TRUE),
               msgs' = msgs \cup {ChallengeMessage(r.type, choice, subsets')}
        PROVE  LeaderInv' /\ MessageInv' /\ lstate # DONE
    <2>0. PICK c : c = ChallengeMessage(r.type, choice, SubsetsOf(cp, choice, r.to, TRUE))
      OBVIOUS
    <2>1. /\ c.type = r.type
          /\ \A k \in SubsetIDs :
                c.challenges[k] = NoChallenge \/ c.challenges[k].msg = lmsg
      BY <2>0 DEF ChallengeMessage, SubsetsOf, NewSubset, NoSubset
    <2>2. \/ /\ lstate = ANNOUNCE_DONE /\ lstate' = CHALLENGE_DONE
             /\ r.type = "CHALLENGE"
          \/ /\ lstate = COLLECTIVESIG_DONE /\ lstate' = FINALCHALLENGE_DONE
             /\ r.type = "FINALCHALLENGE"
      <3>1. \/ r = [from |-> ANNOUNCE_DONE, to |-> CHALLENGE_DONE,
                    type |-> "CHALLENGE"]
            \/ r = [from |-> COLLECTIVESIG_DONE, to |-> FINALCHALLENGE_DONE,
                    type |-> "FINALCHALLENGE"]
        BY DEF ChallengeRounds
      <3> QED
        BY <1>3, <3>1
    <2>6. msgs' = msgs \cup {c}
      BY <1>3, <2>0
    <2>3. LeaderInv'
      BY <2>2, <2>6 DEF IInv, LeaderInv
    <2>4. ASSUME NEW m \in msgs
          PROVE  /\ m.type \notin {"FINALCOLLECTIVESIG", "CONSENSUSFAILURE"}
                 /\ m.type \in {"FINALCHALLENGE", "COLLECTIVESIG"} =>
                      lstate = COLLECTIVESIG_DONE
      BY <2>2 DEF IInv, MessageInv
    <2>5. lmsg = IF lstate = ANNOUNCE_DONE THEN Header ELSE AppendSig(Header, lCS1)
      BY <2>2 DEF IInv, LeaderInv
    <2>7. MessageInv'
      BY <2>1, <2>2, <2>4, <2>5, <2>6 DEF IInv, MessageInv
    <2> QED
      BY <2>2, <2>3, <2>7
  <1> QED
    BY <1>1, <1>2, <1>3

\* StartConsensus keeps the invariant: it is the first step of the instance.
LEMMA StartConsensusStep == IInv /\ StartConsensus => IInv'
  <1> SUFFICES ASSUME IInv, StartConsensus PROVE IInv'
    OBVIOUS
  <1> USE DEF INITIAL, ANNOUNCE_DONE, CHALLENGE_DONE, COLLECTIVESIG_DONE,
              FINALCHALLENGE_DONE, DONE, ERROR
  <1>1. msgs = {} /\ lstate = INITIAL
    BY DEF IInv, StartConsensus, LeaderInv, LeaderActions
  <1>2. TypeOK'
    BY StartConsensusType DEF IInv
  <1>3. LeaderInv'
    BY DEF StartConsensus, LeaderInv, SubsetsAssumption
  <1>4. MessageInv'
    BY <1>1 DEF StartConsensus, MessageInv
  <1>5. BackupInv' /\ LeaderNeverRejected'
    BY <1>1, LeaderFrame DEF IInv, StartConsensus
  <1> QED
    BY <1>2, <1>3, <1>4, <1>5 DEF IInv

\* A commit keeps the invariant; it starts the subsets only if there is one
\* subset, and then no window thread is pending.
LEMMA CommitCoreStep ==
    ASSUME IInv, NEW m \in msgs, ProcessMessageCommitCore(m)
    PROVE  IInv'
  <1> USE DEF INITIAL, ANNOUNCE_DONE, CHALLENGE_DONE, COLLECTIVESIG_DONE,
              FINALCHALLENGE_DONE, DONE, ERROR
  <1>1. TypeOK'
    BY CommitCoreType DEF IInv
  <1>2. CASE UNCHANGED <<lstate, msgs>>
    <2>1. LeaderInv' /\ MessageInv'
      BY <1>2 DEF IInv, LeaderInv, MessageInv, ProcessMessageCommitCore
    <2> QED
      BY <1>1, <1>2, <2>1, LeaderFrame DEF IInv, ProcessMessageCommitCore
  <1>3. CASE /\ NumOfSubsets = 1
             /\ GenerateAndStartSubsets([commitPoints EXCEPT ![m.from] = m.point])
    <2>1. timer' = "off"
      BY <1>3 DEF IInv, LeaderInv, ProcessMessageCommitCore
    <2>2. /\ LeaderInv' /\ MessageInv'
          /\ msgs \subseteq msgs'
          /\ lstate = DONE => lstate' = DONE
      BY <1>3, <2>1, GenerateAndStartInv DEF ProcessMessageCommitCore
    <2> QED
      BY <1>1, <2>2, LeaderFrame DEF IInv, ProcessMessageCommitCore
  <1> QED
    BY <1>2, <1>3 DEF ProcessMessageCommitCore

\* A commit failure keeps the invariant: the owner passes none on once the
\* leader is DONE, so an abort never follows the second signature.
LEMMA CommitFailureStep ==
    ASSUME IInv, NEW m \in msgs, ProcessMessageCommitFailure(m)
    PROVE  IInv'
  <1> USE DEF INITIAL, ANNOUNCE_DONE, CHALLENGE_DONE, COLLECTIVESIG_DONE,
              FINALCHALLENGE_DONE, DONE, ERROR
  <1>1. TypeOK'
    BY CommitFailureType DEF IInv
  <1>2. lstate # DONE /\ [type |-> "ANNOUNCE"] \in msgs
    BY DEF ProcessMessageCommitFailure, OwnerAccepts, IInv, LeaderInv
  <1>3. LeaderInv'
    BY <1>2 DEF IInv, LeaderInv, ProcessMessageCommitFailure
  <1>4. MessageInv'
    BY <1>2 DEF IInv, MessageInv, ProcessMessageCommitFailure
  <1>5. BackupInv' /\ LeaderNeverRejected'
    BY <1>2, LeaderFrame DEF IInv, ProcessMessageCommitFailure
  <1> QED
    BY <1>1, <1>3, <1>4, <1>5 DEF IInv

\* The end of a subset: in the first round no first signature was sent before,
\* in the second round no abort was, and the signature is over the leader's
\* message because the leader verified it.
LEMMA FinishSubsetInv ==
    ASSUME IInv, NEW m \in msgs, NEW k, NEW sig, NEW recorded,
           \/ m.type = "RESPONSE" /\ lstate = CHALLENGE_DONE
           \/ m.type = "FINALRESPONSE" /\ lstate = FINALCHALLENGE_DONE,
           MultiSigVerify(lmsg, sig, Signers(recorded[k].responses)),
           FinishSubset(k, m, sig, recorded),
           UNCHANGED backupVars
    PROVE  LeaderInv' /\ MessageInv' /\ BackupInv' /\ LeaderNeverRejected'
  <1> USE DEF INITIAL, ANNOUNCE_DONE, CHALLENGE_DONE, COLLECTIVESIG_DONE,
              FINALCHALLENGE_DONE, DONE, ERROR
  <1>1. timer = "off" /\ [type |-> "ANNOUNCE"] \in msgs
    BY DEF IInv, LeaderInv
  <1>2. \A n \in msgs : n.type \notin {"FINALCOLLECTIVESIG", "CONSENSUSFAILURE"}
    BY DEF IInv, MessageInv
  <1>3. PICK bitmap : bitmap = Signers(recorded[k].responses)
    OBVIOUS
  <1>4. CASE m.type = "RESPONSE" /\ lstate = CHALLENGE_DONE
    <2>1. /\ lstate' = COLLECTIVESIG_DONE
          /\ msgs' = msgs \cup {[type |-> "COLLECTIVESIG", sig |-> sig,
                                 bitmap |-> bitmap]}
          /\ lmsg' = AppendSig(Header, sig) /\ lCS1' = sig /\ lCS2' = lCS2
          /\ timer' = IF NumOfSubsets > 1 THEN "armed" ELSE timer
      BY <1>3, <1>4 DEF FinishSubset, IInv, LeaderInv
    <2>2. \A n \in msgs : n.type \notin {"FINALCHALLENGE", "COLLECTIVESIG"}
      BY <1>4 DEF IInv, MessageInv
    <2>3. MultiSigVerify(Header, sig, bitmap)
      BY <1>3, <1>4 DEF IInv, LeaderInv
    <2>4. LeaderInv'
      BY <1>1, <2>1 DEF LeaderInv
    <2>5. MessageInv'
      BY <1>2, <2>1, <2>2, <2>3 DEF IInv, MessageInv
    <2>6. BackupInv' /\ LeaderNeverRejected'
      BY <1>4, <2>1, <2>2, LeaderFrame DEF IInv
    <2> QED
      BY <2>4, <2>5, <2>6
  <1>5. CASE m.type = "FINALRESPONSE" /\ lstate = FINALCHALLENGE_DONE
    <2>1. /\ lstate' = DONE
          /\ msgs' = msgs \cup {[type |-> "FINALCOLLECTIVESIG", sig |-> sig,
                                 bitmap |-> bitmap]}
          /\ lmsg' = lmsg /\ lCS1' = lCS1 /\ lCS2' = sig
          /\ timer' = timer
      BY <1>3, <1>5 DEF FinishSubset
    <2>2. lmsg = AppendSig(Header, lCS1)
      BY <1>5 DEF IInv, LeaderInv
    <2>3. MultiSigVerify(AppendSig(Header, lCS1), sig, bitmap)
      BY <1>3, <2>2
    <2>4. LeaderInv'
      BY <1>1, <2>1, <2>2 DEF LeaderInv
    <2>5. MessageInv'
      BY <1>2, <2>1, <2>3 DEF IInv, MessageInv
    <2>6. BackupInv' /\ LeaderNeverRejected'
      BY <1>5, <2>1, LeaderFrame DEF IInv
    <2> QED
      BY <2>4, <2>5, <2>6
  <1> QED
    BY <1>4, <1>5

\* A response keeps the invariant: what it signs was verified over the message of
\* the round.
LEMMA ResponseCoreStep ==
    ASSUME IInv, NEW m \in msgs, ProcessMessageResponseCore(m)
    PROVE  IInv'
  <1>1. TypeOK'
    BY ResponseCoreType DEF IInv
  <1>2. \/ m.type = "RESPONSE" /\ lstate = CHALLENGE_DONE
        \/ m.type = "FINALRESPONSE" /\ lstate = FINALCHALLENGE_DONE
    BY DEF ProcessMessageResponseCore, LeaderActions, INITIAL, ANNOUNCE_DONE,
           CHALLENGE_DONE, COLLECTIVESIG_DONE, FINALCHALLENGE_DONE, DONE
  <1>3. CASE UNCHANGED <<lstate, lmsg, timer, lCS1, lCS2, msgs>>
    <2>1. LeaderInv' /\ MessageInv'
      BY <1>3 DEF IInv, LeaderInv, MessageInv
    <2> QED
      BY <1>1, <1>3, <2>1, LeaderFrame DEF IInv, ProcessMessageResponseCore
  <1>4. ASSUME NEW k, NEW recorded, NEW sig,
               MultiSigVerify(lmsg, sig, Signers(recorded[k].responses)),
               FinishSubset(k, m, sig, recorded)
        PROVE  IInv'
    BY <1>1, <1>2, <1>4, FinishSubsetInv DEF IInv, ProcessMessageResponseCore
  <1> QED
    BY <1>3, <1>4 DEF ProcessMessageResponseCore

\* The commit window thread keeps the invariant: where it can be pending, its
\* write of ERROR undoes no completed instance.
LEMMA TimerStep ==
    ASSUME IInv, TimerWait \/ TimerWake \/ TimerInsufficient \/ TimerStartSubsets
    PROVE  IInv'
  <1> USE DEF INITIAL, ANNOUNCE_DONE, CHALLENGE_DONE, COLLECTIVESIG_DONE,
              FINALCHALLENGE_DONE, DONE, ERROR
  <1>1. TypeOK'
    BY TimerType DEF IInv
  <1>2. CASE TimerWait \/ TimerWake
    <2>1. /\ timer # "off"
          /\ UNCHANGED <<lstate, lmsg, lCS1, lCS2, backupVars, msgs>>
      BY <1>2 DEF TimerWait, TimerWake
    <2>2. LeaderInv' /\ MessageInv'
      BY <2>1 DEF IInv, LeaderInv, MessageInv
    <2> QED
      BY <1>1, <2>1, <2>2, LeaderFrame DEF IInv
  <1>3. CASE TimerInsufficient
    <2>1. /\ lstate # DONE /\ lstate' = ERROR /\ timer' = "off"
          /\ UNCHANGED <<lmsg, lCS1, lCS2, backupVars, msgs>>
      BY <1>3 DEF TimerInsufficient, IInv, LeaderInv
    <2>2. msgs # {}
      BY <1>3 DEF TimerInsufficient, IInv, LeaderInv
    <2>3. LeaderInv' /\ MessageInv'
      BY <2>1, <2>2 DEF IInv, LeaderInv, MessageInv
    <2> QED
      BY <1>1, <2>1, <2>3, LeaderFrame DEF IInv
  <1>4. CASE TimerStartSubsets
    <2>1. /\ LeaderInv' /\ MessageInv'
          /\ msgs \subseteq msgs'
          /\ lstate = DONE => lstate' = DONE
      BY <1>4, GenerateAndStartInv DEF TimerStartSubsets
    <2> QED
      BY <1>1, <1>4, <2>1, LeaderFrame DEF IInv, TimerStartSubsets
  <1> QED
    BY <1>2, <1>3, <1>4

------------------------------------------------------------------------------
(* The steps of the backups *)

\* A step of a backup sends at most messages that only the leader reads, which
\* disturbs nothing that is known of the leader.
LEMMA BackupFrame ==
    ASSUME IInv, UNCHANGED leaderVars, msgs \subseteq msgs',
           \A m \in msgs' \ msgs :
              /\ m.type \in {"COMMIT", "FINALCOMMIT", "COMMITFAILURE",
                             "RESPONSE", "FINALRESPONSE"}
              /\ [type |-> "ANNOUNCE"] \in msgs
    PROVE  LeaderInv' /\ MessageInv'
  <1>1. LeaderInv'
    BY DEF IInv, LeaderInv, leaderVars
  <1>2. MessageInv'
    BY DEF IInv, MessageInv, leaderVars
  <1> QED
    BY <1>1, <1>2

\* The announcement keeps the invariant: a backup goes to ERROR only with its
\* commit failure sent.
LEMMA AnnounceStep ==
    ASSUME IInv, NEW b \in Backups, ProcessMessageAnnounce(b)
    PROVE  IInv'
  <1> USE DEF INITIAL, COMMIT_DONE, RESPONSE_DONE, FINALCOMMIT_DONE,
              FINALRESPONSE_DONE, DONE, ERROR
  <1>1. TypeOK'
    BY AnnounceType DEF IInv
  <1>2. LeaderInv' /\ MessageInv'
    BY BackupFrame DEF ProcessMessageAnnounce
  <1>3. bstate[b] = INITIAL
    BY DEF ProcessMessageAnnounce, BackupAccepts, BackupActions
  <1>4. /\ bstate' \in [Backups -> States] /\ bmsg' \in [Backups -> CosignMessages]
        /\ \A c \in Backups \ {b} : bstate'[c] = bstate[c] /\ bmsg'[c] = bmsg[c]
        /\ bmsg'[b] = Header
        /\ bstate'[b] \in {INITIAL, COMMIT_DONE, ERROR}
        /\ bstate'[b] = ERROR => [type |-> "COMMITFAILURE", from |-> b] \in msgs'
        /\ UNCHANGED <<bCS1, bCS2, lCS1, lCS2, lstate>> /\ msgs \subseteq msgs'
    BY <1>1, <1>3 DEF ProcessMessageAnnounce, IInv, TypeOK, leaderVars
  <1>5. BackupInv'
    BY <1>4 DEF IInv, BackupInv
  <1>6. LeaderNeverRejected'
    BY <1>4 DEF IInv, LeaderNeverRejected
  <1> QED
    BY <1>1, <1>2, <1>5, <1>6 DEF IInv

\* A backup put back to INITIAL has nothing left to agree on.
LEMMA FetchAndFailureStep ==
    ASSUME IInv, NEW b \in Backups,
           FetchDone(b) \/ FetchTimeout(b) \/ ProcessMessageConsensusFailure(b)
    PROVE  IInv'
  <1> USE DEF INITIAL, COMMIT_DONE, RESPONSE_DONE, FINALCOMMIT_DONE,
              FINALRESPONSE_DONE, DONE, ERROR
  <1>1. TypeOK'
    BY FetchAndFailureType DEF IInv
  <1>2. /\ bstate' = bstate \/ bstate' = [bstate EXCEPT ![b] = INITIAL]
        /\ UNCHANGED <<bmsg, bCS1, bCS2, msgs, leaderVars>>
    BY DEF FetchDone, FetchTimeout, ProcessMessageConsensusFailure
  <1>3. LeaderInv' /\ MessageInv'
    BY <1>2, BackupFrame
  <1>4. \A c \in Backups : bstate'[c] = bstate[c] \/ bstate'[c] = INITIAL
    BY <1>2 DEF IInv, TypeOK
  <1>5. BackupInv'
    BY <1>2, <1>4 DEF IInv, BackupInv, leaderVars
  <1>6. LeaderNeverRejected'
    BY <1>2, <1>4 DEF IInv, LeaderNeverRejected
  <1> QED
    BY <1>1, <1>3, <1>5, <1>6 DEF IInv

\* A challenge keeps the invariant: the check of the backup always succeeds.
LEMMA ChallengeCoreStep ==
    ASSUME IInv, NEW b \in Backups, NEW m \in msgs, ProcessMessageChallengeCore(b, m)
    PROVE  IInv'
  <1> USE DEF INITIAL, COMMIT_DONE, RESPONSE_DONE, FINALCOMMIT_DONE,
              FINALRESPONSE_DONE, DONE, ERROR
  <1>1. TypeOK'
    BY ChallengeCoreType DEF IInv
  <1>2. \/ m.type = "CHALLENGE" /\ bstate[b] \in {COMMIT_DONE, RESPONSE_DONE}
        \/ /\ m.type = "FINALCHALLENGE"
           /\ bstate[b] \in {FINALCOMMIT_DONE, FINALRESPONSE_DONE}
    BY DEF ProcessMessageChallengeCore, BackupAccepts, BackupActions
  <1>3. ChallengeVerifies(b, m)
    BY <1>2 DEF ChallengeVerifies, IInv, MessageInv, BackupInv
  <1>4. PICK s : msgs' = msgs \cup {ResponseMessage(b, m, s)}
    BY <1>3 DEF ProcessMessageChallengeCore
  <1>5. ResponseMessage(b, m, s).type \in {"RESPONSE", "FINALRESPONSE"}
    BY DEF ResponseMessage
  <1>6. [type |-> "ANNOUNCE"] \in msgs
    BY DEF IInv, LeaderInv
  <1>7. LeaderInv' /\ MessageInv'
    BY <1>4, <1>5, <1>6, BackupFrame DEF ProcessMessageChallengeCore
  <1>8. /\ bstate' = [bstate EXCEPT ![b] =
                        IF m.type = "CHALLENGE" THEN RESPONSE_DONE
                                                ELSE FINALRESPONSE_DONE]
        /\ UNCHANGED <<bmsg, bCS1, bCS2, lCS1, lCS2, lstate>>
    BY <1>3 DEF ProcessMessageChallengeCore, leaderVars
  <1>9. BackupInv'
    BY <1>2, <1>4, <1>8 DEF IInv, TypeOK, BackupInv
  <1>10. LeaderNeverRejected'
    BY <1>2, <1>4, <1>8 DEF IInv, TypeOK, LeaderNeverRejected
  <1> QED
    BY <1>1, <1>7, <1>9, <1>10 DEF IInv

\* The first collective signature keeps the invariant: the backup accepts it and
\* signs the same message as the leader from then on.
LEMMA CollectiveSigStep ==
    ASSUME IInv, NEW b \in Backups, NEW m \in msgs, ProcessMessageCollectiveSig(b, m)
    PROVE  IInv'
  <1> USE DEF INITIAL, COMMIT_DONE, RESPONSE_DONE, FINALCOMMIT_DONE,
              FINALRESPONSE_DONE, DONE, ERROR
  <1>1. TypeOK'
    BY CollectiveSigType DEF IInv
  <1>2. bmsg[b] = Header /\ m.type = "COLLECTIVESIG"
    BY DEF ProcessMessageCollectiveSig, BackupAccepts, BackupActions, IInv, BackupInv
  <1>3. m.sig = lCS1 /\ MultiSigVerify(bmsg[b], m.sig, m.bitmap)
    BY <1>2 DEF IInv, MessageInv
  <1>4. /\ bstate' = [bstate EXCEPT ![b] = FINALCOMMIT_DONE]
        /\ bmsg' = [bmsg EXCEPT ![b] = AppendSig(Header, lCS1)]
        /\ bCS1' = [bCS1 EXCEPT ![b] = lCS1]
        /\ msgs' = msgs \cup {[type |-> "FINALCOMMIT", from |-> b,
                               point |-> NewSecret(b)]}
        /\ UNCHANGED <<bCS2, leaderVars>>
    BY <1>2, <1>3 DEF ProcessMessageCollectiveSig
  <1>5. [type |-> "ANNOUNCE"] \in msgs
    BY DEF IInv, LeaderInv
  <1>6. LeaderInv' /\ MessageInv'
    BY <1>4, <1>5, BackupFrame
  <1>7. BackupInv'
    BY <1>2, <1>4 DEF IInv, TypeOK, BackupInv, leaderVars
  <1>8. LeaderNeverRejected'
    BY <1>4 DEF IInv, TypeOK, LeaderNeverRejected
  <1> QED
    BY <1>1, <1>6, <1>7, <1>8 DEF IInv

\* The second collective signature keeps the invariant: it verifies over the
\* message of the backup, and the leader is DONE.
LEMMA FinalCollectiveSigStep ==
    ASSUME IInv, NEW b \in Backups, NEW m \in msgs,
           ProcessMessageFinalCollectiveSig(b, m)
    PROVE  IInv'
  <1> USE DEF INITIAL, COMMIT_DONE, RESPONSE_DONE, FINALCOMMIT_DONE,
              FINALRESPONSE_DONE, DONE, ERROR
  <1>1. TypeOK'
    BY FinalCollectiveSigType DEF IInv
  <1>2. /\ m.type = "FINALCOLLECTIVESIG"
        /\ bstate[b] \in {FINALCOMMIT_DONE, FINALRESPONSE_DONE}
    BY DEF ProcessMessageFinalCollectiveSig, BackupAccepts, CanProcessMessage,
           BackupActions
  <1>3. /\ m.sig = lCS2
        /\ m.sig.msg = AppendSig(Header, lCS1)
        /\ MultiSigVerify(bmsg[b], m.sig, m.bitmap)
        /\ lstate = DONE
    BY <1>2 DEF IInv, MessageInv, BackupInv, MultiSigVerify
  <1>4. /\ bstate' = [bstate EXCEPT ![b] = DONE]
        /\ bCS2' = [bCS2 EXCEPT ![b] = lCS2]
        /\ UNCHANGED <<bmsg, bCS1, msgs, leaderVars>>
    BY <1>3 DEF ProcessMessageFinalCollectiveSig
  <1>5. LeaderInv' /\ MessageInv'
    BY <1>4, BackupFrame
  <1>6. BackupInv'
    BY <1>2, <1>3, <1>4 DEF IInv, TypeOK, BackupInv, leaderVars
  <1>7. LeaderNeverRejected'
    BY <1>4 DEF IInv, TypeOK, LeaderNeverRejected
  <1> QED
    BY <1>1, <1>5, <1>6, <1>7 DEF IInv

------------------------------------------------------------------------------
(* The theorems *)

\* The invariant holds before the announcement.
LEMMA InitIInv == Init => IInv
  <1> SUFFICES ASSUME Init PROVE IInv
    OBVIOUS
  <1> USE DEF INITIAL, ANNOUNCE_DONE, COMMIT_DONE, CHALLENGE_DONE, RESPONSE_DONE,
              COLLECTIVESIG_DONE, FINALCOMMIT_DONE, FINALCHALLENGE_DONE,
              FINALRESPONSE_DONE, DONE, ERROR
  <1>1. TypeOK
    <2>1. /\ lstate \in States /\ bstate \in [Backups -> States]
          /\ secret \in [Backups -> Secrets] /\ fetching \in [Backups -> BOOLEAN]
      BY DEF Init, States, Secrets
    <2>2. /\ subsets \in [SubsetIDs -> Subsets]
          /\ bmsg \in [Backups -> CosignMessages]
          /\ bCS1 \in [Backups -> Sigs] /\ bCS2 \in [Backups -> Sigs]
      BY ConstantTypes DEF Init
    <2>3. /\ lmsg \in CosignMessages /\ commitPoints \in Points
          /\ lCS1 \in Sigs /\ lCS2 \in Sigs
      BY ConstantTypes DEF Init
    <2>4. /\ commitCounter \in Nat /\ failureCounter \in Nat
          /\ failureMap \subseteq Backups /\ served \subseteq Backups
          /\ sufficient \in BOOLEAN /\ msgs \subseteq Messages
          /\ timer \in {"off", "armed", "waiting", "short", "enough"}
      BY DEF Init
    <2> QED
      BY <2>1, <2>2, <2>3, <2>4 DEF TypeOK
  <1>2. LeaderInv /\ MessageInv
    BY DEF Init, LeaderInv, MessageInv
  <1>3. BackupInv /\ LeaderNeverRejected
    BY DEF Init, BackupInv, LeaderNeverRejected
  <1> QED
    BY <1>1, <1>2, <1>3 DEF IInv

\* Every step keeps the invariant.
LEMMA NextIInv == IInv /\ [Next]_vars => IInv'
  <1> SUFFICES ASSUME IInv, [Next]_vars PROVE IInv'
    OBVIOUS
  <1>1. CASE UNCHANGED vars
    BY <1>1 DEF vars, leaderVars, backupVars, IInv, TypeOK, LeaderInv, MessageInv,
                BackupInv, LeaderNeverRejected
  <1>2. CASE LeaderNext
    BY <1>2, StartConsensusStep, CommitCoreStep, CommitFailureStep,
       ResponseCoreStep, TimerStep DEF LeaderNext
  <1>3. CASE \E b \in Backups : BackupNext(b)
    BY <1>3, AnnounceStep, FetchAndFailureStep, ChallengeCoreStep,
       CollectiveSigStep, FinalCollectiveSigStep DEF BackupNext
  <1> QED
    BY <1>1, <1>2, <1>3 DEF Next

\* The inductive invariant holds in every reachable state.
THEOREM Invariance == Spec => []IInv
  BY InitIInv, NextIInv, PTL DEF Spec

\* Every variable of leader and backups keeps its type.
THEOREM TypeCorrect == Spec => []TypeOK
  BY Invariance, PTL DEF IInv

\* A backup that finishes holds the signatures of the leader, which finished.
THEOREM AgreementHolds == Spec => []Agreement
  <1>1. IInv => Agreement
    BY DEF IInv, BackupInv, Agreement
  <1> QED
    BY <1>1, Invariance, PTL

\* No instance is both aborted and completed.
THEOREM OutcomeExclusiveHolds == Spec => []OutcomeExclusive
  <1>1. IInv => OutcomeExclusive
    BY DEF IInv, MessageInv, OutcomeExclusive, DONE, INITIAL, ERROR
  <1> QED
    BY <1>1, Invariance, PTL

\* No delay, reordering or repetition makes a backup reject its leader.
THEOREM LeaderNeverRejectedHolds == Spec => []LeaderNeverRejected
  BY Invariance, PTL DEF IInv

==============================================================================
