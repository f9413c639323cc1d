------------------------------ MODULE Consensus ------------------------------
(***************************************************************************)
(* One instance of the two-round collective-signing protocol of            *)
(* libConsensus: a ConsensusLeader and its ConsensusBackups agree on one   *)
(* announced block.  Round 1 collects commits, sends a challenge to one or *)
(* more subsets of the backups that committed, and aggregates the          *)
(* responses of the first subset that is complete into CS1 with bitmap B1. *)
(* Round 2 does the same over the block header followed by CS1 and B1,     *)
(* which gives CS2 and B2.                                                 *)
(*                                                                         *)
(* Handlers are atomic: the owner of the object (DirectoryService or Node) *)
(* calls ProcessMessage under m_mutexConsensus.  The leader's commit       *)
(* window runs in a detached thread that does not take that mutex, so its  *)
(* steps interleave with the handlers (the lock order of the two threads   *)
(* is the subject of module CommitWindow).                                 *)
(*                                                                         *)
(* Data abstraction.  Commit secret number i of a node and its commit      *)
(* point are the number i, 0 meaning none.  A vector of commit points is a *)
(* function from the committee to numbers; the bitmap of the vector is the *)
(* set of its nonzero positions.  A challenge [msg, points] binds a        *)
(* message and the aggregated commit points with their keys; a collective  *)
(* signature adds the aggregated responses, each named by the secret it    *)
(* was made with.  m_messageToCosign is the number of parts appended to it *)
(* (0 none, 1 the header, 2 header and CS1, B1) and the points of the CS1  *)
(* in it: everyone's header is the one announced.                          *)
(***************************************************************************)
EXTENDS Integers, FiniteSets

CONSTANTS
    N,                  \* committee size; a node is its index in m_committee
    LeaderID,           \* the index of the leader
    TOLERANCE,          \* TOLERANCE_FRACTION in thousandths (667 in the code)
    NumOfSubsets,       \* m_numOfSubsets
    SufficientCommits,  \* m_sufficientCommitsNumForSubsets
    Verdicts,           \* what the announcement validator may answer
    Faulty,             \* backups whose responses may be invalid
    MaxCommits          \* bound on the commit secrets one backup draws

Nodes == 0 .. (N - 1)

Backups == Nodes \ {LeaderID}

\* The validator accepts; fails with an error message (for missing data that
\* can be fetched, or for another reason); fails without an error message.
AllVerdicts == {"valid", "missing", "error", "silent"}

ASSUME NAssumption == N \in Nat /\ N > 1
ASSUME LeaderAssumption == LeaderID \in Nodes
ASSUME ToleranceAssumption == TOLERANCE \in 1 .. 1000
ASSUME SubsetsAssumption == NumOfSubsets \in Nat \ {0}
ASSUME SufficientAssumption == SufficientCommits \in Nat
ASSUME VerdictsAssumption == Verdicts \subseteq AllVerdicts
ASSUME FaultyAssumption == Faulty \subseteq Backups
ASSUME MaxCommitsAssumption == MaxCommits \in Nat \ {0}

VARIABLES
    lstate,         \* leader: m_state
    lmsg,           \* leader: m_messageToCosign
    commitPoints,   \* leader: m_commitPointMap (nonzero where m_commitMap)
    commitCounter,  \* leader: m_commitCounter
    failureMap,     \* leader: keys of m_commitFailureMap
    failureCounter, \* leader: m_commitFailureCounter
    served,         \* backups the node commit failure handler answered
    subsets,        \* leader: m_consensusSubsets
    sufficient,     \* leader: m_sufficientCommitsReceived
    timer,          \* leader: the commit window thread
    lCS1, lCS2,     \* leader: m_CS1 with m_B1, m_CS2 with m_B2
    bstate,         \* backups: m_state
    bmsg,           \* backups: m_messageToCosign
    secret,         \* backups: m_commitSecret
    fetching,       \* backups: the owner waits for missing data
    bCS1, bCS2,     \* backups: m_CS1 with m_B1, m_CS2 with m_B2
    msgs            \* every message sent so far

leaderVars == <<lstate, lmsg, commitPoints, commitCounter, failureMap,
                failureCounter, served, subsets, sufficient, timer, lCS1, lCS2>>
backupVars == <<bstate, bmsg, secret, fetching, bCS1, bCS2>>
vars == <<leaderVars, backupVars, msgs>>

------------------------------------------------------------------------------
(* enum State, in the order SetStateSubset compares *)
INITIAL             == 0
ANNOUNCE_DONE       == 1
COMMIT_DONE         == 2
CHALLENGE_DONE      == 3
RESPONSE_DONE       == 4
COLLECTIVESIG_DONE  == 5
FINALCOMMIT_DONE    == 6
FINALCHALLENGE_DONE == 7
FINALRESPONSE_DONE  == 8
DONE                == 9
ERROR               == 10

States == INITIAL .. ERROR

SubsetIDs == 1 .. NumOfSubsets

Secrets == 0 .. MaxCommits

\* A response that no commit secret of its sender explains
BadSecret == MaxCommits + 1

Points == [Nodes -> Secrets]

NoPoints == [n \in Nodes |-> 0]

Signers(points) == {n \in Nodes : points[n] # 0}

\* Mutation of NumForConsensus: rounds down instead of up.
NumForConsensusFloor(size) == (size * TOLERANCE) \div 1000

\* ConsensusCommon::NumForConsensus: ceil(shardSize * TOLERANCE_FRACTION)
NumForConsensus(size) == (size * TOLERANCE + 999) \div 1000

\* m_numForConsensus and m_numForConsensusFailure of the leader
Quorum == NumForConsensus(N)

NumForFailure == N - Quorum

NoMessage == [parts |-> 0, cs1 |-> NoPoints]

Header == [parts |-> 1, cs1 |-> NoPoints]

\* Mutation of AppendSig: the signature and its bitmap count as two parts.
AppendSigTwice(msg, sig) == [parts |-> msg.parts + 2, cs1 |-> sig.points]

\* m_messageToCosign is extended by a collective signature and its bitmap
AppendSig(msg, sig) == [parts |-> msg.parts + 1, cs1 |-> sig.points]

CosignMessages == [parts : 0 .. 2, cs1 : Points]

Challenges == [msg : CosignMessages, points : Points]

NoChallenge == [msg |-> NoMessage, points |-> NoPoints]

ResponseSecrets == 0 .. BadSecret

Responses == [secret : ResponseSecrets, challenge : Challenges]

ResponseMaps == [Nodes -> ResponseSecrets]

Sigs == [msg : CosignMessages, points : Points, responses : ResponseMaps]

NoSig == [msg |-> NoMessage, points |-> NoPoints, responses |-> NoPoints]

Messages ==
         [type : {"ANNOUNCE", "CONSENSUSFAILURE"}]
    \cup [type : {"COMMITFAILURE"}, from : Backups]
    \cup [type : {"COMMIT", "FINALCOMMIT"}, from : Backups, point : Secrets]
    \cup [type : {"CHALLENGE", "FINALCHALLENGE"}, to : SUBSET Nodes,
          challenges : [SubsetIDs -> Challenges]]
    \cup [type : {"RESPONSE", "FINALRESPONSE"}, from : Backups,
          responses : [SubsetIDs -> Responses]]
    \cup [type : {"COLLECTIVESIG", "FINALCOLLECTIVESIG"}, sig : Sigs,
          bitmap : SUBSET Nodes]

\* struct ConsensusSubset: commitPointMap, challenge, responseDataMap (nonzero
\* where responseMap) and responseCounter
Subsets == [state : States, points : Points, challenge : Challenges,
            responses : ResponseMaps, counter : Nat]

NoSubset == [state |-> INITIAL, points |-> NoPoints, challenge |-> NoChallenge,
             responses |-> NoPoints, counter |-> 0]

Init ==
    /\ lstate = INITIAL
    /\ lmsg = NoMessage
    /\ commitPoints = [NoPoints EXCEPT ![LeaderID] = 1]
    /\ commitCounter = 1
    /\ failureMap = {}
    /\ failureCounter = 0
    /\ served = {}
    /\ subsets = [k \in SubsetIDs |-> NoSubset]
    /\ sufficient = FALSE
    /\ timer = "off"
    /\ lCS1 = NoSig
    /\ lCS2 = NoSig
    /\ bstate = [b \in Backups |-> INITIAL]
    /\ bmsg = [b \in Backups |-> NoMessage]
    /\ secret = [b \in Backups |-> 0]
    /\ fetching = [b \in Backups |-> FALSE]
    /\ bCS1 = [b \in Backups |-> NoSig]
    /\ bCS2 = [b \in Backups |-> NoSig]
    /\ msgs = {}

------------------------------------------------------------------------------
(* The leader *)

\* The table of ConsensusLeader::CheckState; PROCESS_X is written as the
\* message type X.
LeaderActions ==
    { <<INITIAL, "SEND_ANNOUNCEMENT">>,       <<INITIAL, "COMMITFAILURE">>,
      <<ANNOUNCE_DONE, "COMMIT">>,            <<ANNOUNCE_DONE, "COMMITFAILURE">>,
      <<CHALLENGE_DONE, "RESPONSE">>,         <<CHALLENGE_DONE, "COMMITFAILURE">>,
      <<COLLECTIVESIG_DONE, "FINALCOMMIT">>,  <<COLLECTIVESIG_DONE, "COMMITFAILURE">>,
      <<FINALCHALLENGE_DONE, "FINALRESPONSE">>,
      <<FINALCHALLENGE_DONE, "COMMITFAILURE">>, <<DONE, "COMMITFAILURE">> }

\* The table of ConsensusLeader::CheckStateSubset
SubsetActions == { <<CHALLENGE_DONE, "RESPONSE">>,
                   <<FINALCHALLENGE_DONE, "FINALRESPONSE">> }

\* Mutation of OwnerAccepts: the owner passes on messages after the end.
OwnerAcceptsAlways(state) == TRUE

\* Once the object is DONE its owner changes its own state in the same
\* critical section, and rejects every later consensus message.
OwnerAccepts(state) == state # DONE

\* ConsensusLeader::StartConsensus, which the owner calls once per object
StartConsensus ==
    /\ <<lstate, "SEND_ANNOUNCEMENT">> \in LeaderActions
    /\ [type |-> "ANNOUNCE"] \notin msgs
    /\ lstate' = ANNOUNCE_DONE
    /\ lmsg' = Header
    /\ failureCounter' = 0
    /\ timer' = IF NumOfSubsets > 1 THEN "armed" ELSE "off"
    /\ msgs' = msgs \cup {[type |-> "ANNOUNCE"]}
    /\ UNCHANGED <<commitPoints, commitCounter, failureMap, served, subsets,
                   sufficient, lCS1, lCS2, backupVars>>

\* The peers a subset may be made of: m_numForConsensus - 1 of those who
\* committed.
PeerChoices(peers) == {S \in SUBSET peers : Cardinality(S) = Quorum - 1}

\* The first subset takes the peers in committee order.  In guard mode it
\* takes the DS guards first, which are the first of the committee: the same
\* choice.
FirstPeers(peers, S) == \A p \in S, q \in peers \ S : p < q

\* The commit points of one subset: the leader's and those of its peers
SubsetPoints(cp, S) ==
    [n \in Nodes |-> IF n \in S \cup {LeaderID} THEN cp[n] ELSE 0]

\* GenerateConsensusSubsets: the choice of the peers of every subset, the
\* later ones at random.  One subset unless more than the minimum committed.
SubsetChoices(cp) ==
    LET peers == Signers(cp) \ {LeaderID}
        count == IF Cardinality(peers) <= Quorum THEN 1 ELSE NumOfSubsets
    IN  {choice \in [1 .. count -> PeerChoices(peers)] :
            FirstPeers(peers, choice[1])}

\* One entry of m_consensusSubsets after GenerateConsensusSubsets and, when
\* the state allows it, StartConsensusSubsets
NewSubset(cp, S, newState, started) ==
    [state     |-> newState,
     points    |-> SubsetPoints(cp, S),
     challenge |-> IF started THEN [msg |-> lmsg, points |-> SubsetPoints(cp, S)]
                              ELSE NoChallenge,
     responses |-> IF started THEN [NoPoints EXCEPT ![LeaderID] = 1]
                              ELSE NoPoints,
     counter   |-> IF started THEN 1 ELSE 0]

\* Mutation of ChallengeRounds: the state of the leader is not looked at in
\* the first round.
ChallengeRoundsFromInitial ==
    { [from |-> s, to |-> CHALLENGE_DONE, type |-> "CHALLENGE"] :
        s \in {INITIAL, ANNOUNCE_DONE} }
    \cup
    { [from |-> COLLECTIVESIG_DONE, to |-> FINALCHALLENGE_DONE,
       type |-> "FINALCHALLENGE"] }

\* The states in which StartConsensusSubsets proceeds, with the next state
\* and the message it sends
ChallengeRounds ==
    { [from |-> ANNOUNCE_DONE, to |-> CHALLENGE_DONE, type |-> "CHALLENGE"],
      [from |-> COLLECTIVESIG_DONE, to |-> FINALCHALLENGE_DONE,
       type |-> "FINALCHALLENGE"] }

SubsetsOf(cp, choice, newState, started) ==
    [k \in SubsetIDs |-> IF k \in DOMAIN choice
                           THEN NewSubset(cp, choice[k], newState, started)
                           ELSE NoSubset]

ChallengeMessage(type, choice, subs) ==
    [type       |-> type,
     to         |-> {LeaderID} \cup UNION {choice[k] : k \in DOMAIN choice},
     challenges |-> [k \in SubsetIDs |-> subs[k].challenge]]

\* GenerateConsensusSubsets and then StartConsensusSubsets, which gives up in
\* a wrong state; the commit maps are cleared either way.
GenerateAndStartSubsets(cp) ==
    \E choice \in SubsetChoices(cp) :
        /\ commitPoints' = NoPoints
        /\ \/ \E r \in ChallengeRounds :
                /\ r.from = lstate
                /\ lstate' = r.to
                /\ subsets' = SubsetsOf(cp, choice, r.to, TRUE)
                /\ msgs' = msgs \cup {ChallengeMessage(r.type, choice, subsets')}
           \/ /\ \A r \in ChallengeRounds : r.from # lstate
              /\ lstate' = lstate
              /\ subsets' = SubsetsOf(cp, choice, lstate, FALSE)
              /\ msgs' = msgs

\* Mutation of NotCommitted: repeated commits are not told apart.
NotCommittedAny(b) == TRUE

\* m_commitMap is still false for the backup
NotCommitted(b) == commitPoints[b] = 0

\* ConsensusLeader::ProcessMessageCommitCore, for COMMIT and FINALCOMMIT
ProcessMessageCommitCore(m) ==
    /\ m.type \in {"COMMIT", "FINALCOMMIT"}
    /\ OwnerAccepts(lstate)
    /\ <<lstate, m.type>> \in LeaderActions
    /\ NotCommitted(m.from)
    /\ commitCounter' = commitCounter + 1
    /\ LET cp == [commitPoints EXCEPT ![m.from] = m.point]
           start == NumOfSubsets = 1 /\ commitCounter' = Quorum
       IN  \/ /\ start
              /\ GenerateAndStartSubsets(cp)
           \/ /\ ~start
              /\ commitPoints' = cp
              /\ UNCHANGED <<lstate, subsets, msgs>>
    /\ sufficient' = (sufficient \/ (NumOfSubsets > 1
                                     /\ commitCounter' = SufficientCommits))
    /\ UNCHANGED <<lmsg, failureMap, failureCounter, served, timer, lCS1, lCS2,
                   backupVars>>

\* ConsensusLeader::ProcessMessageCommitFailure.  The node commit failure
\* handler sends the backup what it misses.
ProcessMessageCommitFailure(m) ==
    /\ m.type = "COMMITFAILURE"
    /\ OwnerAccepts(lstate)
    /\ <<lstate, m.type>> \in LeaderActions
    /\ m.from \notin failureMap
    /\ failureCounter' = failureCounter + 1
    /\ failureMap' = failureMap \cup {m.from}
    /\ served' = served \cup {m.from}
    /\ IF failureCounter' = NumForFailure
         THEN /\ lstate' = INITIAL
              /\ msgs' = msgs \cup {[type |-> "CONSENSUSFAILURE"]}
         ELSE UNCHANGED <<lstate, msgs>>
    /\ UNCHANGED <<lmsg, commitPoints, commitCounter, subsets, sufficient,
                   timer, lCS1, lCS2, backupVars>>

\* MultiSig::VerifyResponse(response, challenge, key, commit point)
VerifyResponse(r, sub, b) ==
    r.challenge = sub.challenge /\ r.secret = sub.points[b]

\* The checks of one subset in the loop of ProcessMessageResponseCore
AcceptsResponse(k, m) ==
    /\ <<subsets[k].state, m.type>> \in SubsetActions
    /\ m.from \in Signers(subsets[k].points)
    /\ subsets[k].responses[m.from] = 0
    /\ VerifyResponse(m.responses[k], subsets[k], m.from)

RecordResponse(sub, b, r) ==
    LET data == [sub.responses EXCEPT ![b] = r.secret]
    IN  [[sub EXCEPT !.responses = data] EXCEPT !.counter = @ + 1]

\* AggregateSign: the challenge with the aggregated responses
AggregateSign(sub) == [msg       |-> sub.challenge.msg,
                       points    |-> sub.challenge.points,
                       responses |-> sub.responses]

\* MultiSig::MultiSigVerify with the aggregated key of the bitmap: the
\* responses must be those of the aggregated commit points, for this message
MultiSigVerify(msg, sig, bitmap) ==
    /\ sig.msg = msg
    /\ sig.responses = sig.points
    /\ Signers(sig.points) = bitmap

\* The completion of subset k in ProcessMessageResponseCore: the collective
\* signature, the reset for the second round, SubsetEnded and the multicast
FinishSubset(k, m, sig, recorded) ==
    LET nextstate == IF m.type = "RESPONSE" THEN COLLECTIVESIG_DONE ELSE DONE
    IN
    /\ lstate' = nextstate
    /\ subsets' = [j \in SubsetIDs |->
                     [recorded[j] EXCEPT !.state = IF j = k THEN nextstate
                                                            ELSE INITIAL]]
    /\ msgs' = msgs \cup
                 {[type |-> IF m.type = "RESPONSE" THEN "COLLECTIVESIG"
                                                   ELSE "FINALCOLLECTIVESIG",
                   sig |-> sig, bitmap |-> Signers(recorded[k].responses)]}
    /\ IF m.type = "RESPONSE"
         THEN /\ lmsg' = AppendSig(lmsg, sig)
              /\ lCS1' = sig
              /\ commitPoints' = [NoPoints EXCEPT ![LeaderID] = 1]
              /\ commitCounter' = 1
              /\ failureCounter' = 0
              /\ failureMap' = {}
              /\ timer' = IF NumOfSubsets > 1 THEN "armed" ELSE timer
              /\ lCS2' = lCS2
         ELSE /\ lCS2' = sig
              /\ UNCHANGED <<lmsg, lCS1, commitPoints, commitCounter,
                             failureCounter, failureMap, timer>>

\* The subsets that accept a response, those of them it completes, and
\* m_consensusSubsets with the response recorded in the subsets K
Accepting(m) == {k \in SubsetIDs : AcceptsResponse(k, m)}

Completed(m) == {k \in Accepting(m) : subsets[k].counter + 1 = Quorum}

RecordIn(K, m) ==
    [k \in SubsetIDs |-> IF k \in K
                           THEN RecordResponse(subsets[k], m.from, m.responses[k])
                           ELSE subsets[k]]

\* ConsensusLeader::ProcessMessageResponseCore, for RESPONSE and
\* FINALRESPONSE.  The subsets are visited in order; the first that becomes
\* complete ends the loop, with its collective signature or with an error.
ProcessMessageResponseCore(m) ==
    /\ m.type \in {"RESPONSE", "FINALRESPONSE"}
    /\ OwnerAccepts(lstate)
    /\ <<lstate, m.type>> \in LeaderActions
    /\ Accepting(m) # {}
    /\ \/ /\ Completed(m) = {}
          /\ subsets' = RecordIn(Accepting(m), m)
          /\ UNCHANGED <<lstate, lmsg, commitPoints, commitCounter,
                         failureMap, failureCounter, timer, lCS1, lCS2, msgs>>
       \/ \E k \in Completed(m) :
            /\ \A j \in Completed(m) : k <= j
            /\ LET recorded == RecordIn({j \in Accepting(m) : j <= k}, m)
                   sig == AggregateSign(recorded[k])
               IN IF MultiSigVerify(lmsg, sig, Signers(recorded[k].responses))
                    THEN FinishSubset(k, m, sig, recorded)
                    ELSE /\ subsets' = [recorded EXCEPT ![k] = [@ EXCEPT !.state = ERROR]]
                         /\ UNCHANGED <<lstate, lmsg, commitPoints,
                              commitCounter, failureMap, failureCounter,
                              timer, lCS1, lCS2, msgs>>
    /\ UNCHANGED <<served, sufficient, backupVars>>

\* The commit window thread of StartConsensus and ProcessMessageResponseCore:
\* it starts to wait,
TimerWait ==
    /\ timer = "armed"
    /\ timer' = "waiting"
    /\ sufficient' = FALSE
    /\ UNCHANGED <<lstate, lmsg, commitPoints, commitCounter, failureMap,
                   failureCounter, served, subsets, lCS1, lCS2, backupVars, msgs>>

\* is woken by the flag or by the end of the window and compares the counter,
TimerWake ==
    /\ timer = "waiting"
    /\ timer' = IF commitCounter < Quorum THEN "short" ELSE "enough"
    /\ UNCHANGED <<lstate, lmsg, commitPoints, commitCounter, failureMap,
                   failureCounter, served, subsets, sufficient, lCS1, lCS2,
                   backupVars, msgs>>

\* and acts on what it read, without looking at m_state or the counter again.
TimerInsufficient ==
    /\ timer = "short"
    /\ timer' = "off"
    /\ lstate' = ERROR
    /\ UNCHANGED <<lmsg, commitPoints, commitCounter, failureMap,
                   failureCounter, served, subsets, sufficient, lCS1, lCS2,
                   backupVars, msgs>>

TimerStartSubsets ==
    /\ timer = "enough"
    /\ timer' = "off"
    /\ GenerateAndStartSubsets(commitPoints)
    /\ UNCHANGED <<lmsg, commitCounter, failureMap, failureCounter, served,
                   sufficient, lCS1, lCS2, backupVars>>

------------------------------------------------------------------------------
(* The backups *)

\* Mutation of BackupActions: the first collective signature may be processed
\* once more after the final commit.
BackupActionsRepeat ==
         { <<INITIAL, "ANNOUNCE">> }
    \cup {COMMIT_DONE, RESPONSE_DONE}
           \X {"CHALLENGE", "COLLECTIVESIG", "FINALCOLLECTIVESIG"}
    \cup {FINALCOMMIT_DONE, FINALRESPONSE_DONE}
           \X {"COLLECTIVESIG", "FINALCHALLENGE", "FINALCOLLECTIVESIG"}

\* Mutation of BackupActions: only a backup that was challenged takes the first
\* collective signature.
BackupActionsChallengedOnly ==
         { <<INITIAL, "ANNOUNCE">>, <<COMMIT_DONE, "CHALLENGE">> }
    \cup {RESPONSE_DONE} \X {"CHALLENGE", "COLLECTIVESIG", "FINALCOLLECTIVESIG"}
    \cup {FINALCOMMIT_DONE, FINALRESPONSE_DONE}
           \X {"FINALCHALLENGE", "FINALCOLLECTIVESIG"}

\* The table of ConsensusBackup::CheckState
BackupActions ==
         { <<INITIAL, "ANNOUNCE">> }
    \cup {COMMIT_DONE, RESPONSE_DONE}
           \X {"CHALLENGE", "COLLECTIVESIG", "FINALCOLLECTIVESIG"}
    \cup {FINALCOMMIT_DONE, FINALRESPONSE_DONE}
           \X {"FINALCHALLENGE", "FINALCOLLECTIVESIG"}

\* ConsensusCommon::CanProcessMessage: the owner holds the message back
CanProcessMessage(state, type) ==
    /\ type = "COLLECTIVESIG" => state # INITIAL
    /\ type = "FINALCOLLECTIVESIG" => state \notin {INITIAL, COMMIT_DONE, RESPONSE_DONE}

\* What precedes every handler of a backup: the owner has not finished and
\* does not hold m_mutexConsensus waiting for missing data, the message is in
\* order, and CheckState accepts it.
BackupAccepts(b, type) ==
    /\ OwnerAccepts(bstate[b])
    /\ ~fetching[b]
    /\ CanProcessMessage(bstate[b], type)
    /\ <<bstate[b], type>> \in BackupActions

\* Mutation of NewSecret: only the first commit draws a secret.
NewSecretOnce(b) == IF secret[b] = 0 THEN 1 ELSE secret[b]

\* GenerateCommitMessage draws a new commit secret for every commit.
NewSecret(b) == secret[b] + 1

\* ConsensusBackup::ProcessMessageAnnounce.  The validator sets
\* m_messageToCosign from the announcement before it checks the contents.
ProcessMessageAnnounce(b) ==
    /\ [type |-> "ANNOUNCE"] \in msgs
    /\ BackupAccepts(b, "ANNOUNCE")
    /\ bmsg' = [bmsg EXCEPT ![b] = Header]
    /\ \/ /\ "valid" \in Verdicts
          /\ secret[b] < MaxCommits
          /\ secret' = [secret EXCEPT ![b] = NewSecret(b)]
          /\ bstate' = [bstate EXCEPT ![b] = COMMIT_DONE]
          /\ msgs' = msgs \cup {[type |-> "COMMIT", from |-> b,
                                 point |-> NewSecret(b)]}
          /\ UNCHANGED fetching
       \/ \E v \in Verdicts \cap {"missing", "error"} :
          /\ bstate' = [bstate EXCEPT ![b] = ERROR]
          /\ fetching' = [fetching EXCEPT ![b] = (v = "missing")]
          /\ msgs' = msgs \cup {[type |-> "COMMITFAILURE", from |-> b]}
          /\ UNCHANGED secret
       \/ /\ "silent" \in Verdicts
          /\ UNCHANGED <<bstate, secret, fetching, msgs>>
    /\ UNCHANGED <<bCS1, bCS2, leaderVars>>

\* The owner's wait for missing data ends: the data arrived and the object is
\* put back to INITIAL (RecoveryAndProcessFromANewState) to process the
\* announcement again, or the wait timed out.
FetchDone(b) ==
    /\ fetching[b]
    /\ b \in served
    /\ fetching' = [fetching EXCEPT ![b] = FALSE]
    /\ bstate' = [bstate EXCEPT ![b] = INITIAL]
    /\ UNCHANGED <<bmsg, secret, bCS1, bCS2, msgs, leaderVars>>

FetchTimeout(b) ==
    /\ fetching[b]
    /\ fetching' = [fetching EXCEPT ![b] = FALSE]
    /\ UNCHANGED <<bstate, bmsg, secret, bCS1, bCS2, msgs, leaderVars>>

\* ConsensusBackup::ProcessMessageConsensusFailure, which checks no state
ProcessMessageConsensusFailure(b) ==
    /\ [type |-> "CONSENSUSFAILURE"] \in msgs
    /\ OwnerAccepts(bstate[b])
    /\ ~fetching[b]
    /\ bstate' = [bstate EXCEPT ![b] = INITIAL]
    /\ UNCHANGED <<bmsg, secret, fetching, bCS1, bCS2, msgs, leaderVars>>

\* GenerateResponseMessage: a response for every subset of the challenge, also
\* for those the backup is not part of
ResponseMessage(b, m, s) ==
    [type      |-> IF m.type = "CHALLENGE" THEN "RESPONSE" ELSE "FINALRESPONSE",
     from      |-> b,
     responses |-> [k \in SubsetIDs |->
                      [secret |-> s, challenge |-> m.challenges[k]]]]

\* The secret a backup answers with; a faulty one may answer with another
AnswerSecrets(b) ==
    IF b \in Faulty THEN {secret[b], BadSecret} ELSE {secret[b]}

\* The comparison with GetChallenge for every subset of the challenge
ChallengeVerifies(b, m) ==
    \A k \in SubsetIDs :
        m.challenges[k] # NoChallenge => m.challenges[k].msg = bmsg[b]

\* ConsensusBackup::ProcessMessageChallengeCore, for CHALLENGE and
\* FINALCHALLENGE
ProcessMessageChallengeCore(b, m) ==
    /\ m.type \in {"CHALLENGE", "FINALCHALLENGE"}
    /\ b \in m.to
    /\ BackupAccepts(b, m.type)
    /\ IF ChallengeVerifies(b, m)
         THEN /\ \E s \in AnswerSecrets(b) :
                   msgs' = msgs \cup {ResponseMessage(b, m, s)}
              /\ bstate' = [bstate EXCEPT ![b] =
                              IF m.type = "CHALLENGE" THEN RESPONSE_DONE
                                                      ELSE FINALRESPONSE_DONE]
         ELSE /\ bstate' = [bstate EXCEPT ![b] = ERROR]
              /\ UNCHANGED msgs
    /\ UNCHANGED <<bmsg, secret, fetching, bCS1, bCS2, leaderVars>>

\* ConsensusBackup::ProcessMessageCollectiveSigCore, first round
ProcessMessageCollectiveSig(b, m) ==
    /\ m.type = "COLLECTIVESIG"
    /\ BackupAccepts(b, m.type)
    /\ IF MultiSigVerify(bmsg[b], m.sig, m.bitmap)
         THEN /\ secret[b] < MaxCommits
              /\ bmsg' = [bmsg EXCEPT ![b] = AppendSig(@, m.sig)]
              /\ secret' = [secret EXCEPT ![b] = NewSecret(b)]
              /\ bstate' = [bstate EXCEPT ![b] = FINALCOMMIT_DONE]
              /\ bCS1' = [bCS1 EXCEPT ![b] = m.sig]
              /\ msgs' = msgs \cup {[type |-> "FINALCOMMIT", from |-> b,
                                     point |-> NewSecret(b)]}
         ELSE /\ bstate' = [bstate EXCEPT ![b] = ERROR]
              /\ UNCHANGED <<bmsg, secret, bCS1, msgs>>
    /\ UNCHANGED <<fetching, bCS2, leaderVars>>

\* ConsensusBackup::ProcessMessageCollectiveSigCore, second round
ProcessMessageFinalCollectiveSig(b, m) ==
    /\ m.type = "FINALCOLLECTIVESIG"
    /\ BackupAccepts(b, m.type)
    /\ IF MultiSigVerify(bmsg[b], m.sig, m.bitmap)
         THEN /\ bstate' = [bstate EXCEPT ![b] = DONE]
              /\ bCS2' = [bCS2 EXCEPT ![b] = m.sig]
         ELSE /\ bstate' = [bstate EXCEPT ![b] = ERROR]
              /\ UNCHANGED bCS2
    /\ UNCHANGED <<bmsg, secret, fetching, bCS1, msgs, leaderVars>>

------------------------------------------------------------------------------
LeaderNext ==
    \/ StartConsensus
    \/ \E m \in msgs : \/ ProcessMessageCommitCore(m)
                       \/ ProcessMessageCommitFailure(m)
                       \/ ProcessMessageResponseCore(m)
    \/ TimerWait
    \/ TimerWake
    \/ TimerInsufficient
    \/ TimerStartSubsets

BackupNext(b) ==
    \/ ProcessMessageAnnounce(b)
    \/ FetchDone(b)
    \/ FetchTimeout(b)
    \/ ProcessMessageConsensusFailure(b)
    \/ \E m \in msgs : \/ ProcessMessageChallengeCore(b, m)
                       \/ ProcessMessageCollectiveSig(b, m)
                       \/ ProcessMessageFinalCollectiveSig(b, m)

Next == LeaderNext \/ \E b \in Backups : BackupNext(b)

Spec == Init /\ [][Next]_vars

------------------------------------------------------------------------------
(* Properties *)

\* Every variable of the leader and of the backups keeps its type, and only
\* messages of the protocol are sent.
TypeOK ==
    /\ lstate \in States
    /\ lmsg \in CosignMessages
    /\ commitPoints \in Points
    /\ commitCounter \in Nat
    /\ failureMap \subseteq Backups
    /\ failureCounter \in Nat
    /\ served \subseteq Backups
    /\ subsets \in [SubsetIDs -> Subsets]
    /\ sufficient \in BOOLEAN
    /\ timer \in {"off", "armed", "waiting", "short", "enough"}
    /\ lCS1 \in Sigs
    /\ lCS2 \in Sigs
    /\ bstate \in [Backups -> States]
    /\ bmsg \in [Backups -> CosignMessages]
    /\ secret \in [Backups -> Secrets]
    /\ fetching \in [Backups -> BOOLEAN]
    /\ bCS1 \in [Backups -> Sigs]
    /\ bCS2 \in [Backups -> Sigs]
    /\ msgs \subseteq Messages

\* A collective signature that is sent out has at least the tolerated fraction
\* of the committee as its signers, the leader among them, and every backup it
\* names answered that very challenge with the secret of its commit point.
CosignedByQuorum ==
    \A m \in msgs : m.type \in {"COLLECTIVESIG", "FINALCOLLECTIVESIG"} =>
        /\ LeaderID \in m.bitmap
        /\ Cardinality(m.bitmap) * 1000 >= N * TOLERANCE
        /\ \A b \in m.bitmap \ {LeaderID} : \E r \in msgs :
             /\ r.type = IF m.type = "COLLECTIVESIG" THEN "RESPONSE"
                                                     ELSE "FINALRESPONSE"
             /\ r.from = b
             /\ \E k \in SubsetIDs :
                  /\ r.responses[k].secret = m.sig.points[b]
                  /\ r.responses[k].challenge = [msg    |-> m.sig.msg,
                                                 points |-> m.sig.points]

\* A backup that is DONE holds the two collective signatures of the leader,
\* the second over the first, and the leader is DONE too.
Agreement ==
    \A b \in Backups : bstate[b] = DONE =>
        /\ lstate = DONE
        /\ bCS1[b] = lCS1
        /\ bCS2[b] = lCS2
        /\ bCS2[b].msg = AppendSig(Header, bCS1[b])

\* The leader never both aborts an instance (CONSENSUSFAILURE) and completes
\* it (FINALCOLLECTIVESIG).
OutcomeExclusive ==
    ~ \E m, n \in msgs : /\ m.type = "CONSENSUSFAILURE"
                         /\ n.type = "FINALCOLLECTIVESIG"

\* A backup ends in ERROR only by its own commit failure: no delay, reordering
\* or repetition of messages makes it reject a challenge or a collective
\* signature of the leader.
LeaderNeverRejected ==
    \A b \in Backups : bstate[b] = ERROR =>
        [type |-> "COMMITFAILURE", from |-> b] \in msgs

\* While commits are collected the counter is the number of commit points, so
\* that the subsets built at the threshold, or when the window closed with
\* enough commits, find as many peers as they index.
CommitsCounted ==
    /\ lstate \in {ANNOUNCE_DONE, COLLECTIVESIG_DONE} =>
         commitCounter = Cardinality(Signers(commitPoints))
    /\ timer = "enough" => Cardinality(Signers(commitPoints)) >= Quorum

\* Two responses of a backup under the same commit secret are over the same
\* message: the secret of round 1 is never used in round 2, nor after a restart.
SecretPerMessage ==
    \A r1, r2 \in msgs :
        (/\ r1.type \in {"RESPONSE", "FINALRESPONSE"}
         /\ r2.type \in {"RESPONSE", "FINALRESPONSE"}
         /\ r1.from = r2.from /\ r1.from \notin Faulty)
        => \A j, k \in SubsetIDs :
             (/\ r1.responses[j].challenge # NoChallenge
              /\ r2.responses[k].challenge # NoChallenge
              /\ r1.responses[j].secret = r2.responses[k].secret)
             => r1.responses[j].challenge.msg = r2.responses[k].challenge.msg

\* The leader's state only advances, or drops to INITIAL or ERROR; an instance
\* that dropped never signs again.
LeaderAdvances ==
    [][ /\ lstate' \in {INITIAL, ERROR} \/ lstate' >= lstate
        /\ (lstate \in {INITIAL, ERROR} /\ [type |-> "ANNOUNCE"] \in msgs)
             => (lstate' \in {INITIAL, ERROR} /\ lCS1' = lCS1 /\ lCS2' = lCS2)
      ]_vars

\* The instance implements the promise of CoSigning: it is given up when the
\* leader announces the failure or its commit window closes short.
CoSign == INSTANCE CoSigning WITH
    Quorum <- Quorum,
    b1 <- Signers(lCS1.points),
    b2 <- Signers(lCS2.points),
    aborted <- lstate = ERROR \/ [type |-> "CONSENSUSFAILURE"] \in msgs,
    k1 <- [b \in Backups |-> Signers(bCS1[b].points)],
    k2 <- [b \in Backups |-> Signers(bCS2[b].points)]

\* Every step of the protocol is a step of CoSigning or changes none of the
\* signatures.
ImplementsCoSigning == CoSign!Spec

\* Every message is delivered and every thread runs: the code blocks no
\* handler for ever, and the peers' messages are sent over connections that
\* are retried.
FairSpec ==
    /\ Spec
    /\ WF_vars(LeaderNext)
    /\ \A b \in Backups : WF_vars(BackupNext(b))

\* When every backup accepts the announcement and answers, everyone ends DONE.
AllDone == <>(lstate = DONE /\ \A b \in Backups : bstate[b] = DONE)

------------------------------------------------------------------------------
(* The inductive invariant behind TypeOK, Agreement, OutcomeExclusive and   *)
(* LeaderNeverRejected                                                      *)

\* What the leader signs in each state, and in which states the commit window
\* thread can be pending
LeaderInv ==
    /\ lstate # INITIAL \/ timer # "off" \/ msgs # {} =>
         [type |-> "ANNOUNCE"] \in msgs
    /\ lstate \in {ANNOUNCE_DONE, CHALLENGE_DONE} => lmsg = Header
    /\ lstate \in {COLLECTIVESIG_DONE, FINALCHALLENGE_DONE, DONE} =>
         lmsg = AppendSig(Header, lCS1)
    /\ timer # "off" =>
         /\ NumOfSubsets > 1
         /\ lstate \in {INITIAL, ANNOUNCE_DONE, COLLECTIVESIG_DONE, ERROR}

\* What the messages of the leader carry, and the states they leave it in
MessageInv ==
    \A m \in msgs :
        /\ m.type = "CHALLENGE" =>
             \A k \in SubsetIDs :
                m.challenges[k] = NoChallenge \/ m.challenges[k].msg = Header
        /\ m.type = "FINALCHALLENGE" =>
             \A k \in SubsetIDs :
                \/ m.challenges[k] = NoChallenge
                \/ m.challenges[k].msg = AppendSig(Header, lCS1)
        /\ m.type = "COLLECTIVESIG" =>
             m.sig = lCS1 /\ MultiSigVerify(Header, m.sig, m.bitmap)
        /\ m.type = "FINALCOLLECTIVESIG" =>
             /\ m.sig = lCS2
             /\ MultiSigVerify(AppendSig(Header, lCS1), m.sig, m.bitmap)
             /\ lstate = DONE
        /\ m.type \in {"FINALCHALLENGE", "COLLECTIVESIG"} =>
             lstate \notin {ANNOUNCE_DONE, CHALLENGE_DONE}
        /\ m.type = "CONSENSUSFAILURE" => lstate \in {INITIAL, ERROR}

\* A backup past its final commit has the leader's first signature, which was
\* then sent; a backup that is DONE has the second too.
BackupInv ==
    \A b \in Backups :
        /\ bstate[b] \in {COMMIT_DONE, RESPONSE_DONE} => bmsg[b] = Header
        /\ bstate[b] \in {FINALCOMMIT_DONE, FINALRESPONSE_DONE, DONE} =>
             /\ bmsg[b] = AppendSig(Header, lCS1)
             /\ bCS1[b] = lCS1
             /\ \E m \in msgs : m.type = "COLLECTIVESIG"
        /\ bstate[b] = DONE =>
             /\ bCS2[b] = lCS2
             /\ bCS2[b].msg = AppendSig(Header, lCS1)
             /\ lstate = DONE

IInv == TypeOK /\ LeaderInv /\ MessageInv /\ BackupInv /\ LeaderNeverRejected

==============================================================================
