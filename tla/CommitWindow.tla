---------------------------- MODULE CommitWindow -----------------------------
(***************************************************************************)
(* The two threads of a ConsensusLeader with more than one subset while    *)
(* commits are collected, with the mutexes they take: the handler of the   *)
(* commits (serialised by the owner's m_mutexConsensus) and the commit     *)
(* window thread that StartConsensus and the first collective signature    *)
(* detach.  Module Consensus takes the steps of the handler as one; here   *)
(* they are apart.                                                         *)
(***************************************************************************)
EXTENDS Integers

CONSTANTS
    Commits,        \* number of commit messages the backups send
    Quorum,         \* m_numForConsensus
    Sufficient      \* m_sufficientCommitsNumForSubsets

ASSUME CommitsAssumption == Commits \in Nat
ASSUME ThresholdsAssumption == Quorum \in Nat /\ Sufficient \in Nat

VARIABLES
    mutex,      \* m_mutex: the thread that holds it, or "free"
    announce,   \* m_mutexAnnounceSubsetConsensus
    state,      \* m_state: "collecting", "started" (challenge sent) or "error"
    counter,    \* m_commitCounter
    received,   \* commit messages taken from the network
    flag,       \* m_sufficientCommitsReceived
    hpc,        \* where the handler is
    tpc         \* where the commit window thread is

vars == <<mutex, announce, state, counter, received, flag, hpc, tpc>>

Threads == {"handler", "timer"}

Init ==
    /\ mutex = "free" /\ announce = "free"
    /\ state = "collecting"
    /\ counter = 1          \* the leader's own commit
    /\ received = 0
    /\ flag = FALSE
    /\ hpc = "idle"
    /\ tpc = "detached"

\* ProcessMessageCommitCore enters: lock_guard g(m_mutex).
HandlerLock ==
    /\ hpc = "idle"
    /\ received < Commits
    /\ mutex = "free"
    /\ mutex' = "handler"
    /\ received' = received + 1
    /\ hpc' = "locked"
    /\ UNCHANGED <<announce, state, counter, flag, tpc>>

\* CheckState fails: the commit is dropped.
HandlerReject ==
    /\ hpc = "locked"
    /\ state # "collecting"
    /\ mutex' = "free"
    /\ hpc' = "idle"
    /\ UNCHANGED <<announce, state, counter, received, flag, tpc>>

\* Mutation of HandlerCount: the counter is incremented once more.
HandlerCountTwice ==
    /\ hpc = "locked"
    /\ state = "collecting"
    /\ counter' = counter + 2
    /\ hpc' = "idle" /\ mutex' = "free"
    /\ UNCHANGED <<announce, state, received, flag, tpc>>

\* The commit is recorded; at the sufficient number the window must be told.
HandlerCount ==
    /\ hpc = "locked"
    /\ state = "collecting"
    /\ counter' = counter + 1
    /\ IF counter' = Sufficient
         THEN hpc' = "notify" /\ UNCHANGED mutex
         ELSE hpc' = "idle" /\ mutex' = "free"
    /\ UNCHANGED <<announce, state, received, flag, tpc>>

\* lock_guard g(m_mutexAnnounceSubsetConsensus), taken with m_mutex held
HandlerNotify ==
    /\ hpc = "notify"
    /\ announce = "free"
    /\ flag' = TRUE
    /\ mutex' = "free"
    /\ hpc' = "idle"
    /\ UNCHANGED <<announce, state, counter, received, tpc>>

\* The thread runs: it resets the flag, which may already have been raised,
\* and waits (wait_for releases the mutex).
TimerBegin ==
    /\ tpc = "detached"
    /\ announce = "free"
    /\ flag' = FALSE
    /\ tpc' = "waiting"
    /\ UNCHANGED <<mutex, announce, state, counter, received, hpc>>

\* wait_for returns, with m_mutexAnnounceSubsetConsensus held again: because
\* the flag is up,
TimerNotified ==
    /\ tpc = "waiting"
    /\ flag
    /\ announce = "free"
    /\ announce' = "timer"
    /\ tpc' = "woken"
    /\ UNCHANGED <<mutex, state, counter, received, flag, hpc>>

\* Mutation of TimerTimeout: the wait has no timeout.
TimerTimeoutNever ==
    /\ FALSE
    /\ UNCHANGED vars

\* or because COMMIT_WINDOW_IN_SECONDS have passed.
TimerTimeout ==
    /\ tpc = "waiting"
    /\ announce = "free"
    /\ announce' = "timer"
    /\ tpc' = "woken"
    /\ UNCHANGED <<mutex, state, counter, received, flag, hpc>>

\* m_commitCounter is read without m_mutex.
TimerRead ==
    /\ tpc = "woken"
    /\ tpc' = IF counter < Quorum THEN "short" ELSE "enough"
    /\ UNCHANGED <<mutex, announce, state, counter, received, flag, hpc>>

\* m_state = ERROR, also without m_mutex
TimerShort ==
    /\ tpc = "short"
    /\ state' = "error"
    /\ announce' = "free"
    /\ tpc' = "ended"
    /\ UNCHANGED <<mutex, counter, received, flag, hpc>>

\* Mutation of TimerStart: m_mutex is not taken.
TimerStartUnlocked ==
    /\ tpc = "enough"
    /\ state' = "started"
    /\ announce' = "free"
    /\ tpc' = "ended"
    /\ UNCHANGED <<mutex, counter, received, flag, hpc>>

\* lock_guard g(m_mutex), taken with m_mutexAnnounceSubsetConsensus held:
\* GenerateConsensusSubsets and StartConsensusSubsets
TimerStart ==
    /\ tpc = "enough"
    /\ mutex = "free"
    /\ state' = "started"
    /\ announce' = "free"
    /\ tpc' = "ended"
    /\ UNCHANGED <<mutex, counter, received, flag, hpc>>

Handler == HandlerLock \/ HandlerReject \/ HandlerCount \/ HandlerNotify

Timer == \/ TimerBegin \/ TimerNotified \/ TimerTimeout
         \/ TimerRead \/ TimerShort \/ TimerStart

Next == Handler \/ Timer

Spec == Init /\ [][Next]_vars

\* Both threads run whenever they can, and the window ends: wait_for has a
\* timeout.
FairSpec == Spec /\ WF_vars(Handler) /\ WF_vars(Timer)
------------------------------------------------------------------------------
(* Properties *)

\* The mutexes are free or held by one of the two threads, and m_commitCounter
\* never exceeds the commits received and the leader's own.
TypeOK ==
    /\ mutex \in {"free"} \cup Threads
    /\ announce \in {"free"} \cup Threads
    /\ state \in {"collecting", "started", "error"}
    /\ counter \in 1 .. (Commits + 1)
    /\ received \in 0 .. Commits
    /\ flag \in BOOLEAN
    /\ hpc \in {"idle", "locked", "notify"}
    /\ tpc \in {"detached", "waiting", "woken", "short", "enough", "ended"}

\* No commit is counted while the subsets are being built or afterwards: when
\* the challenge is out, the handler is not between its check of the state
\* and its update, so the commit map the subsets were built from is complete.
StartExcludesHandler ==
    [][state' = "started" /\ state # "started" => hpc = "idle"]_vars

\* Handler and window wait for each other: the handler, which holds m_mutex,
\* for m_mutexAnnounceSubsetConsensus, and the window the other way round.
Deadlocked == hpc = "notify" /\ mutex = "handler"
              /\ tpc = "enough" /\ announce = "timer"

\* With a quorum of commits the window thread ends and the challenge goes out
\* even if its notification came before it waited (TimerBegin drops the flag),
\* unless the window closed before the quorum was there, or the two threads
\* took their mutexes in opposite orders.
QuorumStartsSubsets ==
    (counter >= Quorum) ~> (state \in {"started", "error"} \/ Deadlocked)

\* "notify the waiting thread to start with subset creations and subset
\* consensus" (ProcessMessageCommitCore): the sufficient number of commits
\* leads to the subset consensus.
SufficientStartsSubsets ==
    (counter = Sufficient) ~> (state \in {"started", "error"})

==============================================================================
