-------------------------- MODULE CommitWindowProofs --------------------------
(***************************************************************************)
(* Proofs about CommitWindow, for every number of commits and both         *)
(* thresholds.                                                             *)
(***************************************************************************)
EXTENDS CommitWindow, TLAPS

USE CommitsAssumption, ThresholdsAssumption

\* Who holds which mutex.  The handler holds m_mutex from its entry to its
\* return; the window thread holds m_mutexAnnounceSubsetConsensus from the end
\* of its wait to its own end, and between two of its steps never m_mutex.
MutexInv ==
    /\ mutex = IF hpc = "idle" THEN "free" ELSE "handler"
    /\ announce = IF tpc \in {"woken", "short", "enough"} THEN "timer" ELSE "free"

\* Every commit counted was received; the one the handler is about to count
\* has not been counted.
CountInv ==
    /\ counter <= received + 1
    /\ hpc = "locked" => counter <= received

\* The state follows the window thread.  A handler about to notify has just
\* counted the sufficient commit, and cannot be overtaken by the start of the
\* subsets because it holds m_mutex.
WindowInv ==
    /\ state # "collecting" <=> tpc = "ended"
    /\ hpc = "notify" => counter = Sufficient /\ state # "started"
    /\ state = "started" \/ tpc = "enough" => counter >= Quorum

IInv == TypeOK /\ MutexInv /\ CountInv /\ WindowInv

\* The invariant holds when the window thread is detached.
LEMMA InitIInv == Init => IInv
  <1> SUFFICES ASSUME Init PROVE IInv
    OBVIOUS
  <1>1. TypeOK
    <2>1. flag \in BOOLEAN
      BY Zenon DEF Init
    <2>2. counter \in 1 .. (Commits + 1) /\ received \in 0 .. Commits
      BY DEF Init
    <2> QED
      BY <2>1, <2>2, Zenon DEF Init, TypeOK
  <1>2. MutexInv /\ CountInv /\ WindowInv
    BY DEF Init, MutexInv, CountInv, WindowInv
  <1> QED
    BY <1>1, <1>2 DEF IInv

\* Every step of the handler keeps the invariant.
LEMMA HandlerStep == IInv /\ Handler => IInv'
  <1> SUFFICES ASSUME IInv, Handler PROVE IInv'
    OBVIOUS
  <1> USE DEF IInv, TypeOK, MutexInv, CountInv, WindowInv, Threads
  <1>1. CASE HandlerLock
    BY <1>1 DEF HandlerLock
  <1>2. CASE HandlerReject
    BY <1>2 DEF HandlerReject
  <1>3. CASE HandlerCount
    BY <1>3 DEF HandlerCount
  <1>4. CASE HandlerNotify
    BY <1>4 DEF HandlerNotify
  <1> QED
    BY <1>1, <1>2, <1>3, <1>4 DEF Handler

\* Every step of the window thread keeps the invariant: it starts the subsets
\* only with m_mutex free, that is with the handler idle.
LEMMA TimerStep == IInv /\ Timer => IInv'
  <1> SUFFICES ASSUME IInv, Timer PROVE IInv'
    OBVIOUS
  <1> USE DEF IInv, TypeOK, MutexInv, CountInv, WindowInv, Threads
  <1>1. CASE TimerBegin
    BY <1>1 DEF TimerBegin
  <1>2. CASE TimerNotified \/ TimerTimeout
    BY <1>2 DEF TimerNotified, TimerTimeout
  <1>3. CASE TimerRead
    BY <1>3 DEF TimerRead
  <1>4. CASE TimerShort
    BY <1>4 DEF TimerShort
  <1>5. CASE TimerStart
    BY <1>5 DEF TimerStart
  <1> QED
    BY <1>1, <1>2, <1>3, <1>4, <1>5 DEF Timer

\* The inductive invariant holds in every reachable state.
THEOREM Invariance == Spec => []IInv
  <1>1. IInv /\ UNCHANGED vars => IInv'
    BY DEF vars, IInv, TypeOK, MutexInv, CountInv, WindowInv
  <1>2. IInv /\ [Next]_vars => IInv'
    BY <1>1, HandlerStep, TimerStep DEF Next
  <1> QED
    BY <1>2, InitIInv, PTL DEF Spec

\* The mutexes, the state and the two program counters keep their types, and
\* m_commitCounter never exceeds the commits received and the leader's own.
THEOREM TypeCorrect == Spec => []TypeOK
  BY Invariance, PTL DEF IInv

\* The challenge goes out only while no commit is being counted: m_mutex, which
\* the window thread takes to build the subsets, excludes the handler.
THEOREM StartExcludesHandlerHolds == Spec => StartExcludesHandler
  <1>1. IInv /\ [Next]_vars
          => [state' = "started" /\ state # "started" => hpc = "idle"]_vars
    <2> SUFFICES ASSUME IInv, Next, state' = "started", state # "started"
                 PROVE  hpc = "idle"
      OBVIOUS
    <2>1. TimerStart
      BY DEF Next, Handler, HandlerLock, HandlerReject, HandlerCount,
             HandlerNotify, Timer, TimerBegin, TimerNotified, TimerTimeout,
             TimerRead, TimerShort
    <2> QED
      BY <2>1 DEF TimerStart, IInv, MutexInv
  <1> QED
    BY <1>1, Invariance, PTL DEF Spec, StartExcludesHandler

\* One of the threads is inside its critical section and neither can leave it:
\* the handler, past its checks, finds m_mutexAnnounceSubsetConsensus taken, and
\* the window thread, past its read of the counter, finds m_mutex taken.
Blocked ==
    /\ hpc # "idle" \/ tpc \in {"woken", "short", "enough"}
    /\ hpc # "locked" /\ (hpc = "notify" => announce # "free")
    /\ tpc \notin {"woken", "short"} /\ (tpc = "enough" => mutex # "free")

\* The opposite order of the two mutexes is the only way the threads can block
\* each other: the handler that counted exactly the sufficient commit is about
\* to notify, and the window thread has read a quorum.
THEOREM OnlyDeadlock ==
    Spec => [](Blocked => Deadlocked /\ counter = Sufficient /\ counter >= Quorum)
  <1>1. IInv => (Blocked => Deadlocked /\ counter = Sufficient /\ counter >= Quorum)
    BY DEF IInv, TypeOK, MutexInv, WindowInv, Blocked, Deadlocked
  <1> QED
    BY <1>1, Invariance, PTL
==============================================================================
