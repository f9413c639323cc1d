------------------------------ MODULE CoSigning ------------------------------
(***************************************************************************)
(* What one instance of the collective-signing protocol promises to the    *)
(* directory service and to the shards that run it, without messages,      *)
(* commits or subsets.  A quorum signs the block (bitmap b1), a quorum     *)
(* signs the result again (bitmap b2), and each backup may learn the two   *)
(* bitmaps, in that order and never another one.  The instance may be      *)
(* aborted until the second bitmap exists, and is never signed afterwards. *)
(***************************************************************************)
EXTENDS Integers, FiniteSets

CONSTANTS Nodes, LeaderID, Quorum

VARIABLES b1, b2,     \* the bitmaps of the two rounds, {} when there is none
          aborted,    \* the instance was given up
          k1, k2      \* what each backup has learned of the two bitmaps

vars == <<b1, b2, aborted, k1, k2>>

Backups == Nodes \ {LeaderID}

Bitmaps == {S \in SUBSET Nodes : LeaderID \in S /\ Cardinality(S) = Quorum}

Init ==
    /\ b1 = {} /\ b2 = {}
    /\ aborted = FALSE
    /\ k1 = [b \in Backups |-> {}]
    /\ k2 = [b \in Backups |-> {}]

SignFirst ==
    /\ ~aborted /\ b1 = {}
    /\ b1' \in Bitmaps
    /\ UNCHANGED <<b2, aborted, k1, k2>>

SignSecond ==
    /\ ~aborted /\ b1 # {} /\ b2 = {}
    /\ b2' \in Bitmaps
    /\ UNCHANGED <<b1, aborted, k1, k2>>

Abort ==
    /\ b2 = {}
    /\ aborted' = TRUE
    /\ UNCHANGED <<b1, b2, k1, k2>>

LearnFirst(b) ==
    /\ b1 # {}
    /\ k1' = [k1 EXCEPT ![b] = b1]
    /\ UNCHANGED <<b1, b2, aborted, k2>>

LearnSecond(b) ==
    /\ b2 # {} /\ k1[b] # {}
    /\ k2' = [k2 EXCEPT ![b] = b2]
    /\ UNCHANGED <<b1, b2, aborted, k1>>

Next == \/ SignFirst \/ SignSecond \/ Abort
        \/ \E b \in Backups : LearnFirst(b) \/ LearnSecond(b)

Spec == Init /\ [][Next]_vars

==============================================================================
