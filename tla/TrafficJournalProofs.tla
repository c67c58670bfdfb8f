------------------------ MODULE TrafficJournalProofs ------------------------
(***************************************************************************)
(* Proofs about TrafficJournal, for any set of directions, any counter     *)
(* width and any number of starts, queries and failed unlocks.             *)
(***************************************************************************)
EXTENDS TrafficJournal, TLAPS

\* The steps of a flush at which the snapshot is complete and `previous` has
\* not moved yet.
Snapped == {"append", "write", "rollback", "committed", "failed"}

\* The steps at which `tailBytes` is the sample being appended.
Appending == {"write", "rollback", "committed"}

\* While a process runs, what it counted is in the journal or unflushed;
\* only after a failed unlock may it be in both.
Balanced ==
    Running => \A d \in Directions :
      /\ moved[d] <= owed[d] + stored[d] + Unflushed(d)
      /\ unlockFailures = 0 =>
           moved[d] = owed[d] + stored[d] + Unflushed(d)

\* A process that no unlock failed before it owes nothing it cannot account
\* for.
OwedSound ==
    unlockFailures = 0 => \A d \in Directions : owed[d] >= 0

\* A loaded counter lies between the last persisted one and the live one.
SnapBetween ==
    /\ pc \in Snapped => loaded = Directions
    /\ pc \in Snapped \cup {"snapshot"} =>
         \A d \in loaded : Delta(d) <= Unflushed(d)

\* What the tail can hold at each step.
TailSettled ==
    /\ pc \in Appending => ~poisoned
    /\ pc = "committed" => tail = "whole"
    /\ Running /\ ~poisoned /\ pc \notin {"rollback", "committed"}
         => tail = "clean"

\* A record in the tail, acknowledged or not, is not more than what is
\* unflushed; in the middle of an append it is the sample.
TailCovered ==
    /\ pc \in Appending => \A d \in Directions : tailBytes[d] = Delta(d)
    /\ Running /\ poisoned =>
         \A d \in Directions : tailBytes[d] <= Unflushed(d)

\* The inductive invariant: CountsOnce is kept while no process runs
\* because the process before it was balanced.
IndInv ==
    /\ TypeOK
    /\ Balanced
    /\ OwedSound
    /\ SnapBetween
    /\ TailSettled
    /\ TailCovered
    /\ CountsOnce

-----------------------------------------------------------------------------
(* Arithmetic of the counters *)

Words == 0..Modulus - 1

\* wrapping_sub and fetch_add stay within the width of the counter.
LEMMA WrapType ==
    \A a, b \in Words : WrappingSub(a, b) \in Words /\ WrappingInc(a) \in Words
  BY JournalAssumption DEF Words, WrappingSub, WrappingInc

\* Counting one more byte widens the difference by one, also across the wrap,
\* as long as it does not reach the modulus.
LEMMA WrapStep ==
    \A a, b \in Words :
      /\ WrappingSub(a, a) = 0
      /\ WrappingSub(a, b) < Modulus - 1
           => WrappingSub(WrappingInc(a), b) = WrappingSub(a, b) + 1
  BY JournalAssumption DEF Words, WrappingSub, WrappingInc

\* Moving the base of a difference forward to a point in between shortens it
\* by exactly that much.
LEMMA WrapAdvance ==
    \A a, b, c \in Words :
      WrappingSub(c, b) <= WrappingSub(a, b)
        => WrappingSub(a, c) = WrappingSub(a, b) - WrappingSub(c, b)
  BY JournalAssumption DEF Words, WrappingSub

\* The differences of the model, typed.
LEMMA DifferenceTypes ==
    ASSUME TypeOK
    PROVE  \A d \in Directions :
             /\ Unflushed(d) \in Words
             /\ Delta(d) \in Words
             /\ Unflushed(d) \in Nat
             /\ Delta(d) \in Nat
             /\ Reported(d) \in Nat
             /\ Reported(d) = IF tail = "whole" THEN stored[d] + tailBytes[d]
                              ELSE stored[d]
  BY WrapType, JournalAssumption
     DEF TypeOK, Unflushed, Delta, Reported, Words, Amounts

-----------------------------------------------------------------------------
\* Nothing has been counted or written when the model starts.
LEMMA InitInv == Init => IndInv
  <1> SUFFICES ASSUME Init PROVE IndInv
    OBVIOUS
  <1>1. TypeOK
    <2>1. /\ Zeros \in Amounts /\ Zeros \in [Directions -> 0..Modulus - 1]
          /\ Zeros \in [Directions -> Int]
      BY JournalAssumption DEF Zeros, Amounts
    <2> QED
      BY <2>1 DEF Init, TypeOK, PcStates, Tails
  <1>2. Balanced /\ SnapBetween /\ TailSettled /\ TailCovered
    BY DEF Init, Balanced, SnapBetween, TailSettled, TailCovered, Running,
           Snapped, Appending
  <1>3. CountsOnce /\ OwedSound
    BY DEF Init, CountsOnce, NeverOvercounts, OwedSound, Reported, Zeros
  <1> QED
    BY <1>1, <1>2, <1>3 DEF IndInv

-----------------------------------------------------------------------------
\* The totals a new process or a committed sample starts from.
LEMMA ReportedType ==
    ASSUME TypeOK
    PROVE  /\ [d \in Directions |-> Reported(d)] \in Amounts
           /\ [d \in Directions |-> Delta(d)] \in Amounts
           /\ Zeros \in Amounts
           /\ Zeros \in [Directions -> 0..Modulus - 1]
  BY DifferenceTypes, JournalAssumption DEF Amounts, Zeros

\* Every step keeps the types.
LEMMA StepType == IndInv /\ [Next]_vars => TypeOK'
  <1> SUFFICES ASSUME IndInv, [Next]_vars PROVE TypeOK'
    OBVIOUS
  <1> USE JournalAssumption DEF fileVars, samplerVars
  <1>0. TypeOK
    BY DEF IndInv
  <1>1. CASE Start
    <2>1. stored' \in Amounts
      BY <1>0, <1>1, ReportedType DEF Start, Recovered
    <2>2. owed' \in [Directions -> Int]
      BY <1>0, <1>1, <2>1 DEF Start, TypeOK, Amounts
    <2>3. /\ pc' = "wait" /\ tail' = "clean" /\ loaded' = {}
          /\ counter' = Zeros /\ previous' = Zeros /\ snap' = Zeros
          /\ tailBytes' = Zeros /\ stopping' = FALSE /\ poisoned' = FALSE
          /\ UNCHANGED <<moved, lock, queries, unlockFailures>>
      BY <1>1 DEF Start, FreshMemory
    <2>4. starts' \in Nat
      BY <1>0, <1>1 DEF Start, TypeOK
    <2>5. Zeros \in Amounts /\ Zeros \in [Directions -> 0..Modulus - 1]
      BY <1>0, ReportedType
    <2> QED
      BY <1>0, <2>1, <2>2, <2>3, <2>4, <2>5 DEF TypeOK, PcStates, Tails
  <1>2. ASSUME NEW d \in Directions, Record(d) PROVE TypeOK'
    <2>1. WrappingInc(counter[d]) \in Words
      BY <1>0, WrapType DEF TypeOK, Words
    <2> QED
      BY <1>0, <1>2, <2>1 DEF TypeOK, Record, Amounts, Words
  <1>3. ASSUME NEW stop \in BOOLEAN, Wake(stop) PROVE TypeOK'
    BY <1>0, <1>3 DEF TypeOK, Wake, PcStates
  <1>4. ASSUME NEW d \in Directions, Load(d) PROVE TypeOK'
    BY <1>0, <1>4 DEF TypeOK, Load, PcStates
  <1>5. CASE AppendLocks
    BY <1>0, <1>5, ReportedType DEF TypeOK, AppendLocks, PcStates
  <1>6. CASE Committed \/ CommittedUnlockFails
    BY <1>0, <1>6, ReportedType
       DEF TypeOK, Committed, CommittedUnlockFails, Commit, PcStates, Tails,
           AfterFlush
  <1>7. CASE Exit
    BY <1>0, <1>7, ReportedType DEF TypeOK, Exit, FreshMemory, PcStates
  <1>8. CASE Crash
    BY <1>0, <1>8, ReportedType DEF TypeOK, Crash, FreshMemory, PcStates, Tails
  <1>9. CASE AppendRefused
    BY <1>0, <1>9 DEF TypeOK, AppendRefused, PcStates, AfterFlush
  <1>10. CASE LockFails
    BY <1>0, <1>10 DEF TypeOK, LockFails, PcStates, AfterFlush
  <1>11. CASE WriteOk
    BY <1>0, <1>11 DEF TypeOK, WriteOk, PcStates, Tails
  <1>12. CASE WriteFails
    BY <1>0, <1>12 DEF TypeOK, WriteFails, PcStates, Tails
  <1>13. CASE RollbackOk
    BY <1>0, <1>13 DEF TypeOK, RollbackOk, PcStates, Tails
  <1>14. CASE RollbackFails
    BY <1>0, <1>14 DEF TypeOK, RollbackFails, PcStates, Tails
  <1>15. CASE Failed
    BY <1>0, <1>15 DEF TypeOK, Failed, PcStates, AfterFlush
  <1>16. CASE QueryBegin
    BY <1>0, <1>16 DEF TypeOK, QueryBegin, PcStates
  <1>17. CASE QueryEnd
    BY <1>0, <1>17 DEF TypeOK, QueryEnd, PcStates
  <1>18. CASE UNCHANGED vars
    BY <1>0, <1>18 DEF TypeOK, vars
  <1> QED
    BY <1>1, <1>2, <1>3, <1>4, <1>5, <1>6, <1>7, <1>8, <1>9, <1>10,
       <1>11, <1>12, <1>13, <1>14, <1>15, <1>16, <1>17, <1>18
    DEF Next, Flush

-----------------------------------------------------------------------------
\* Every step keeps the invariant.
LEMMA StepInv == IndInv /\ [Next]_vars => IndInv'
  <1> SUFFICES ASSUME IndInv, [Next]_vars PROVE IndInv'
    OBVIOUS
  <1> USE JournalAssumption DEF fileVars, samplerVars
  <1>t. TypeOK /\ TypeOK'
    BY StepType DEF IndInv
  <1>d. \A d \in Directions :
          /\ moved[d] \in Nat /\ owed[d] \in Int /\ stored[d] \in Nat
          /\ tailBytes[d] \in Nat
          /\ counter[d] \in Words /\ previous[d] \in Words /\ snap[d] \in Words
          /\ Unflushed(d) \in Nat /\ Delta(d) \in Nat
          /\ Reported(d) = IF tail = "whole" THEN stored[d] + tailBytes[d]
                           ELSE stored[d]
    BY <1>t, DifferenceTypes DEF TypeOK, Amounts, Words
  <1>e. \A d \in Directions :
          Reported(d)' = IF tail' = "whole" THEN stored'[d] + tailBytes'[d]
                         ELSE stored'[d]
    BY <1>t DEF TypeOK, Amounts, Reported
  <1>1. CASE Start
    <2>1. /\ pc' = "wait" /\ tail' = "clean" /\ ~poisoned' /\ moved' = moved
          /\ unlockFailures' = unlockFailures
          /\ \A d \in Directions :
               /\ counter'[d] = 0 /\ previous'[d] = 0
               /\ stored'[d] = Reported(d)
               /\ owed'[d] = moved[d] - stored'[d]
      BY <1>1 DEF Start, FreshMemory, Zeros, Recovered
    <2>2. \A d \in Directions : Unflushed(d)' = 0
      BY <2>1 DEF Unflushed, WrappingSub
    <2>3. Balanced' /\ OwedSound' /\ CountsOnce'
      BY <1>t, <1>d, <1>e, <2>1, <2>2
      DEF IndInv, Balanced, OwedSound, CountsOnce, NeverOvercounts
    <2>4. SnapBetween' /\ TailSettled' /\ TailCovered'
      BY <2>1 DEF SnapBetween, TailSettled, TailCovered, Snapped, Appending
    <2> QED
      BY <1>t, <2>3, <2>4 DEF IndInv
  <1>2. CASE Exit
    BY <1>t, <1>d, <1>e, <1>2
    DEF IndInv, Balanced, SnapBetween, TailSettled, TailCovered, OwedSound,
        CountsOnce, NeverOvercounts, Exit, Running, Snapped, Appending,
        Unflushed, Delta, AfterFlush, Commit
  <1>3. CASE Crash
    BY <1>t, <1>d, <1>e, <1>3
    DEF IndInv, Balanced, SnapBetween, TailSettled, TailCovered, OwedSound,
        CountsOnce, NeverOvercounts, Crash, Running, Snapped, Appending,
        Unflushed, Delta, AfterFlush, Commit
  <1>4. ASSUME NEW d \in Directions, Record(d) PROVE IndInv'
    <2>1. /\ counter' = [counter EXCEPT ![d] = WrappingInc(@)]
          /\ moved' = [moved EXCEPT ![d] = @ + 1]
          /\ Unflushed(d) < Modulus - 1
          /\ UNCHANGED <<pc, loaded, snap, previous, poisoned, stored, tail,
                         tailBytes, owed, unlockFailures>>
      BY <1>4 DEF Record
    <2>2. \A e \in Directions :
            /\ Unflushed(e)' = IF e = d THEN Unflushed(e) + 1
                               ELSE Unflushed(e)
            /\ Delta(e)' = Delta(e)
            /\ moved'[e] = IF e = d THEN moved[e] + 1 ELSE moved[e]
      BY <1>t, <1>d, <2>1, WrapStep DEF Unflushed, Delta, TypeOK, Amounts
    <2>3. \A e \in Directions : Unflushed(e)' >= Unflushed(e)
      BY <1>d, <2>2
    <2>4. Balanced' /\ OwedSound' /\ CountsOnce'
      <3>1. Balanced'
        <4> SUFFICES ASSUME Running, NEW e \in Directions
                     PROVE  /\ moved'[e] <= owed[e] + stored[e] + Unflushed(e)'
                            /\ unlockFailures = 0 =>
                                 moved'[e] = owed[e] + stored[e] + Unflushed(e)'
          BY <2>1 DEF Balanced, Running
        <4>1. /\ moved[e] <= owed[e] + stored[e] + Unflushed(e)
              /\ unlockFailures = 0 =>
                   moved[e] = owed[e] + stored[e] + Unflushed(e)
          BY DEF IndInv, Balanced
        <4>2. \/ Unflushed(e)' = Unflushed(e) /\ moved'[e] = moved[e]
              \/ Unflushed(e)' = Unflushed(e) + 1 /\ moved'[e] = moved[e] + 1
          BY <2>2
        <4> QED
          BY <1>d, <4>1, <4>2
      <3>2. CountsOnce'
        BY <1>d, <1>e, <2>1, <2>2 DEF IndInv, CountsOnce, NeverOvercounts
      <3>3. OwedSound'
        BY <2>1 DEF IndInv, OwedSound
      <3> QED
        BY <3>1, <3>2, <3>3
    <2>5. SnapBetween' /\ TailSettled' /\ TailCovered'
      BY <1>t, <1>d, <2>1, <2>2, <2>3
      DEF IndInv, SnapBetween, TailSettled, TailCovered, Running, TypeOK,
          Unflushed, Snapped, Appending
    <2> QED
      BY <1>t, <2>4, <2>5 DEF IndInv
  <1>5. ASSUME NEW stop \in BOOLEAN, Wake(stop) PROVE IndInv'
    BY <1>t, <1>d, <1>e, <1>5
    DEF IndInv, Balanced, SnapBetween, TailSettled, TailCovered, OwedSound,
        CountsOnce, NeverOvercounts, Wake, Running, Snapped, Appending,
        Unflushed, Delta, AfterFlush, Commit
  <1>6. ASSUME NEW d \in Directions, Load(d) PROVE IndInv'
    <2>1. /\ pc = "snapshot" /\ snap' = [snap EXCEPT ![d] = counter[d]]
          /\ loaded' = loaded \cup {d}
          /\ pc' = IF loaded' = Directions THEN "append" ELSE "snapshot"
          /\ UNCHANGED <<moved, counter, previous, poisoned, stored, tail,
                         tailBytes, owed, unlockFailures>>
      BY <1>6 DEF Load
    <2>2. \A e \in Directions :
            /\ Unflushed(e)' = Unflushed(e)
            /\ Delta(e)' = IF e = d THEN Unflushed(e) ELSE Delta(e)
      BY <1>t, <2>1 DEF Unflushed, Delta, TypeOK
    <2>3. SnapBetween'
      BY <1>t, <1>d, <2>1, <2>2 DEF IndInv, SnapBetween, Snapped, TypeOK
    <2>4. /\ Balanced' /\ OwedSound' /\ CountsOnce'
          /\ TailSettled' /\ TailCovered'
      BY <1>d, <1>e, <2>1, <2>2
      DEF IndInv, Balanced, OwedSound, CountsOnce, NeverOvercounts,
          TailSettled, TailCovered, Running, Appending
    <2> QED
      BY <1>t, <2>3, <2>4 DEF IndInv
  <1>7. CASE AppendRefused
    BY <1>t, <1>d, <1>e, <1>7
    DEF IndInv, Balanced, SnapBetween, TailSettled, TailCovered, OwedSound,
        CountsOnce, NeverOvercounts, AppendRefused, Running, Snapped,
        Appending, Unflushed, Delta, AfterFlush, Commit
  <1>8. CASE LockFails
    BY <1>t, <1>d, <1>e, <1>8
    DEF IndInv, Balanced, SnapBetween, TailSettled, TailCovered, OwedSound,
        CountsOnce, NeverOvercounts, LockFails, Running, Snapped, Appending,
        Unflushed, Delta, AfterFlush, Commit
  <1>9. CASE AppendLocks
    BY <1>t, <1>d, <1>e, <1>9
    DEF IndInv, Balanced, SnapBetween, TailSettled, TailCovered, OwedSound,
        CountsOnce, NeverOvercounts, AppendLocks, Running, Snapped,
        Appending, Unflushed, Delta, AfterFlush, Commit
  <1>10. CASE WriteOk
    BY <1>t, <1>d, <1>e, <1>10
    DEF IndInv, Balanced, SnapBetween, TailSettled, TailCovered, OwedSound,
        CountsOnce, NeverOvercounts, WriteOk, Running, Snapped, Appending,
        Unflushed, Delta, AfterFlush, Commit
  <1>11. CASE WriteFails
    BY <1>t, <1>d, <1>e, <1>11
    DEF IndInv, Balanced, SnapBetween, TailSettled, TailCovered, OwedSound,
        CountsOnce, NeverOvercounts, WriteFails, Running, Snapped, Appending,
        Unflushed, Delta, AfterFlush, Commit
  <1>12. CASE RollbackOk
    BY <1>t, <1>d, <1>e, <1>12
    DEF IndInv, Balanced, SnapBetween, TailSettled, TailCovered, OwedSound,
        CountsOnce, NeverOvercounts, RollbackOk, Running, Snapped, Appending,
        Unflushed, Delta, AfterFlush, Commit
  <1>13. CASE RollbackFails
    BY <1>t, <1>d, <1>e, <1>13
    DEF IndInv, Balanced, SnapBetween, TailSettled, TailCovered, OwedSound,
        CountsOnce, NeverOvercounts, RollbackFails, Running, Snapped,
        Appending, Unflushed, Delta, AfterFlush, Commit
  <1>14. CASE Committed
    <2>1. /\ pc = "committed" /\ previous' = snap /\ tail' = "clean"
          /\ pc' \in {"wait", "done"}
          /\ stored' = [d \in Directions |-> Reported(d)]
          /\ UNCHANGED <<moved, counter, snap, poisoned, tailBytes, owed,
                         unlockFailures>>
      BY <1>14 DEF Committed, Commit, AfterFlush
    <2>2. /\ tail = "whole" /\ ~poisoned
          /\ \A d \in Directions :
               tailBytes[d] = Delta(d) /\ Delta(d) <= Unflushed(d)
      BY <2>1
      DEF IndInv, TailSettled, TailCovered, SnapBetween, Snapped, Appending
    <2>3. \A d \in Directions : Unflushed(d)' = Unflushed(d) - Delta(d)
      BY <1>d, <2>1, <2>2, WrapAdvance DEF Unflushed, Delta
    <2>4. \A d \in Directions : stored'[d] = stored[d] + Delta(d)
      BY <1>d, <2>1, <2>2
    <2>5. Balanced' /\ OwedSound' /\ CountsOnce'
      BY <1>d, <1>e, <2>1, <2>2, <2>3, <2>4
      DEF IndInv, Balanced, OwedSound, CountsOnce, NeverOvercounts, Running
    <2>6. SnapBetween' /\ TailSettled' /\ TailCovered'
      BY <2>1, <2>2
      DEF SnapBetween, TailSettled, TailCovered, Snapped, Appending
    <2> QED
      BY <1>t, <2>5, <2>6 DEF IndInv
  <1>15. CASE Failed
    BY <1>t, <1>d, <1>e, <1>15
    DEF IndInv, Balanced, SnapBetween, TailSettled, TailCovered, OwedSound,
        CountsOnce, NeverOvercounts, Failed, Running, Snapped, Appending,
        Unflushed, Delta, AfterFlush, Commit
  <1>16. CASE QueryBegin
    BY <1>t, <1>d, <1>e, <1>16
    DEF IndInv, Balanced, SnapBetween, TailSettled, TailCovered, OwedSound,
        CountsOnce, NeverOvercounts, QueryBegin, Running, Snapped, Appending,
        Unflushed, Delta, AfterFlush, Commit
  <1>17. CASE QueryEnd
    BY <1>t, <1>d, <1>e, <1>17
    DEF IndInv, Balanced, SnapBetween, TailSettled, TailCovered, OwedSound,
        CountsOnce, NeverOvercounts, QueryEnd, Running, Snapped, Appending,
        Unflushed, Delta, AfterFlush, Commit
  <1>18. CASE CommittedUnlockFails
    <2>1. /\ pc = "committed" /\ tail' = "clean" /\ pc' \in {"wait", "done"}
          /\ stored' = [d \in Directions |-> Reported(d)]
          /\ unlockFailures' # 0
          /\ UNCHANGED <<moved, counter, previous, snap, poisoned, tailBytes,
                         owed>>
      BY <1>t, <1>18 DEF CommittedUnlockFails, Commit, AfterFlush, TypeOK
    <2>2. /\ ~poisoned
          /\ \A d \in Directions : stored'[d] >= stored[d]
      BY <1>d, <2>1 DEF IndInv, TailSettled, Appending
    <2>3. Balanced' /\ OwedSound' /\ CountsOnce'
      <3>1. \A d \in Directions : Unflushed(d)' = Unflushed(d)
        BY <2>1 DEF Unflushed
      <3>2. \A d \in Directions : stored'[d] \in Nat
        BY <1>t DEF TypeOK, Amounts
      <3> QED
        BY <1>d, <2>1, <2>2, <3>1, <3>2
        DEF IndInv, Balanced, OwedSound, CountsOnce, Running
    <2>4. SnapBetween' /\ TailSettled' /\ TailCovered'
      BY <2>1, <2>2
      DEF SnapBetween, TailSettled, TailCovered, Snapped, Appending
    <2> QED
      BY <1>t, <2>3, <2>4 DEF IndInv
  <1>19. CASE UNCHANGED vars
    BY <1>19
    DEF IndInv, vars, TypeOK, Balanced, SnapBetween, TailSettled, TailCovered,
        OwedSound, CountsOnce, NeverOvercounts, Running, Unflushed, Delta,
        Reported
  <1> QED
    BY <1>1, <1>2, <1>3, <1>4, <1>5, <1>6, <1>7, <1>8, <1>9, <1>10, <1>11,
       <1>12, <1>13, <1>14, <1>15, <1>16, <1>17, <1>18, <1>19
    DEF Next, Flush

-----------------------------------------------------------------------------
\* The invariant is strong enough for the properties.
LEMMA InvImplies == IndInv => CountsOnce /\ NothingLost
  <1> SUFFICES ASSUME IndInv PROVE CountsOnce /\ NothingLost
    OBVIOUS
  <1> QED
    BY DEF IndInv, Balanced, TailSettled, NothingLost, Running

\* In every reachable state: the variables have their types, the journal
\* reports no more than was moved unless an unlock has failed, and between
\* flushes every counted byte is in the journal or still to be written.  This
\* covers Sampler::flush, Journal::append with all its error paths, and
\* Journal::open after a crash at any point.
THEOREM JournalCorrect ==
    Spec => [](TypeOK /\ CountsOnce /\ NothingLost)
  <1>1. Init => IndInv
    BY InitInv
  <1>2. IndInv /\ [Next]_vars => IndInv'
    BY StepInv
  <1>3. IndInv => TypeOK /\ CountsOnce /\ NothingLost
    BY InvImplies DEF IndInv
  <1> QED
    BY <1>1, <1>2, <1>3, PTL DEF Spec

\* Between flushes, and after the last, every byte this process counted is in
\* the journal or in the difference that the next flush writes (Sampler::flush
\* keeps `previous` when append() fails).
THEOREM NoByteLost == Spec => []NothingLost
  BY JournalCorrect, PTL

-----------------------------------------------------------------------------
(* The journal's lock *)

\* append() holds the exclusive lock from before its first write until after
\* the rollback or the sync; an unlock that failed leaves it held.
WriterLocked == pc \in {"write", "rollback", "committed", "failed"} => lock = "writer"

\* A query that got the shared lock got it while no append was under way, and
\* none begins before it gives the lock back (Journal::append, query).
THEOREM QueriesReadSettled == Spec => []QueryReadsSettled
  <1>1. Init => WriterLocked
    BY DEF Init, WriterLocked
  <1>2. WriterLocked /\ [Next]_vars => WriterLocked'
    <2> SUFFICES ASSUME WriterLocked, [Next]_vars PROVE WriterLocked'
      OBVIOUS
    <2>1. CASE Start \/ Exit \/ Crash
      BY <2>1 DEF WriterLocked, Start, Exit, Crash
    <2>2. CASE (\E d \in Directions : Record(d)) \/ (\E stop \in BOOLEAN : Wake(stop))
      BY <2>2 DEF WriterLocked, Record, Wake
    <2>3. CASE \E d \in Directions : Load(d)
      BY <2>3 DEF WriterLocked, Load
    <2>4. CASE AppendRefused \/ LockFails \/ Committed \/ CommittedUnlockFails \/ Failed
      BY <2>4 DEF WriterLocked, AppendRefused, LockFails, Committed, CommittedUnlockFails,
         Failed, AfterFlush
    <2>5. CASE AppendLocks \/ WriteOk \/ WriteFails \/ RollbackOk \/ RollbackFails
      BY <2>5 DEF WriterLocked, AppendLocks, WriteOk, WriteFails, RollbackOk, RollbackFails
    <2>6. CASE QueryBegin \/ QueryEnd \/ UNCHANGED vars
      BY <2>6 DEF WriterLocked, QueryBegin, QueryEnd, vars
    <2> QED
      BY <2>1, <2>2, <2>3, <2>4, <2>5, <2>6 DEF Next, Flush
  <1>3. WriterLocked => QueryReadsSettled
    BY DEF WriterLocked, QueryReadsSettled
  <1> QED
    BY <1>1, <1>2, <1>3, PTL DEF Spec
=============================================================================
