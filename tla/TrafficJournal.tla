--------------------------- MODULE TrafficJournal ---------------------------
(***************************************************************************)
(* The traffic recorder of src/src/traffic.rs: byte counters bumped by     *)
(* every relay, the sampling thread, and the append-only journal it shares *)
(* with `oixc-proxy traffic` queries of other processes.                   *)
(*                                                                         *)
(* The file is abstracted to what a query adds up: `stored`, the total of  *)
(* the records committed so far, and `tail`, what lies behind them: no     *)
(* byte, part of a record, or a whole record carrying `tailBytes`.  Sample *)
(* times are left out.  A crash may be a kill or a power loss: bytes that  *)
(* sync_data has not confirmed may then be there or not.                   *)
(***************************************************************************)
EXTENDS Integers, FiniteSets

CONSTANTS
    Directions,    \* TcpUpload, TcpDownload, UdpUpload, UdpDownload
    Modulus,       \* 2^64 in the code: counters wrap, deltas are modulo it
    MaxMoved,      \* bound: bytes of each direction in one behaviour
    MaxStarts,     \* bound: processes that record to the journal in turn
    MaxQueries,    \* bound: queries in one behaviour
    MaxUnlockFailures  \* bound: flock(LOCK_UN) / UnlockFileEx calls that fail

ASSUME JournalAssumption ==
    /\ IsFiniteSet(Directions)
    /\ Modulus \in Nat \ {0, 1}
    /\ MaxMoved \in [Directions -> Nat]
    /\ MaxStarts \in Nat
    /\ MaxQueries \in Nat
    /\ MaxUnlockFailures \in Nat

VARIABLES
    moved,      \* bytes relayed while a recorder was running (history)
    counter,    \* Counters.values
    pc,         \* the sampling thread; "down" when no process runs
    stopping,   \* the thread has received the stop message
    loaded,     \* directions whose counter the current snapshot has read
    snap,       \* the snapshot
    previous,   \* Sampler.previous
    poisoned,   \* Journal.poisoned
    stored,     \* total of the records committed to the journal
    tail,       \* what follows them: "clean", "partial" or "whole"
    tailBytes,  \* the bytes of the record in `tail`
    lock,       \* the lock of the journal file: "free", "writer", "reader"
    owed,       \* moved less reported when this process started (history)
    starts,     \* Journal::open calls so far
    queries,    \* queries so far
    unlockFailures  \* failed unlocks so far

fileVars == <<stored, tail, tailBytes>>
samplerVars == <<stopping, loaded, snap, previous, poisoned>>
vars == <<moved, counter, pc, samplerVars, fileVars, lock, owed, starts,
          queries, unlockFailures>>

-----------------------------------------------------------------------------
PcStates == {"down", "wait", "snapshot", "append", "write", "rollback",
             "committed", "failed", "done"}
Tails == {"clean", "partial", "whole"}
Amounts == [Directions -> Nat]
Zeros == [d \in Directions |-> 0]

\* u64::wrapping_sub
WrappingSub(a, b) == IF a >= b THEN a - b ELSE a - b + Modulus

\* AtomicU64::fetch_add(1), wrapping.
WrappingInc(a) == IF a + 1 = Modulus THEN 0 ELSE a + 1

\* Bytes::delta of a snapshot against the last one that was persisted.
Delta(d) == WrappingSub(snap[d], previous[d])
Unflushed(d) == WrappingSub(counter[d], previous[d])

\* What a query adds up for one direction: complete lines only.
Reported(d) == stored[d] + IF tail = "whole" THEN tailBytes[d] ELSE 0

Running == pc # "down"

Init ==
    /\ moved = Zeros
    /\ counter = Zeros
    /\ pc = "down"
    /\ stopping = FALSE
    /\ loaded = {}
    /\ snap = Zeros
    /\ previous = Zeros
    /\ poisoned = FALSE
    /\ stored = Zeros
    /\ tail = "clean"
    /\ tailBytes = Zeros
    /\ lock = "free"
    /\ owed = Zeros
    /\ starts = 0
    /\ queries = 0
    /\ unlockFailures = 0

-----------------------------------------------------------------------------
(* Journal::open and Recorder::start *)

\* What open() leaves of the tail: an incomplete last line is cut off, a
\* complete one is kept.
Recovered(d) == Reported(d)

\* The memory of a process that has not counted yet.  What a process that is
\* gone had in memory is forgotten at once.
FreshMemory ==
    /\ counter' = Zeros
    /\ previous' = Zeros
    /\ snap' = Zeros
    /\ loaded' = {}
    /\ stopping' = FALSE
    /\ poisoned' = FALSE

\* The journal is opened under both locks; the new process counts from zero.
Start ==
    /\ pc = "down" /\ starts < MaxStarts /\ lock = "free"
    /\ pc' = "wait"
    /\ starts' = starts + 1
    /\ stored' = [d \in Directions |-> Recovered(d)]
    /\ tail' = "clean"
    /\ tailBytes' = Zeros
    /\ FreshMemory
    /\ owed' = [d \in Directions |-> moved[d] - stored'[d]]
    /\ UNCHANGED <<moved, lock, queries, unlockFailures>>

\* record(): a relay moved a byte.  Bound: fewer than Modulus bytes move
\* between two samples that reach the journal.
Record(d) ==
    /\ Running /\ moved[d] < MaxMoved[d] /\ Unflushed(d) < Modulus - 1
    /\ counter' = [counter EXCEPT ![d] = WrappingInc(@)]
    /\ moved' = [moved EXCEPT ![d] = @ + 1]
    /\ UNCHANGED <<pc, samplerVars, fileVars, lock, owed, starts, queries,
                   unlockFailures>>

-----------------------------------------------------------------------------
(* collect and Sampler::flush *)

\* recv_timeout returned: at the turn of the minute, or with the message that
\* Recorder::stop (or its drop) sent.
Wake(stop) ==
    /\ pc = "wait"
    /\ pc' = "snapshot"
    /\ stopping' = stop
    /\ loaded' = {}
    /\ UNCHANGED <<moved, counter, snap, previous, poisoned, fileVars, lock,
                   owed, starts, queries, unlockFailures>>

\* Counters::snapshot loads the four counters one after the other.
Load(d) ==
    /\ pc = "snapshot" /\ d \notin loaded
    /\ snap' = [snap EXCEPT ![d] = counter[d]]
    /\ loaded' = loaded \cup {d}
    /\ pc' = IF loaded' = Directions THEN "append" ELSE "snapshot"
    /\ UNCHANGED <<moved, counter, stopping, previous, poisoned, fileVars,
                   lock, owed, starts, queries, unlockFailures>>

\* Where collect() goes after a flush.
AfterFlush == IF stopping THEN "done" ELSE "wait"

\* append() on a poisoned journal fails at once.
AppendRefused ==
    /\ pc = "append" /\ poisoned
    /\ pc' = AfterFlush
    /\ UNCHANGED <<moved, counter, samplerVars, fileVars, lock, owed, starts,
                   queries, unlockFailures>>

\* The exclusive lock cannot be taken: nothing was written.
LockFails ==
    /\ pc = "append" /\ ~poisoned
    /\ pc' = AfterFlush
    /\ UNCHANGED <<moved, counter, samplerVars, fileVars, lock, owed, starts,
                   queries, unlockFailures>>

\* Mutant: no lock is taken.
AppendUnlocked ==
    /\ pc = "append" /\ ~poisoned
    /\ pc' = "write"
    /\ tailBytes' = [d \in Directions |-> Delta(d)]
    /\ UNCHANGED <<moved, counter, samplerVars, stored, tail, lock, owed,
                   starts, queries, unlockFailures>>

\* append() takes the exclusive lock; a lock this process failed to give back
\* is its own and does not block it.
AppendLocks ==
    /\ pc = "append" /\ ~poisoned /\ lock \in {"free", "writer"}
    /\ pc' = "write"
    /\ lock' = "writer"
    /\ tailBytes' = [d \in Directions |-> Delta(d)]
    /\ UNCHANGED <<moved, counter, samplerVars, stored, tail, owed, starts,
                   queries, unlockFailures>>

\* write_all and sync_data succeeded.
WriteOk ==
    /\ pc = "write"
    /\ tail' = "whole"
    /\ pc' = "committed"
    /\ UNCHANGED <<moved, counter, samplerVars, stored, tailBytes, lock, owed,
                   starts, queries, unlockFailures>>

\* One of them failed, after any part of the record was written.
WriteFails ==
    /\ pc = "write"
    /\ tail' \in Tails
    /\ pc' = "rollback"
    /\ UNCHANGED <<moved, counter, samplerVars, stored, tailBytes, lock, owed,
                   starts, queries, unlockFailures>>

\* Mutant: a failed append is not rolled back.
RollbackSkipped ==
    /\ pc = "rollback"
    /\ stored' = [d \in Directions |-> Reported(d)]
    /\ tail' = "clean"
    /\ pc' = "failed"
    /\ UNCHANGED <<moved, counter, samplerVars, tailBytes, lock, owed, starts,
                   queries, unlockFailures>>

\* set_len(offset) and sync_data succeeded.
RollbackOk ==
    /\ pc = "rollback"
    /\ tail' = "clean"
    /\ pc' = "failed"
    /\ UNCHANGED <<moved, counter, samplerVars, stored, tailBytes, lock, owed,
                   starts, queries, unlockFailures>>

\* One of them failed: the record may have been cut off or not.
RollbackFails ==
    /\ pc = "rollback"
    /\ tail' \in {tail, "clean"}
    /\ poisoned' = TRUE
    /\ pc' = "failed"
    /\ UNCHANGED <<moved, counter, stopping, loaded, snap, previous, stored,
                   tailBytes, lock, owed, starts, queries, unlockFailures>>

\* The record is durable; it joins the committed ones.
Commit ==
    /\ stored' = [d \in Directions |-> Reported(d)]
    /\ tail' = "clean"

\* append() returned Ok and flush() advances `previous`.
Committed ==
    /\ pc = "committed"
    /\ Commit
    /\ lock' = "free"
    /\ previous' = snap
    /\ pc' = AfterFlush
    /\ UNCHANGED <<moved, counter, stopping, loaded, snap, poisoned, tailBytes,
                   owed, starts, queries, unlockFailures>>

\* The record is durable but the unlock failed: append() returns that error
\* and `previous` stays.
CommittedUnlockFails ==
    /\ pc = "committed" /\ unlockFailures < MaxUnlockFailures
    /\ unlockFailures' = unlockFailures + 1
    /\ Commit
    /\ pc' = AfterFlush
    /\ UNCHANGED <<moved, counter, samplerVars, tailBytes, lock, owed, starts,
                   queries>>

\* Mutant: `previous` advances although nothing was persisted.
FailedAdvances ==
    /\ pc = "failed"
    /\ lock' = "free"
    /\ previous' = snap
    /\ pc' = AfterFlush
    /\ UNCHANGED <<moved, counter, stopping, loaded, snap, poisoned, fileVars,
                   owed, starts, queries, unlockFailures>>

\* Mutant: the flush is repeated until it succeeds.
FailedRetries ==
    /\ pc = "failed"
    /\ lock' = "free"
    /\ pc' = IF poisoned THEN AfterFlush ELSE "append"
    /\ UNCHANGED <<moved, counter, samplerVars, fileVars, owed, starts,
                   queries, unlockFailures>>

\* append() returned the write error; the counters are kept for the next
\* sample.
Failed ==
    /\ pc = "failed"
    /\ lock' = "free"
    /\ pc' = AfterFlush
    /\ UNCHANGED <<moved, counter, samplerVars, fileVars, owed, starts,
                   queries, unlockFailures>>

\* The worker was joined and the process exits.
Exit ==
    /\ pc = "done"
    /\ pc' = "down"
    /\ lock' = IF lock = "writer" THEN "free" ELSE lock
    /\ FreshMemory
    /\ UNCHANGED <<moved, fileVars, owed, starts, queries, unlockFailures>>

-----------------------------------------------------------------------------
(* Crashes and queries *)

\* A kill or a power loss.  What the journal holds behind the last record
\* that was synced is unknown if a write or a rollback was not confirmed.
Crash ==
    /\ Running
    /\ pc' = "down"
    /\ lock' = IF lock = "writer" THEN "free" ELSE lock
    /\ tail' \in IF pc \in {"write", "rollback"} \/ poisoned
                 THEN Tails ELSE {tail}
    /\ FreshMemory
    /\ UNCHANGED <<moved, stored, tailBytes, owed, starts, queries,
                   unlockFailures>>

\* query() takes the shared lock and the length of the file ...
QueryBegin ==
    /\ lock = "free" /\ queries < MaxQueries
    /\ lock' = "reader"
    /\ queries' = queries + 1
    /\ UNCHANGED <<moved, counter, pc, samplerVars, fileVars, owed, starts,
                   unlockFailures>>

\* ... and reads up to it; closing the file drops the lock.
QueryEnd ==
    /\ lock = "reader"
    /\ lock' = "free"
    /\ UNCHANGED <<moved, counter, pc, samplerVars, fileVars, owed, starts,
                   queries, unlockFailures>>

-----------------------------------------------------------------------------
Flush ==
    \/ \E d \in Directions : Load(d)
    \/ AppendRefused \/ AppendLocks \/ WriteOk \/ WriteFails
    \/ RollbackOk \/ RollbackFails
    \/ Committed \/ CommittedUnlockFails \/ Failed

Next ==
    \/ Start \/ Exit \/ Crash
    \/ \E d \in Directions : Record(d)
    \/ \E stop \in BOOLEAN : Wake(stop)
    \/ Flush \/ LockFails
    \/ QueryBegin \/ QueryEnd

\* The sampling thread runs, file operations return and queries end; an error
\* of the lock call is not relied on.
Fairness == WF_vars(Flush) /\ WF_vars(QueryEnd)

Spec == Init /\ [][Next]_vars /\ Fairness

-----------------------------------------------------------------------------
(* Properties *)

\* Every variable has its type.
TypeOK ==
    /\ moved \in Amounts
    /\ counter \in [Directions -> 0..Modulus - 1]
    /\ pc \in PcStates
    /\ stopping \in BOOLEAN
    /\ loaded \subseteq Directions
    /\ snap \in [Directions -> 0..Modulus - 1]
    /\ previous \in [Directions -> 0..Modulus - 1]
    /\ poisoned \in BOOLEAN
    /\ stored \in Amounts
    /\ tail \in Tails
    /\ tailBytes \in Amounts
    /\ lock \in {"free", "writer", "reader"}
    /\ owed \in [Directions -> Int]
    /\ starts \in Nat
    /\ queries \in Nat
    /\ unlockFailures \in Nat

\* The journal never reports traffic that did not happen, whatever write,
\* rollback or process failed and at which point: a failed append is undone
\* or is never repeated ("Roll back partial writes so the next attempt never
\* duplicates a delta").
NeverOvercounts == \A d \in Directions : Reported(d) <= moved[d]

\* Failed unlocks are the only way to report a delta twice: as long as every
\* unlock succeeded, no failure or crash of append(), of its rollback or of the
\* recovery in open() does.
CountsOnce == unlockFailures = 0 => NeverOvercounts

\* Between two flushes, and when the recorder has stopped, every byte counted
\* by this process is in the journal or in the difference that the next flush
\* will write: disk errors and wrapping counters lose nothing.
NothingLost ==
    pc \in {"wait", "done"} /\ ~poisoned =>
      /\ tail = "clean"
      /\ \A d \in Directions : moved[d] <= owed[d] + stored[d] + Unflushed(d)

\* A query never reads a record that may still be rolled back: while it holds
\* the shared lock no append is in progress.
QueryReadsSettled == lock = "reader" => pc \notin {"write", "rollback"}

\* A stop request is answered: the final flush ends, in success or in an
\* error, even if the disk fails or a query holds the journal at that moment.
StopResolves ==
    (stopping /\ pc = "snapshot") ~> (pc \in {"done", "down"})
=============================================================================
