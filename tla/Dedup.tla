------------------------------- MODULE Dedup -------------------------------
(***************************************************************************)
(* The (source, packet_id) cache of dedup.cpp, which every role consults   *)
(* before it handles or forwards a frame: a ring of DEDUP_SIZE entries     *)
(* that count for DEDUP_TTL_MS after they were written.                    *)
(***************************************************************************)
EXTENDS Integers, FiniteSets

CONSTANTS
    Keys,           \* the (source, packet_id) pairs on the air
    DEDUP_SIZE,
    DEDUP_TTL_MS,
    CLOCK,          \* turn of the millisecond counter (2^32)
    NoEntry,        \* an entry that was never used
    \* Bounds of a behaviour: its length in ms, its live evictions
    MaxElapsed, MaxEvicted

ASSUME DedupAssumption ==
    /\ IsFiniteSet(Keys)
    /\ DEDUP_SIZE \in Nat \ {0}
    /\ DEDUP_TTL_MS \in Nat \ {0}
    /\ CLOCK \in Nat
    /\ DEDUP_TTL_MS < CLOCK
    /\ MaxElapsed \in Nat
    /\ MaxElapsed < CLOCK
    /\ MaxEvicted \in Nat

VARIABLES
    entries,       \* s_entries[]
    next,          \* s_next, the ring cursor
    evictedLive,   \* s_evicted_live
    now,           \* millis()
    elapsed,       \* ms since the start, without the wrap
    left,          \* ms for which an accepted key must still be recognised
    mark           \* evictedLive when the key was last accepted

vars == <<entries, next, evictedLive, now, elapsed, left, mark>>

Ring  == 0 .. DEDUP_SIZE - 1
Times == 0 .. CLOCK - 1

Entries == [key : Keys, ts : Times]

\* An entry that was never used is told from every other.
ASSUME NoEntryAssumption == NoEntry \notin Entries

\* The device may have been up for any time.
Init ==
    /\ entries = [i \in Ring |-> NoEntry]
    /\ next = 0
    /\ evictedLive = 0
    /\ now \in Times
    /\ elapsed = 0
    /\ left = [k \in Keys |-> 0]
    /\ mark = [k \in Keys |-> 0]

----------------------------------------------------------------------------
\* Mutant of Active: comparing with the time of expiry breaks when that wraps.
ActiveUnwrapped(i) ==
    entries[i] # NoEntry /\ now < (entries[i].ts + DEDUP_TTL_MS) % CLOCK

\* Mutant of Active: an entry counts one ms too long.
ActiveTooLong(i) ==
    entries[i] # NoEntry /\ (now - entries[i].ts) % CLOCK <= DEDUP_TTL_MS

\* entryActive
Active(i) == entries[i] # NoEntry /\ (now - entries[i].ts) % CLOCK < DEDUP_TTL_MS

IsDuplicate(k) == \E i \in Ring : Active(i) /\ entries[i].key = k

\* Mutant of NextCursor: the last slot of the ring is never used.
NextCursorShort == (next + 1) % (IF DEDUP_SIZE > 1 THEN DEDUP_SIZE - 1 ELSE 1)

\* Mutant of NextCursor: the cursor does not wrap around.
NextCursorUnwrapped == next + 1

NextCursor == (next + 1) % DEDUP_SIZE

\* dedupCheckAndInsert returning true: nothing changes, not even the age.
Duplicate(k) ==
    /\ IsDuplicate(k)
    /\ UNCHANGED vars

\* dedupCheckAndInsert returning false: the key takes the slot at the cursor,
\* and an entry that still counts is pushed out and counted.
Accept(k) ==
    /\ ~IsDuplicate(k)
    /\ Active(next) => evictedLive < MaxEvicted
    /\ evictedLive' = IF Active(next) THEN evictedLive + 1 ELSE evictedLive
    /\ entries' = [entries EXCEPT ![next] = [key |-> k, ts |-> now]]
    /\ next' = NextCursor
    /\ left' = [left EXCEPT ![k] = DEDUP_TTL_MS]
    /\ mark' = [mark EXCEPT ![k] = evictedLive']
    /\ UNCHANGED <<now, elapsed>>

\* Time goes on between two frames.
Elapse(d) ==
    /\ elapsed + d <= MaxElapsed
    /\ elapsed' = elapsed + d
    /\ now' = (now + d) % CLOCK
    /\ left' = [k \in Keys |-> IF left[k] > d THEN left[k] - d ELSE 0]
    /\ UNCHANGED <<entries, next, evictedLive, mark>>

Next ==
    \/ \E k \in Keys : Accept(k) \/ Duplicate(k)
    \/ \E d \in 1 .. MaxElapsed : Elapse(d)

Spec == Init /\ [][Next]_vars

----------------------------------------------------------------------------
(* Properties                                                              *)

\* The cursor never leaves the ring, and no counter its range.
TypeOK ==
    /\ entries \in [Ring -> Entries \cup {NoEntry}]
    /\ next \in Ring
    /\ evictedLive \in 0 .. MaxEvicted
    /\ now \in Times
    /\ elapsed \in 0 .. MaxElapsed
    /\ left \in [Keys -> 0 .. DEDUP_TTL_MS]
    /\ mark \in [Keys -> 0 .. MaxEvicted]

\* dedup.h: a frame that comes again within the TTL is recognised, on either
\* side of the turn of millis() -- unless the ring has pushed live entries out
\* since, and then the diagnostic counter shows it.
RecognisedWithinTTL ==
    \A k \in Keys : left[k] > 0 => IsDuplicate(k) \/ evictedLive > mark[k]

\* A key older than the TTL is never taken for a duplicate, so that a frame
\* with a reused packet_id is not swallowed.  (MaxElapsed < CLOCK: the ring
\* turns over, or the device restarts, within a turn of millis().)
ForgottenAfterTTL ==
    \A k \in Keys : IsDuplicate(k) => left[k] > 0

\* dedup.h: a live entry is pushed out only when more different frames than
\* DEDUP_SIZE came within one TTL, never because of the way slots are reused.
EvictionMeansCrowded ==
    [][evictedLive' # evictedLive
       => Cardinality({k \in Keys : left[k] > 0}) >= DEDUP_SIZE]_vars
=============================================================================
