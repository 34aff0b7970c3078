--------------------------- MODULE RepeaterProofs ---------------------------
(***************************************************************************)
(* The safety properties of Dedup and Repeater, for rings, limits and      *)
(* clocks of any size and any number of frames.                            *)
(***************************************************************************)
EXTENDS Repeater, FiniteSetTheorems, TLAPS

\* What % does within a turn of the clock on either side.
LEMMA Turn == \A C \in Nat \ {0} : \A x \in Int : x % C \in 0 .. C - 1
OBVIOUS

LEMMA SameTurn == \A C \in Nat \ {0} : \A x \in 0 .. C - 1 : x % C = x
OBVIOUS

LEMMA NextTurn == \A C \in Nat \ {0} : \A x \in C .. 2 * C - 1 : x % C = x - C
OBVIOUS

LEMMA LastTurn == \A C \in Nat \ {0} : \A x \in -C .. -1 : x % C = x + C
OBVIOUS

\* The time since t on a clock that wraps.
LEMMA Since ==
    ASSUME NEW C \in Nat \ {0}, NEW s \in 0 .. C - 1, NEW t \in 0 .. C - 1
    PROVE  (s - t) % C = IF t <= s THEN s - t ELSE s - t + C
<1>1. CASE t <= s
  <2>1. s - t \in 0 .. C - 1
    BY <1>1
  <2> QED
    BY <1>1, <2>1, SameTurn
<1>2. CASE t > s
  <2>1. s - t \in -C .. -1
    BY <1>2
  <2> QED
    BY <1>2, <2>1, LastTurn
<1> QED
  BY <1>1, <1>2

LEMMA Later ==
    ASSUME NEW C \in Nat \ {0}, NEW s \in 0 .. C - 1, NEW d \in 0 .. C - 1
    PROVE  /\ (s + d) % C \in 0 .. C - 1
           /\ (s + d) % C = IF s + d < C THEN s + d ELSE s + d - C
<1>1. CASE s + d < C
  <2>1. s + d \in 0 .. C - 1
    BY <1>1
  <2> QED
    BY <1>1, <2>1, SameTurn
<1>2. CASE s + d >= C
  <2>1. s + d \in C .. 2 * C - 1
    BY <1>2
  <2> QED
    BY <1>2, <2>1, NextTurn
<1> QED
  BY <1>1, <1>2

\* Time adds up as long as less than a turn of the clock has gone by.
LEMMA SinceLater ==
    ASSUME NEW C \in Nat \ {0}, NEW s \in 0 .. C - 1, NEW t \in 0 .. C - 1,
           NEW d \in 0 .. C - 1, ((s - t) % C) + d < C
    PROVE  (((s + d) % C) - t) % C = ((s - t) % C) + d
<1> DEFINE u == (s + d) % C
<1>1. u \in 0 .. C - 1 /\ u = IF s + d < C THEN s + d ELSE s + d - C
  BY Later
<1>2. (s - t) % C = IF t <= s THEN s - t ELSE s - t + C
  BY Since
<1>3. (u - t) % C = IF t <= u THEN u - t ELSE u - t + C
  BY <1>1, Since
<1> HIDE DEF u
<1>4. (u - t) % C = ((s - t) % C) + d
  BY <1>1, <1>2, <1>3
<1> QED
  BY <1>4 DEF u

LEMMA Constants ==
    /\ DEDUP_SIZE \in Nat \ {0} /\ DEDUP_TTL_MS \in Nat \ {0}
    /\ CLOCK \in Nat \ {0} /\ DEDUP_TTL_MS < CLOCK
    /\ MaxElapsed \in Nat /\ MaxElapsed < CLOCK /\ MaxEvicted \in Nat
BY DedupAssumption

----------------------------------------------------------------------------
(* The cursor and the counters                                             *)

LEMMA CursorTurns ==
    ASSUME next \in Ring
    PROVE  /\ NextCursor \in Ring
           /\ NextCursor = IF next + 1 = DEDUP_SIZE THEN 0 ELSE next + 1
<1>1. next \in 0 .. DEDUP_SIZE - 1 /\ DEDUP_SIZE \in Nat \ {0}
  BY Constants DEF Ring
<1>2. CASE next + 1 = DEDUP_SIZE
  <2>1. (next + 1) % DEDUP_SIZE = (next + 1) - DEDUP_SIZE
    BY <1>1, <1>2, NextTurn
  <2> QED
    BY <1>1, <1>2, <2>1 DEF NextCursor, Ring
<1>3. CASE next + 1 # DEDUP_SIZE
  <2>1. next + 1 \in 0 .. DEDUP_SIZE - 1
    BY <1>1, <1>3
  <2> QED
    BY <1>1, <1>3, <2>1, SameTurn DEF NextCursor, Ring
<1> QED
  BY <1>2, <1>3

LEMMA AcceptType ==
    ASSUME TypeOK, NEW k \in Keys, Accept(k)
    PROVE  TypeOK'
<1>1. entries' \in [Ring -> Entries \cup {NoEntry}]
  BY DEF TypeOK, Accept, Entries
<1>2. next' \in Ring
  BY CursorTurns DEF TypeOK, Accept
<1>3. evictedLive' \in 0 .. MaxEvicted
  BY Constants DEF TypeOK, Accept
<1>4. left' \in [Keys -> 0 .. DEDUP_TTL_MS]
  <2>1. DEDUP_TTL_MS \in 0 .. DEDUP_TTL_MS
    BY Constants
  <2> QED
    BY <2>1 DEF TypeOK, Accept
<1>5. mark' \in [Keys -> 0 .. MaxEvicted]
  BY <1>3 DEF TypeOK, Accept
<1> QED
  BY <1>1, <1>2, <1>3, <1>4, <1>5 DEF TypeOK, Accept

LEMMA ElapseType ==
    ASSUME TypeOK, NEW d \in 1 .. MaxElapsed, Elapse(d)
    PROVE  TypeOK'
<1>1. elapsed' \in 0 .. MaxElapsed /\ d \in 0 .. CLOCK - 1
  BY Constants DEF TypeOK, Elapse
<1>2. now' \in Times
  BY <1>1, Constants, Later DEF TypeOK, Elapse, Times
<1>3. left' \in [Keys -> 0 .. DEDUP_TTL_MS]
  <2>1. \A x \in 0 .. DEDUP_TTL_MS : (IF x > d THEN x - d ELSE 0) \in 0 .. DEDUP_TTL_MS
    BY Constants
  <2> QED
    BY <2>1 DEF TypeOK, Elapse
<1> QED
  BY <1>1, <1>2, <1>3 DEF TypeOK, Elapse

LEMMA DedupType == TypeOK /\ [Next]_vars => TypeOK'
<1> SUFFICES ASSUME TypeOK, [Next]_vars PROVE TypeOK'
  OBVIOUS
<1>1. ASSUME NEW k \in Keys, Accept(k) PROVE TypeOK'
  BY <1>1, AcceptType
<1>2. ASSUME NEW d \in 1 .. MaxElapsed, Elapse(d) PROVE TypeOK'
  BY <1>2, ElapseType
<1>3. CASE UNCHANGED vars
  BY <1>3 DEF vars, TypeOK
<1> QED
  BY <1>1, <1>2, <1>3 DEF Next, Duplicate

LEMMA DedupInitType == Init => TypeOK
<1>1. 0 \in Ring /\ 0 \in 0 .. MaxEvicted /\ 0 \in 0 .. MaxElapsed /\ 0 \in 0 .. DEDUP_TTL_MS
  BY Constants DEF Ring
<1> QED
  BY <1>1 DEF Init, TypeOK

\* The cursor never leaves the ring and no counter its range, at any number of
\* frames and any time of the clock.
THEOREM CacheTypeCorrect == Spec => []TypeOK
BY DedupInitType, DedupType, PTL DEF Spec

----------------------------------------------------------------------------
(* The ring keeps the order of arrival                                     *)

Used(i) == entries[i] # NoEntry
Age(i)  == (now - entries[i].ts) % CLOCK

\* Slot i comes before slot j from the cursor on: it will be reused before.
Older(i, j) == IF (i >= next) = (j >= next) THEN i < j ELSE j < i

AgeInv == \A i \in Ring : Used(i) => Age(i) <= elapsed

OrderInv == \A i, j \in Ring : Older(i, j) /\ Used(i) => Used(j) /\ Age(j) <= Age(i)

\* Each entry that still counts has a key of its own, which must be recognised.
KeyInv ==
    /\ \A i \in Ring : Active(i) => left[entries[i].key] >= DEDUP_TTL_MS - Age(i)
    /\ \A i, j \in Ring : Active(i) /\ Active(j) /\ entries[i].key = entries[j].key => i = j

MarkInv ==
    \A k \in Keys :
        /\ mark[k] <= evictedLive
        /\ left[k] > 0 => \/ evictedLive > mark[k]
                          \/ \E i \in Ring : /\ Used(i) /\ entries[i].key = k
                                             /\ left[k] <= DEDUP_TTL_MS - Age(i)

CacheInv == AgeInv /\ OrderInv /\ KeyInv /\ MarkInv

LEMMA EntryTypes ==
    ASSUME TypeOK, NEW i \in Ring, Used(i)
    PROVE  /\ entries[i].key \in Keys /\ entries[i].ts \in Times
           /\ Age(i) \in 0 .. CLOCK - 1
           /\ left[entries[i].key] \in 0 .. DEDUP_TTL_MS
<1>1. entries[i] \in Entries /\ now \in Times
  BY DEF TypeOK, Used
<1>2. entries[i].key \in Keys /\ entries[i].ts \in Times
  BY <1>1 DEF Entries
<1>3. now - entries[i].ts \in Int
  BY <1>1, <1>2, Constants DEF Times
<1> QED
  BY <1>2, <1>3, Constants, Turn DEF Age, TypeOK

\* What accepting a frame does to the ring.
LEMMA AcceptedRing ==
    ASSUME TypeOK, NEW k \in Keys, Accept(k), NEW i \in Ring
    PROVE  /\ i = next => Used(i)' /\ Age(i)' = 0 /\ entries'[i].key = k
           /\ i # next => /\ Used(i)' <=> Used(i)
                          /\ Age(i)' = Age(i)
                          /\ entries'[i] = entries[i]
                          /\ Active(i)' <=> Active(i)
<1>1. /\ next \in Ring /\ now \in Times /\ now' = now
      /\ entries' = [entries EXCEPT ![next] = [key |-> k, ts |-> now]]
  BY DEF TypeOK, Accept
<1>2. CASE i = next
  <2>1. entries'[i] = [key |-> k, ts |-> now] /\ entries'[i] \in Entries
    BY <1>1, <1>2 DEF TypeOK, Entries
  <2>2. (now - now) % CLOCK = 0
    BY <1>1, Constants, Since DEF Times
  <2>3. Age(i)' = 0
    BY <1>1, <2>1, <2>2 DEF Age
  <2> QED
    BY <1>2, <2>1, <2>3, NoEntryAssumption DEF Used
<1>3. CASE i # next
  <2>1. entries'[i] = entries[i]
    BY <1>1, <1>3 DEF TypeOK
  <2> QED
    BY <1>1, <1>3, <2>1 DEF Used, Age, Active
<1> QED
  BY <1>2, <1>3

\* As time goes on every entry ages alike.
LEMMA ElapsedRing ==
    ASSUME TypeOK, AgeInv, NEW d \in 1 .. MaxElapsed, Elapse(d), NEW i \in Ring, Used(i)
    PROVE  /\ Used(i)' /\ entries' = entries
           /\ Age(i)' = Age(i) + d
           /\ Age(i)' <= elapsed'
           /\ Active(i)' => Active(i)
<1>1. entries' = entries /\ now' = (now + d) % CLOCK
  BY DEF Elapse
<1>2. /\ elapsed \in Nat /\ elapsed' = elapsed + d /\ elapsed' <= MaxElapsed
      /\ d \in 0 .. CLOCK - 1 /\ d \in Nat
  BY Constants DEF Elapse, TypeOK
<1>3. Age(i) \in Nat /\ Age(i) <= elapsed /\ Age(i) + d < CLOCK
  BY <1>2, EntryTypes, Constants DEF AgeInv
<1>4. now \in 0 .. CLOCK - 1 /\ entries[i].ts \in 0 .. CLOCK - 1
  BY EntryTypes DEF TypeOK, Times
<1>5. (((now + d) % CLOCK) - entries[i].ts) % CLOCK = ((now - entries[i].ts) % CLOCK) + d
  BY <1>2, <1>3, <1>4, Constants, SinceLater DEF Age
<1>6. Age(i)' = Age(i) + d
  BY <1>1, <1>5 DEF Age
<1>7. Active(i)' => Active(i)
  <2>1. Active(i) <=> Age(i) < DEDUP_TTL_MS
    BY DEF Active, Age, Used
  <2>2. Active(i)' <=> Age(i)' < DEDUP_TTL_MS
    BY <1>1 DEF Active, Age, Used
  <2> QED
    BY <1>2, <1>3, <1>6, <2>1, <2>2, Constants
<1> QED
  BY <1>1, <1>2, <1>3, <1>6, <1>7 DEF Used

LEMMA ActiveAge ==
    ASSUME NEW i \in Ring
    PROVE  Active(i) <=> Used(i) /\ Age(i) < DEDUP_TTL_MS
BY DEF Active, Used, Age

\* The slot at the cursor becomes the youngest; the order of the others stays.
LEMMA CursorMoves ==
    ASSUME next \in Ring, next' = NextCursor, NEW i \in Ring, NEW j \in Ring
    PROVE  Older(i, j)' <=> \/ i # next /\ j # next /\ Older(i, j)
                            \/ i # next /\ j = next
<1>1. /\ next' = IF next + 1 = DEDUP_SIZE THEN 0 ELSE next + 1
      /\ next \in 0 .. DEDUP_SIZE - 1 /\ DEDUP_SIZE \in Nat
      /\ i \in 0 .. DEDUP_SIZE - 1 /\ j \in 0 .. DEDUP_SIZE - 1
  BY CursorTurns, Constants DEF Ring
<1>2. CASE next + 1 = DEDUP_SIZE
  <2>1. next' = 0 /\ (Older(i, j)' <=> i < j)
    BY <1>1, <1>2 DEF Older
  <2> QED
    BY <1>1, <1>2, <2>1 DEF Older
<1>3. CASE next + 1 # DEDUP_SIZE
  <2>1. next' = next + 1
    BY <1>1, <1>3
  <2> QED
    BY <1>1, <1>3, <2>1 DEF Older
<1> QED
  BY <1>2, <1>3

LEMMA AcceptOrder ==
    ASSUME TypeOK, AgeInv, OrderInv, NEW k \in Keys, Accept(k)
    PROVE  AgeInv' /\ OrderInv'
<1>1. next \in Ring /\ next' = NextCursor /\ elapsed' = elapsed /\ elapsed \in Nat
  BY DEF TypeOK, Accept
<1>2. AgeInv'
  BY <1>1, AcceptedRing DEF AgeInv
<1>3. ASSUME NEW i \in Ring, NEW j \in Ring, Older(i, j)', Used(i)'
      PROVE  Used(j)' /\ Age(j)' <= Age(i)'
  <2>1. i # next
    BY <1>1, <1>3, CursorMoves
  <2>2. Used(i) /\ Age(i)' = Age(i) /\ Age(i) \in Nat
    BY <1>3, <2>1, AcceptedRing, EntryTypes
  <2>3. CASE j = next
    BY <2>2, <2>3, AcceptedRing
  <2>4. CASE j # next
    <3>1. Older(i, j)
      BY <1>1, <1>3, <2>4, CursorMoves
    <3>2. Used(j) /\ Age(j) <= Age(i)
      BY <2>2, <3>1 DEF OrderInv
    <3> QED
      BY <2>2, <2>4, <3>2, AcceptedRing
  <2> QED
    BY <2>3, <2>4
<1> QED
  BY <1>2, <1>3 DEF OrderInv

LEMMA ElapseOrder ==
    ASSUME TypeOK, AgeInv, OrderInv, NEW d \in 1 .. MaxElapsed, Elapse(d)
    PROVE  AgeInv' /\ OrderInv'
<1>1. entries' = entries /\ next' = next
  BY DEF Elapse
<1>2. \A i \in Ring : Used(i)' <=> Used(i)
  BY <1>1 DEF Used
<1>3. AgeInv'
  BY <1>2, ElapsedRing DEF AgeInv
<1>4. ASSUME NEW i \in Ring, NEW j \in Ring, Older(i, j)', Used(i)'
      PROVE  Used(j)' /\ Age(j)' <= Age(i)'
  <2>1. Older(i, j) /\ Used(i)
    BY <1>1, <1>2, <1>4 DEF Older
  <2>2. Used(j) /\ Age(j) <= Age(i)
    BY <2>1 DEF OrderInv
  <2>3. Age(i)' = Age(i) + d /\ Age(j)' = Age(j) + d /\ Used(j)'
    BY <2>1, <2>2, ElapsedRing
  <2>4. Age(i) \in Nat /\ Age(j) \in Nat /\ d \in Nat
    BY <2>1, <2>2, EntryTypes
  <2> QED
    BY <2>2, <2>3, <2>4
<1> QED
  BY <1>3, <1>4 DEF OrderInv

----------------------------------------------------------------------------
(* Keys and what is owed to them                                           *)

LEMMA AcceptKeys ==
    ASSUME TypeOK, KeyInv, NEW k \in Keys, Accept(k)
    PROVE  KeyInv'
<1>1. /\ left' = [left EXCEPT ![k] = DEDUP_TTL_MS] /\ ~IsDuplicate(k)
      /\ left'[k] = DEDUP_TTL_MS
  BY DEF TypeOK, Accept
<1>2. ASSUME NEW i \in Ring, i # next, Active(i)'
      PROVE  /\ Active(i) /\ entries'[i] = entries[i] /\ entries[i].key # k
             /\ Age(i)' = Age(i) /\ left'[entries[i].key] = left[entries[i].key]
  <2>1. Active(i) /\ entries'[i] = entries[i] /\ Age(i)' = Age(i)
    BY <1>2, AcceptedRing
  <2>2. entries[i].key # k
    BY <1>1, <2>1 DEF IsDuplicate
  <2>3. entries[i].key \in Keys
    BY <2>1, EntryTypes DEF Active, Used
  <2> QED
    BY <1>1, <2>1, <2>2, <2>3 DEF TypeOK
<1>3. ASSUME NEW i \in Ring, Active(i)'
      PROVE  left'[entries'[i].key] >= DEDUP_TTL_MS - Age(i)'
  <2>1. CASE i = next
    BY <1>1, <2>1, AcceptedRing, Constants
  <2>2. CASE i # next
    BY <1>2, <1>3, <2>2 DEF KeyInv
  <2> QED
    BY <2>1, <2>2
<1>4. ASSUME NEW i \in Ring, NEW j \in Ring,
             Active(i)', Active(j)', entries'[i].key = entries'[j].key
      PROVE  i = j
  <2>1. CASE i # next /\ j # next
    BY <1>2, <1>4, <2>1 DEF KeyInv
  <2>2. CASE i # next /\ j = next
    BY <1>2, <1>4, <2>2, AcceptedRing
  <2>3. CASE i = next /\ j # next
    BY <1>2, <1>4, <2>3, AcceptedRing
  <2> QED
    BY <2>1, <2>2, <2>3
<1> QED
  BY <1>3, <1>4 DEF KeyInv

LEMMA ElapsedLeft ==
    ASSUME TypeOK, NEW d \in 1 .. MaxElapsed, Elapse(d), NEW k \in Keys
    PROVE  /\ left[k] \in Nat /\ d \in Nat
           /\ left'[k] = IF left[k] > d THEN left[k] - d ELSE 0
BY DEF TypeOK, Elapse

LEMMA ElapseKeys ==
    ASSUME TypeOK, AgeInv, KeyInv, NEW d \in 1 .. MaxElapsed, Elapse(d)
    PROVE  KeyInv'
<1>1. entries' = entries
  BY DEF Elapse
<1>2. ASSUME NEW i \in Ring, Active(i)'
      PROVE  Active(i) /\ Age(i)' = Age(i) + d /\ Age(i) \in Nat
  <2>1. Used(i)
    BY <1>1, <1>2 DEF Active, Used
  <2> QED
    BY <1>2, <2>1, ElapsedRing, EntryTypes
<1>3. ASSUME NEW i \in Ring, Active(i)'
      PROVE  left'[entries'[i].key] >= DEDUP_TTL_MS - Age(i)'
  <2>1. Active(i) /\ Age(i)' = Age(i) + d /\ Age(i) \in Nat
    BY <1>2, <1>3
  <2>2. Age(i)' < DEDUP_TTL_MS
    BY <1>3 DEF Active, Age
  <2>3. left[entries[i].key] >= DEDUP_TTL_MS - Age(i)
    BY <2>1 DEF KeyInv
  <2>4. entries[i].key \in Keys
    BY <2>1, EntryTypes, ActiveAge
  <2> QED
    BY <1>1, <2>1, <2>2, <2>3, <2>4, ElapsedLeft, Constants
<1>4. ASSUME NEW i \in Ring, NEW j \in Ring,
             Active(i)', Active(j)', entries'[i].key = entries'[j].key
      PROVE  i = j
  BY <1>1, <1>2, <1>4 DEF KeyInv
<1> QED
  BY <1>3, <1>4 DEF KeyInv

LEMMA AcceptMark ==
    ASSUME TypeOK, MarkInv, NEW k \in Keys, Accept(k)
    PROVE  MarkInv'
<1>1. /\ next \in Ring /\ evictedLive \in Nat
      /\ evictedLive' = IF Active(next) THEN evictedLive + 1 ELSE evictedLive
      /\ left' = [left EXCEPT ![k] = DEDUP_TTL_MS]
      /\ mark' = [mark EXCEPT ![k] = evictedLive']
      /\ ~IsDuplicate(k)
  BY DEF TypeOK, Accept
<1>2. \A j \in Keys : mark[j] \in Nat
  BY Constants DEF TypeOK
<1>3. ASSUME NEW j \in Keys
      PROVE  /\ mark'[j] <= evictedLive'
             /\ left'[j] > 0 => \/ evictedLive' > mark'[j]
                                \/ \E i \in Ring : /\ Used(i)' /\ entries'[i].key = j
                                                   /\ left'[j] <= DEDUP_TTL_MS - Age(i)'
  <2>1. CASE j = k
    <3>1. left'[j] = DEDUP_TTL_MS /\ mark'[j] = evictedLive' /\ evictedLive' \in Nat
      BY <1>1, <2>1 DEF TypeOK
    <3>2. PICK i \in Ring : i = next
      BY <1>1
    <3>3. Used(i)' /\ entries'[i].key = j /\ Age(i)' = 0
      BY <2>1, <3>2, AcceptedRing
    <3> QED
      BY <3>1, <3>3, Constants
  <2>2. CASE j # k
    <3>1. left'[j] = left[j] /\ mark'[j] = mark[j]
      BY <1>1, <2>2 DEF TypeOK
    <3>2. mark[j] <= evictedLive /\ evictedLive <= evictedLive'
      BY <1>1 DEF MarkInv
    <3>3. ASSUME left[j] > 0, ~(evictedLive' > mark[j])
          PROVE  \E i \in Ring : /\ Used(i)' /\ entries'[i].key = j
                                 /\ left[j] <= DEDUP_TTL_MS - Age(i)'
      <4>1. ~(evictedLive > mark[j]) /\ ~Active(next)
        BY <1>1, <1>2, <3>2, <3>3
      <4>2. PICK i \in Ring : /\ Used(i) /\ entries[i].key = j
                              /\ left[j] <= DEDUP_TTL_MS - Age(i)
        BY <3>3, <4>1 DEF MarkInv
      <4>3. left[j] \in Nat /\ Age(i) \in Nat /\ DEDUP_TTL_MS \in Nat
        BY <4>2, EntryTypes, Constants DEF TypeOK
      <4>4. Active(i)
        BY <3>3, <4>2, <4>3, ActiveAge
      <4>5. i # next
        BY <4>1, <4>4
      <4> QED
        BY <4>2, <4>5, AcceptedRing
    <3> QED
      BY <1>1, <1>2, <3>1, <3>2, <3>3
  <2> QED
    BY <2>1, <2>2
<1> QED
  BY <1>3 DEF MarkInv

LEMMA ElapseMark ==
    ASSUME TypeOK, AgeInv, MarkInv, NEW d \in 1 .. MaxElapsed, Elapse(d)
    PROVE  MarkInv'
<1>1. UNCHANGED <<entries, evictedLive, mark>>
  BY DEF Elapse
<1>2. ASSUME NEW k \in Keys, left'[k] > 0, ~(evictedLive > mark[k])
      PROVE  \E i \in Ring : /\ Used(i)' /\ entries'[i].key = k
                             /\ left'[k] <= DEDUP_TTL_MS - Age(i)'
  <2>1. left[k] \in Nat /\ d \in Nat /\ left[k] > 0 /\ left'[k] = left[k] - d
    BY <1>2, ElapsedLeft
  <2>2. PICK i \in Ring : /\ Used(i) /\ entries[i].key = k
                          /\ left[k] <= DEDUP_TTL_MS - Age(i)
    BY <1>2, <2>1 DEF MarkInv
  <2>3. Used(i)' /\ Age(i)' = Age(i) + d /\ Age(i) \in Nat
    BY <2>2, ElapsedRing, EntryTypes
  <2> QED
    BY <1>1, <2>1, <2>2, <2>3, Constants
<1> QED
  BY <1>1, <1>2 DEF MarkInv

LEMMA NextCache == TypeOK /\ CacheInv /\ [Next]_vars => CacheInv'
<1> SUFFICES ASSUME TypeOK, CacheInv, [Next]_vars PROVE CacheInv'
  OBVIOUS
<1>1. ASSUME NEW k \in Keys, Accept(k) PROVE CacheInv'
  BY <1>1, AcceptOrder, AcceptKeys, AcceptMark DEF CacheInv
<1>2. ASSUME NEW d \in 1 .. MaxElapsed, Elapse(d) PROVE CacheInv'
  BY <1>2, ElapseOrder, ElapseKeys, ElapseMark DEF CacheInv
<1>3. CASE UNCHANGED vars
  BY <1>3 DEF vars, CacheInv, AgeInv, OrderInv, KeyInv, MarkInv, Older, Used, Age, Active
<1> QED
  BY <1>1, <1>2, <1>3 DEF Next, Duplicate

LEMMA CacheHolds == Spec => [](TypeOK /\ CacheInv)
<1>1. Init => CacheInv
  BY DEF Init, CacheInv, AgeInv, OrderInv, KeyInv, MarkInv, Used, Active
<1> QED
  BY <1>1, NextCache, CacheTypeCorrect, PTL DEF Spec

\* A frame that comes again within the TTL is recognised, on either side of the
\* turn of millis(), unless a live entry has been pushed out since it came.
THEOREM CopiesRecognised == Spec => []RecognisedWithinTTL
<1>1. TypeOK /\ CacheInv => RecognisedWithinTTL
  <2> SUFFICES ASSUME TypeOK, CacheInv, NEW k \in Keys, left[k] > 0, ~(evictedLive > mark[k])
               PROVE  IsDuplicate(k)
    BY DEF RecognisedWithinTTL
  <2>1. PICK i \in Ring : /\ Used(i) /\ entries[i].key = k
                          /\ left[k] <= DEDUP_TTL_MS - Age(i)
    BY DEF CacheInv, MarkInv
  <2>2. Age(i) \in Nat /\ left[k] \in Nat
    BY <2>1, EntryTypes DEF TypeOK
  <2>3. Active(i)
    BY <2>1, <2>2, ActiveAge, Constants
  <2> QED
    BY <2>1, <2>3 DEF IsDuplicate
<1> QED
  BY <1>1, CacheHolds, PTL

\* A key older than the TTL is never taken for a duplicate.
THEOREM OldKeysForgotten == Spec => []ForgottenAfterTTL
<1>1. TypeOK /\ CacheInv => ForgottenAfterTTL
  <2> SUFFICES ASSUME TypeOK, CacheInv, NEW k \in Keys, IsDuplicate(k) PROVE left[k] > 0
    BY DEF ForgottenAfterTTL
  <2>1. PICK i \in Ring : Active(i) /\ entries[i].key = k
    BY DEF IsDuplicate
  <2>2. /\ left[k] >= DEDUP_TTL_MS - Age(i) /\ Age(i) < DEDUP_TTL_MS
        /\ Age(i) \in Nat /\ left[k] \in Nat
    BY <2>1, ActiveAge, EntryTypes DEF CacheInv, KeyInv, TypeOK
  <2> QED
    BY <2>2, Constants
<1> QED
  BY <1>1, CacheHolds, PTL

\* When a live entry is pushed out the whole ring is live, with as many
\* different keys.
LEMMA EvictionCrowded ==
    ASSUME TypeOK, CacheInv, Active(next)
    PROVE  Cardinality({k \in Keys : left[k] > 0}) >= DEDUP_SIZE
<1> DEFINE Live == {k \in Keys : left[k] > 0}
           f == [i \in Ring |-> entries[i].key]
<1>1. next \in Ring /\ Ring = 0 .. DEDUP_SIZE - 1 /\ DEDUP_SIZE \in Nat
  BY Constants DEF TypeOK, Ring
<1>2. ASSUME NEW i \in Ring PROVE Active(i)
  <2>1. CASE i = next
    BY <2>1
  <2>2. CASE i # next
    <3>1. Older(next, i)
      BY <1>1, <2>2 DEF Older
    <3>2. Used(next) /\ Age(next) < DEDUP_TTL_MS /\ Age(next) \in Nat
      BY <1>1, ActiveAge, EntryTypes
    <3>3. Used(i) /\ Age(i) <= Age(next)
      BY <1>1, <3>1, <3>2 DEF CacheInv, OrderInv
    <3>4. Age(i) \in Nat
      BY <3>3, EntryTypes
    <3> QED
      BY <3>2, <3>3, <3>4, ActiveAge, Constants
  <2> QED
    BY <2>1, <2>2
<1>3. ASSUME NEW i \in Ring PROVE entries[i].key \in Live
  <2>1. /\ left[entries[i].key] >= DEDUP_TTL_MS - Age(i) /\ Age(i) < DEDUP_TTL_MS
        /\ Age(i) \in Nat /\ left[entries[i].key] \in Nat /\ entries[i].key \in Keys
    BY <1>2, ActiveAge, EntryTypes DEF CacheInv, KeyInv
  <2> QED
    BY <2>1, Constants
<1>4. f \in Injection(Ring, Live)
  <2>1. f \in [Ring -> Live]
    BY <1>3
  <2>2. \A i, j \in Ring : f[i] = f[j] => i = j
    BY <1>2 DEF CacheInv, KeyInv
  <2> QED
    BY <2>1, <2>2 DEF Injection, IsInjective
<1>5. IsFiniteSet(Live) /\ Cardinality(Live) \in Nat
  <2>1. IsFiniteSet(Keys) /\ Live \in SUBSET Keys
    BY DedupAssumption
  <2> QED
    BY <2>1, FS_Subset, FS_CardinalityType
<1>6. Cardinality(Ring) = DEDUP_SIZE
  <2>1. 0 \in Int /\ DEDUP_SIZE - 1 \in Int /\ ~(0 > DEDUP_SIZE - 1)
    BY Constants
  <2>2. Cardinality(0 .. DEDUP_SIZE - 1) = (DEDUP_SIZE - 1) - 0 + 1
    BY <2>1, FS_Interval
  <2> QED
    BY <1>1, <2>2
<1>7. Cardinality(Ring) <= Cardinality(Live)
  <2> HIDE DEF f, Live
  <2> QED
    BY <1>4, <1>5, FS_Injection
<1> QED
  BY <1>1, <1>5, <1>6, <1>7

\* A live entry is pushed out only when more different frames than DEDUP_SIZE
\* came within one TTL, never because of the way slots are reused.
THEOREM OnlyCrowdsEvict == Spec => EvictionMeansCrowded
<1>1. TypeOK /\ CacheInv /\ [Next]_vars
      => [evictedLive' # evictedLive
          => Cardinality({k \in Keys : left[k] > 0}) >= DEDUP_SIZE]_vars
  <2> SUFFICES ASSUME TypeOK, CacheInv, [Next]_vars, evictedLive' # evictedLive
               PROVE  Cardinality({k \in Keys : left[k] > 0}) >= DEDUP_SIZE
    OBVIOUS
  <2>1. Active(next)
    BY DEF Next, Accept, Duplicate, Elapse, vars
  <2> QED
    BY <2>1, EvictionCrowded
<1> QED
  BY <1>1, CacheHolds, PTL DEF Spec, EvictionMeansCrowded

----------------------------------------------------------------------------
(* The repeater uses the cache as it is                                    *)

\* Whatever the repeater does, its cache behaves as Dedup says, so that every
\* theorem above holds of it.
THEOREM RepeaterCache == RepeaterSpec => Spec
<1>1. RepeaterInit => Init
  BY DEF RepeaterInit
<1>2. [RepeaterNext]_repeaterVars => [Next]_vars
  BY DEF RepeaterNext, repeaterVars, HandleLocal, Forward, Refuse, DropDuplicate, Wait, Next
<1> QED
  BY <1>1, <1>2, PTL DEF RepeaterSpec, Spec

----------------------------------------------------------------------------
(* The frames of the last minute and the window they were counted in       *)

WindowAge == (now - fwdWindowStart) % CLOCK

\* The recent frames the current window has counted.
InWindow == {x \in Recent : x[1] <= WindowAge}

RateType ==
    /\ fwdWindowStart \in Times
    /\ fwdWindowCount \in 0 .. FWD_MAX_PER_MIN
    /\ passed \in [Ages -> Nat]

\* The count is that of the frames since the window began; those of the window
\* before are no more than the limit, and any older one is over a minute ago.
WindowInv ==
    /\ IsFiniteSet(Recent)
    /\ Cardinality(InWindow) <= fwdWindowCount
    /\ ~WindowOver => Cardinality(InWindow) = fwdWindowCount
    /\ Cardinality(Recent \ InWindow) <= FWD_MAX_PER_MIN
    /\ fwdWindowCount = 0 => Recent = {}
    /\ fwdWindowCount > 0 => WindowAge <= elapsed + MINUTE - 1
    /\ passed[0] > 0 => ~WindowOver

RateInv == RateType /\ WindowInv

LEMMA RateConstants ==
    /\ FWD_MAX_PER_MIN \in Nat \ {0} /\ MINUTE \in Nat \ {0}
    /\ MaxElapsed + MINUTE <= CLOCK /\ 0 \in Ages
  BY RepeaterAssumption DEF Ages

LEMMA WindowAgeType ==
    ASSUME TypeOK, RateType
    PROVE  WindowAge \in Nat /\ (WindowOver <=> WindowAge >= MINUTE)
<1>1. now - fwdWindowStart \in Int
  BY Constants DEF TypeOK, RateType, Times
<1> QED
  BY <1>1, Constants, Turn DEF WindowAge, WindowOver

LEMMA RecentElements ==
    ASSUME NEW x
    PROVE  x \in Recent <=> \E a \in Ages : \E i \in 1 .. passed[a] : x = <<a, i>>
BY DEF Recent

LEMMA RecentPairs ==
    ASSUME RateType, NEW x \in Recent
    PROVE  /\ x = <<x[1], x[2]>> /\ x[1] \in Ages /\ x[1] \in Nat /\ x[1] < MINUTE
           /\ x[2] \in 1 .. passed[x[1]] /\ x[2] \in Nat
<1>0. PICK a \in Ages : \E i \in 1 .. passed[a] : x = <<a, i>>
  BY RecentElements
<1>1. PICK i \in 1 .. passed[a] : x = <<a, i>>
  BY <1>0
<1>2. x[1] = a /\ x[2] = i /\ a \in Nat /\ a < MINUTE /\ passed[a] \in Nat
  BY <1>1, RateConstants DEF Ages, RateType
<1> QED
  BY <1>1, <1>2

LEMMA InWindowFinite ==
    ASSUME IsFiniteSet(Recent)
    PROVE  /\ IsFiniteSet(InWindow) /\ Cardinality(InWindow) \in Nat
           /\ IsFiniteSet(Recent \ InWindow) /\ Cardinality(Recent \ InWindow) \in Nat
           /\ Cardinality(InWindow) <= Cardinality(Recent) /\ Cardinality(Recent) \in Nat
<1>1. InWindow \in SUBSET Recent /\ Recent \ InWindow \in SUBSET Recent
  BY DEF InWindow
<1> QED
  BY <1>1, FS_Subset, FS_CardinalityType

\* A frame let through joins the recent ones at age 0.
LEMMA ForwardRecent ==
    ASSUME RateType, passed' = [passed EXCEPT ![0] = @ + 1]
    PROVE  /\ passed' \in [Ages -> Nat] /\ passed'[0] = passed[0] + 1 /\ passed[0] \in Nat
           /\ Recent' = Recent \cup {<<0, passed[0] + 1>>}
           /\ <<0, passed[0] + 1>> \notin Recent
<1>1. /\ passed' \in [Ages -> Nat] /\ passed[0] \in Nat /\ passed'[0] = passed[0] + 1
      /\ \A a \in Ages : a # 0 => passed'[a] = passed[a]
  BY RateConstants DEF RateType
<1>2. \A x : x \in Recent' <=> \E a \in Ages : \E i \in 1 .. passed'[a] : x = <<a, i>>
  BY DEF Recent
<1>3. ASSUME NEW x \in Recent' PROVE x \in Recent \cup {<<0, passed[0] + 1>>}
  <2>0. PICK a \in Ages : \E i \in 1 .. passed'[a] : x = <<a, i>>
    BY <1>2
  <2>1. PICK i \in 1 .. passed'[a] : x = <<a, i>>
    BY <2>0
  <2>2. CASE a # 0
    BY <1>1, <2>1, <2>2, RecentElements
  <2>3. CASE a = 0 /\ i # passed[0] + 1
    <3>1. i \in 1 .. passed[0]
      BY <1>1, <2>3
    <3> QED
      BY <2>1, <2>3, <3>1, RecentElements
  <2>4. CASE a = 0 /\ i = passed[0] + 1
    BY <2>1, <2>4
  <2> QED
    BY <2>2, <2>3, <2>4
<1>4. ASSUME NEW x \in Recent PROVE x \in Recent'
  <2>0. PICK a \in Ages : \E i \in 1 .. passed[a] : x = <<a, i>>
    BY RecentElements
  <2>1. PICK i \in 1 .. passed[a] : x = <<a, i>>
    BY <2>0
  <2>2. i \in 1 .. passed'[a]
    <3>1. passed[a] \in Nat /\ (passed'[a] = passed[a] \/ passed'[a] = passed[a] + 1)
      BY <1>1 DEF RateType
    <3> QED
      BY <3>1
  <2> QED
    BY <1>2, <2>1, <2>2
<1>5. <<0, passed[0] + 1>> \in Recent'
  <2>1. passed[0] + 1 \in 1 .. passed'[0]
    BY <1>1
  <2> QED
    BY <1>2, <2>1, RateConstants
<1>6. <<0, passed[0] + 1>> \notin Recent
  <2> SUFFICES ASSUME <<0, passed[0] + 1>> \in Recent PROVE FALSE
    OBVIOUS
  <2>0. PICK a \in Ages : \E i \in 1 .. passed[a] : <<0, passed[0] + 1>> = <<a, i>>
    BY RecentElements
  <2>1. PICK i \in 1 .. passed[a] : <<0, passed[0] + 1>> = <<a, i>>
    BY <2>0
  <2>2. passed[0] + 1 \in 1 .. passed[0]
    BY <2>1
  <2> QED
    BY <1>1, <2>2
<1> QED
  BY <1>1, <1>3, <1>4, <1>5, <1>6

\* Time moves the recent frames on and drops those a minute old.
LEMMA WaitRecent ==
    ASSUME RateType, NEW d \in Nat,
           passed' = [a \in Ages |-> IF a < d THEN 0 ELSE passed[a - d]]
    PROVE  /\ passed' \in [Ages -> Nat]
           /\ \A x \in Recent' : /\ x = <<x[1], x[2]>> /\ x[1] \in Nat /\ x[1] >= d
                                 /\ x[1] < MINUTE /\ <<x[1] - d, x[2]>> \in Recent
           /\ \A y \in Recent : y[1] + d < MINUTE => <<y[1] + d, y[2]>> \in Recent'
<1>1. Ages = 0 .. MINUTE - 1 /\ MINUTE \in Nat
  BY RateConstants DEF Ages
<1>2. \A a \in Ages : a >= d => a - d \in Ages
  BY <1>1
<1>3. \A a \in Ages : (IF a < d THEN 0 ELSE passed[a - d]) \in Nat
  BY <1>1, <1>2 DEF RateType
<1>4. passed' \in [Ages -> Nat]
  BY <1>3
<1>5. \A x : x \in Recent' <=> \E a \in Ages : \E i \in 1 .. passed'[a] : x = <<a, i>>
  BY DEF Recent
<1>6. ASSUME NEW x \in Recent'
      PROVE  /\ x = <<x[1], x[2]>> /\ x[1] \in Nat /\ x[1] >= d
             /\ x[1] < MINUTE /\ <<x[1] - d, x[2]>> \in Recent
  <2>0. PICK a \in Ages : \E i \in 1 .. passed'[a] : x = <<a, i>>
    BY <1>5
  <2>1. PICK i \in 1 .. passed'[a] : x = <<a, i>>
    BY <2>0
  <2>2. a \in Nat /\ a < MINUTE
    BY <1>1
  <2>3. passed'[a] = IF a < d THEN 0 ELSE passed[a - d]
    OBVIOUS
  <2>4. ~(a < d) /\ i \in 1 .. passed[a - d]
    BY <2>2, <2>3
  <2>5. <<a - d, i>> \in Recent
    BY <1>2, <2>2, <2>4, RecentElements
  <2> QED
    BY <2>1, <2>2, <2>4, <2>5
<1>7. ASSUME NEW y \in Recent, y[1] + d < MINUTE
      PROVE  <<y[1] + d, y[2]>> \in Recent'
  <2>1. y[1] \in Nat /\ y[2] \in 1 .. passed[y[1]]
    BY RecentPairs
  <2>2. y[1] + d \in Ages /\ ~(y[1] + d < d) /\ (y[1] + d) - d = y[1]
    BY <1>1, <1>7, <2>1
  <2>3. passed'[y[1] + d] = passed[y[1]]
    BY <2>2
  <2> QED
    BY <1>5, <2>1, <2>2, <2>3
<1> QED
  BY <1>4, <1>6, <1>7

\* Each frame that is still recent has its place among the recent ones before.
LEMMA Shift ==
    ASSUME NEW S, NEW T, NEW d \in Nat, IsFiniteSet(T),
           \A x \in S : /\ x = <<x[1], x[2]>> /\ x[1] \in Nat /\ x[1] >= d
                        /\ <<x[1] - d, x[2]>> \in T
    PROVE  /\ IsFiniteSet(S) /\ Cardinality(S) <= Cardinality(T)
           /\ (\A y \in T : /\ y = <<y[1], y[2]>> /\ y[1] \in Nat
                            /\ <<y[1] + d, y[2]>> \in S)
              => Cardinality(S) = Cardinality(T)
<1> DEFINE f == [x \in S |-> <<x[1] - d, x[2]>>]
<1>1. f \in [S -> T]
  OBVIOUS
<1>2. ASSUME NEW x \in S, NEW y \in S, f[x] = f[y] PROVE x = y
  <2>1. x[1] - d = y[1] - d /\ x[2] = y[2]
    BY <1>2
  <2>2. /\ x[1] \in Nat /\ y[1] \in Nat
        /\ x = <<x[1], x[2]>> /\ y = <<y[1], y[2]>>
    OBVIOUS
  <2>3. x[1] = y[1]
    BY <2>1, <2>2
  <2> QED
    BY <2>1, <2>2, <2>3
<1>3. f \in Injection(S, T)
  BY <1>1, <1>2 DEF Injection, IsInjective
<1>4. ASSUME \A y \in T : y = <<y[1], y[2]>> /\ y[1] \in Nat /\ <<y[1] + d, y[2]>> \in S
      PROVE  f \in Surjection(S, T)
  <2>1. ASSUME NEW y \in T PROVE \E x \in S : f[x] = y
    <3>1. <<y[1] + d, y[2]>> \in S /\ (y[1] + d) - d = y[1]
      BY <1>4
    <3>2. f[<<y[1] + d, y[2]>>] = y
      BY <1>4, <3>1
    <3> QED
      BY <3>1, <3>2
  <2> QED
    BY <1>1, <2>1 DEF Surjection
<1> HIDE DEF f
<1> QED
  BY <1>3, <1>4, FS_Injection

LEMMA WaitRate ==
    ASSUME TypeOK, RateInv, NEW d \in 1 .. MaxElapsed, Wait(d)
    PROVE  RateInv'
<1>1. /\ passed' = [a \in Ages |-> IF a < d THEN 0 ELSE passed[a - d]]
      /\ UNCHANGED <<fwdWindowStart, fwdWindowCount>>
      /\ now' = (now + d) % CLOCK
      /\ elapsed' = elapsed + d /\ elapsed + d <= MaxElapsed
  BY DEF Wait, Elapse
<1>2. d \in Nat /\ d >= 1 /\ d \in 0 .. CLOCK - 1 /\ elapsed \in Nat
  BY Constants DEF TypeOK
<1>3. /\ passed' \in [Ages -> Nat]
      /\ \A x \in Recent' : /\ x = <<x[1], x[2]>> /\ x[1] \in Nat /\ x[1] >= d
                            /\ x[1] < MINUTE /\ <<x[1] - d, x[2]>> \in Recent
      /\ \A y \in Recent : y[1] + d < MINUTE => <<y[1] + d, y[2]>> \in Recent'
  BY <1>1, <1>2, WaitRecent DEF RateInv
<1>4. RateType'
  BY <1>1, <1>3 DEF RateInv, RateType
<1>5. IsFiniteSet(Recent')
  BY <1>2, <1>3, Shift DEF RateInv, WindowInv
<1>6. passed'[0] = 0
  BY <1>1, <1>2, RateConstants
<1>7. CASE fwdWindowCount = 0
  <2>1. Recent = {} /\ Recent' = {}
    BY <1>3, <1>7 DEF RateInv, WindowInv
  <2>2. InWindow' = {} /\ Cardinality({}) = 0
    BY <2>1, FS_EmptySet DEF InWindow
  <2>3. (Recent \ InWindow)' = {}
    BY <2>1
  <2> QED
    BY <1>1, <1>4, <1>5, <1>6, <1>7, <2>1, <2>2, <2>3, RateConstants
       DEF RateInv, WindowInv
<1>8. CASE fwdWindowCount > 0
  <2>1. WindowAge \in Nat /\ (WindowOver <=> WindowAge >= MINUTE)
    BY WindowAgeType DEF RateInv
  <2>2. WindowAge <= elapsed + MINUTE - 1 /\ WindowAge + d < CLOCK
    BY <1>1, <1>2, <1>8, <2>1, Constants, RateConstants DEF RateInv, WindowInv
  <2>3. WindowAge' = WindowAge + d
    <3>1. now \in 0 .. CLOCK - 1 /\ fwdWindowStart \in 0 .. CLOCK - 1
      BY DEF TypeOK, RateInv, RateType, Times
    <3> QED
      BY <1>1, <1>2, <2>2, <3>1, Constants, SinceLater DEF WindowAge
  <2>4. WindowOver' <=> WindowAge' >= MINUTE
    BY <1>1 DEF WindowOver, WindowAge
  <2>5. \A x \in InWindow' : /\ x = <<x[1], x[2]>> /\ x[1] \in Nat /\ x[1] >= d
                             /\ <<x[1] - d, x[2]>> \in InWindow
    <3> SUFFICES ASSUME NEW x \in InWindow'
                 PROVE  /\ x = <<x[1], x[2]>> /\ x[1] \in Nat /\ x[1] >= d
                        /\ <<x[1] - d, x[2]>> \in InWindow
      OBVIOUS
    <3>1. x \in Recent' /\ x[1] <= WindowAge + d
      BY <2>3 DEF InWindow
    <3>2. x[1] \in Nat
      BY <1>3, <3>1
    <3>3. x[1] - d <= WindowAge
      BY <1>2, <2>1, <3>1, <3>2
    <3> QED
      BY <1>3, <3>1, <3>3 DEF InWindow
  <2>6. \A x \in (Recent \ InWindow)' :
            /\ x = <<x[1], x[2]>> /\ x[1] \in Nat /\ x[1] >= d
            /\ <<x[1] - d, x[2]>> \in Recent \ InWindow
    <3> SUFFICES ASSUME NEW x \in (Recent \ InWindow)'
                 PROVE  /\ x = <<x[1], x[2]>> /\ x[1] \in Nat /\ x[1] >= d
                        /\ <<x[1] - d, x[2]>> \in Recent \ InWindow
      OBVIOUS
    <3>1. x \in Recent' /\ ~(x[1] <= WindowAge + d)
      BY <2>3 DEF InWindow
    <3>2. x[1] \in Nat
      BY <1>3, <3>1
    <3>3. ~(x[1] - d <= WindowAge)
      BY <1>2, <2>1, <3>1, <3>2
    <3> QED
      BY <1>3, <3>1, <3>3 DEF InWindow
  <2>7. /\ IsFiniteSet(InWindow) /\ Cardinality(InWindow) \in Nat
        /\ IsFiniteSet(Recent \ InWindow) /\ Cardinality(Recent \ InWindow) \in Nat
    BY InWindowFinite DEF RateInv, WindowInv
  <2>8. IsFiniteSet(InWindow') /\ Cardinality(InWindow') <= Cardinality(InWindow)
    BY <1>2, <2>5, <2>7, Shift
  <2>9. /\ IsFiniteSet((Recent \ InWindow)')
        /\ Cardinality((Recent \ InWindow)') <= Cardinality(Recent \ InWindow)
    BY <1>2, <2>6, <2>7, Shift
  <2>10. ASSUME ~WindowOver' PROVE Cardinality(InWindow') = fwdWindowCount
    <3>1. WindowAge + d < MINUTE /\ ~WindowOver
      BY <1>2, <2>1, <2>3, <2>4, <2>10, RateConstants
    <3>2. \A y \in InWindow : y = <<y[1], y[2]>> /\ y[1] \in Nat /\ <<y[1] + d, y[2]>> \in InWindow'
      <4> SUFFICES ASSUME NEW y \in InWindow
                   PROVE  /\ y = <<y[1], y[2]>> /\ y[1] \in Nat
                          /\ <<y[1] + d, y[2]>> \in InWindow'
        OBVIOUS
      <4>1. y \in Recent /\ y[1] <= WindowAge
        BY DEF InWindow
      <4>2. y = <<y[1], y[2]>> /\ y[1] \in Nat
        BY <4>1, RecentPairs DEF RateInv
      <4>3. y[1] + d < MINUTE /\ y[1] + d <= WindowAge'
        BY <1>2, <2>1, <2>3, <3>1, <4>1, <4>2, RateConstants
      <4>4. <<y[1] + d, y[2]>> \in Recent'
        BY <1>3, <4>1, <4>3
      <4> QED
        BY <4>2, <4>3, <4>4 DEF InWindow
    <3>3. Cardinality(InWindow') = Cardinality(InWindow)
      BY <1>2, <2>5, <2>7, <3>2, Shift
    <3> QED
      BY <3>1, <3>3 DEF RateInv, WindowInv
  <2>11. Cardinality(InWindow') \in Nat /\ Cardinality((Recent \ InWindow)') \in Nat
    BY <2>8, <2>9, FS_CardinalityType
  <2>12. /\ Cardinality(InWindow') <= fwdWindowCount
         /\ Cardinality((Recent \ InWindow)') <= FWD_MAX_PER_MIN
    BY <2>7, <2>8, <2>9, <2>11, RateConstants DEF RateInv, WindowInv, RateType
  <2>13. WindowAge' <= elapsed' + MINUTE - 1
    BY <1>1, <1>2, <2>1, <2>2, <2>3, RateConstants
  <2> QED
    BY <1>1, <1>4, <1>5, <1>6, <1>8, <2>10, <2>12, <2>13 DEF RateInv, WindowInv
<1> QED
  BY <1>7, <1>8 DEF RateInv, RateType

LEMMA ForwardRate ==
    ASSUME TypeOK, RateInv, NEW k \in Keys, Forward(k)
    PROVE  RateInv'
<1> DEFINE new == <<0, passed[0] + 1>>
<1>1. /\ WindowOver \/ BelowLimit
      /\ fwdWindowStart' = IF WindowOver THEN now ELSE fwdWindowStart
      /\ fwdWindowCount' = IF WindowOver THEN 1 ELSE fwdWindowCount + 1
      /\ passed' = [passed EXCEPT ![0] = @ + 1]
      /\ UNCHANGED <<now, elapsed>>
  BY DEF Forward, Accept
<1>2. /\ passed' \in [Ages -> Nat] /\ passed'[0] = passed[0] + 1 /\ passed[0] \in Nat
      /\ Recent' = Recent \cup {new} /\ new \notin Recent
  BY <1>1, ForwardRecent DEF RateInv
<1>3. WindowAge \in Nat /\ (WindowOver <=> WindowAge >= MINUTE)
  BY WindowAgeType DEF RateInv
<1>4. /\ IsFiniteSet(InWindow) /\ Cardinality(InWindow) \in Nat
      /\ IsFiniteSet(Recent \ InWindow) /\ Cardinality(Recent \ InWindow) \in Nat
  BY InWindowFinite DEF RateInv, WindowInv
<1>5. IsFiniteSet(Recent')
  BY <1>2, FS_AddElement DEF RateInv, WindowInv
<1>6. new[1] = 0
  OBVIOUS
<1>7. fwdWindowCount \in Nat /\ fwdWindowCount <= FWD_MAX_PER_MIN /\ elapsed \in Nat
  BY RateConstants, Constants DEF RateInv, RateType, TypeOK
<1> HIDE DEF new
<1>8. CASE WindowOver
  <2>1. fwdWindowStart' = now /\ fwdWindowCount' = 1
    BY <1>1, <1>8
  <2>2. WindowAge' = 0
    <3>1. now \in 0 .. CLOCK - 1
      BY DEF TypeOK, Times
    <3>2. (now - now) % CLOCK = 0
      BY <3>1, Since, Constants
    <3> QED
      BY <1>1, <2>1, <3>2 DEF WindowAge
  <2>3. ~WindowOver'
    <3>1. WindowOver' <=> WindowAge' >= MINUTE
      BY DEF WindowOver, WindowAge
    <3> QED
      BY <2>2, <3>1, RateConstants
  <2>4. passed[0] = 0
    BY <1>2, <1>8 DEF RateInv, WindowInv
  <2>5. \A x \in Recent : x[1] # 0 /\ x[1] \in Nat /\ x[1] <= WindowAge
    <3> SUFFICES ASSUME NEW x \in Recent PROVE x[1] # 0 /\ x[1] \in Nat /\ x[1] <= WindowAge
      OBVIOUS
    <3>1. x[1] \in Nat /\ x[1] < MINUTE /\ x[2] \in 1 .. passed[x[1]]
      BY RecentPairs DEF RateInv
    <3>2. x[1] # 0
      BY <2>4, <3>1
    <3> QED
      BY <1>3, <1>8, <3>1, <3>2, RateConstants
  <2>6. Recent \ InWindow = {} /\ InWindow = Recent
    BY <2>5 DEF InWindow
  <2>7. InWindow' = {new}
    <3>1. \A x \in Recent : ~(x[1] <= 0)
      BY <2>5
    <3> QED
      BY <1>2, <1>6, <2>2, <3>1 DEF InWindow
  <2>8. Cardinality(InWindow') = 1
    <3>1. Cardinality({} \cup {new}) = 0 + 1
      BY FS_EmptySet, FS_AddElement
    <3>2. {} \cup {new} = {new}
      OBVIOUS
    <3> QED
      BY <2>7, <3>1, <3>2
  <2>9. (Recent \ InWindow)' = Recent
    BY <1>2, <2>7
  <2>10. Cardinality(Recent) <= FWD_MAX_PER_MIN
    BY <1>4, <1>7, <2>6, RateConstants DEF RateInv, WindowInv
  <2>11. RateType'
    BY <1>1, <1>2, <2>1, RateConstants DEF RateType, TypeOK
  <2>12. WindowAge' <= elapsed' + MINUTE - 1
    BY <1>1, <1>7, <2>2, RateConstants
  <2> QED
    BY <1>5, <2>1, <2>3, <2>8, <2>9, <2>10, <2>11, <2>12 DEF RateInv, WindowInv
<1>9. CASE ~WindowOver
  <2>1. /\ fwdWindowStart' = fwdWindowStart /\ fwdWindowCount' = fwdWindowCount + 1
        /\ fwdWindowCount < FWD_MAX_PER_MIN
    BY <1>1, <1>9 DEF BelowLimit
  <2>2. WindowAge' = WindowAge /\ ~WindowOver'
    BY <1>1, <1>9, <2>1 DEF WindowAge, WindowOver
  <2>3. InWindow' = InWindow \cup {new} /\ new \notin InWindow
    <3>1. new[1] <= WindowAge
      BY <1>3, <1>6
    <3> QED
      BY <1>2, <2>2, <3>1 DEF InWindow
  <2>4. Cardinality(InWindow') = Cardinality(InWindow) + 1
    BY <1>4, <2>3, FS_AddElement
  <2>5. Cardinality(InWindow) = fwdWindowCount
    BY <1>9 DEF RateInv, WindowInv
  <2>6. (Recent \ InWindow)' = Recent \ InWindow
    BY <1>2, <2>3
  <2>7. RateType'
    BY <1>2, <1>7, <2>1, RateConstants DEF RateInv, RateType
  <2>8. WindowAge' <= elapsed' + MINUTE - 1
    BY <1>1, <1>3, <1>7, <1>9, <2>2, RateConstants
  <2>9. Cardinality(InWindow') = fwdWindowCount'
    BY <2>1, <2>4, <2>5
  <2>10. fwdWindowCount' > 0 /\ fwdWindowCount' <= fwdWindowCount'
    BY <1>7, <2>1
  <2> QED
    BY <1>5, <2>2, <2>6, <2>7, <2>8, <2>9, <2>10 DEF RateInv, WindowInv
<1> QED
  BY <1>8, <1>9

LEMMA NextRate == TypeOK /\ RateInv /\ [RepeaterNext]_repeaterVars => RateInv'
<1> SUFFICES ASSUME TypeOK, RateInv, [RepeaterNext]_repeaterVars PROVE RateInv'
  OBVIOUS
<1>1. ASSUME NEW k \in Keys, Forward(k) PROVE RateInv'
  BY <1>1, ForwardRate
<1>2. ASSUME NEW d \in 1 .. MaxElapsed, Wait(d) PROVE RateInv'
  BY <1>2, WaitRate
<1>3. CASE UNCHANGED <<rateVars, now, elapsed>>
  BY <1>3
     DEF rateVars, RateInv, RateType, WindowInv, InWindow, Recent, WindowAge, WindowOver
<1>4. ASSUME NEW k \in Keys, HandleLocal(k) \/ Refuse(k) \/ DropDuplicate(k)
      PROVE  UNCHANGED <<rateVars, now, elapsed>>
  BY <1>4 DEF HandleLocal, Refuse, DropDuplicate, Duplicate, Accept, vars
<1>5. UNCHANGED repeaterVars => UNCHANGED <<rateVars, now, elapsed>>
  BY DEF repeaterVars, vars
<1> QED
  BY <1>1, <1>2, <1>3, <1>4, <1>5 DEF RepeaterNext

LEMMA RateHolds == RepeaterSpec => [](TypeOK /\ RateInv)
<1>1. RepeaterInit => RateInv
  <2> SUFFICES ASSUME RepeaterInit PROVE RateInv
    OBVIOUS
  <2>1. /\ fwdWindowStart = 0 /\ fwdWindowCount = 0
        /\ passed = [a \in Ages |-> 0] /\ passed[0] = 0
    BY RateConstants DEF RepeaterInit
  <2>2. RateType
    BY <2>1, RateConstants, Constants DEF RateType, Times
  <2>3. Recent = {}
    <3>1. \A x : x \notin Recent
      BY <2>1, RecentElements
    <3> QED
      BY <3>1
  <2>4. InWindow = {} /\ Recent \ InWindow = {}
    BY <2>3 DEF InWindow
  <2> QED
    BY <2>1, <2>2, <2>3, <2>4, FS_EmptySet, RateConstants DEF RateInv, WindowInv
<1> QED
  BY <1>1, NextRate, RepeaterCache, CacheTypeCorrect, PTL DEF RepeaterSpec

\* The windows are fixed, so any sixty seconds see up to twice FWD_MAX_PER_MIN
\* forwards and never more, on either side of the turn of millis().
THEOREM StormsBounded == RepeaterSpec => []RateBounded
<1>1. RateInv => RateBounded
  <2> SUFFICES ASSUME RateInv PROVE RateBounded
    OBVIOUS
  <2>1. /\ IsFiniteSet(InWindow) /\ Cardinality(InWindow) \in Nat
        /\ IsFiniteSet(Recent \ InWindow) /\ Cardinality(Recent \ InWindow) \in Nat
    BY InWindowFinite DEF RateInv, WindowInv
  <2>2. /\ InWindow \cup (Recent \ InWindow) = Recent
        /\ InWindow \cap (Recent \ InWindow) = {}
    BY DEF InWindow
  <2>3. Cardinality(Recent) = Cardinality(InWindow) + Cardinality(Recent \ InWindow)
    <3>1. Cardinality(InWindow \cup (Recent \ InWindow))
              = Cardinality(InWindow) + Cardinality(Recent \ InWindow)
                - Cardinality(InWindow \cap (Recent \ InWindow))
      BY <2>1, FS_Union
    <3>2. Cardinality(InWindow \cap (Recent \ InWindow)) = 0
      BY <2>2, FS_EmptySet
    <3>3. Cardinality(Recent)
              = Cardinality(InWindow) + Cardinality(Recent \ InWindow) - 0
      BY <2>2, <3>1, <3>2
    <3> QED
      BY <2>1, <3>3
  <2>4. /\ Cardinality(InWindow) <= FWD_MAX_PER_MIN
        /\ Cardinality(Recent \ InWindow) <= FWD_MAX_PER_MIN
    BY <2>1, RateConstants DEF RateInv, RateType, WindowInv
  <2> QED
    BY <2>1, <2>3, <2>4, RateConstants DEF RateBounded, InLastMinute
<1> QED
  BY <1>1, RateHolds, PTL

\* No frame is refused for the rate unless that many were let through within
\* the last minute.
THEOREM QuietForwards == RepeaterSpec => RefusedOnlyWhenBusy
<1>1. RateInv /\ [RepeaterNext]_repeaterVars
      => [(\E k \in Keys : Refuse(k)) => InLastMinute >= FWD_MAX_PER_MIN]_repeaterVars
  <2> SUFFICES ASSUME RateInv, NEW k \in Keys, Refuse(k)
               PROVE  InLastMinute >= FWD_MAX_PER_MIN
    OBVIOUS
  <2>1. ~WindowOver /\ ~(fwdWindowCount < FWD_MAX_PER_MIN)
    BY DEF Refuse, BelowLimit
  <2>2. /\ Cardinality(InWindow) <= Cardinality(Recent)
        /\ Cardinality(InWindow) \in Nat /\ Cardinality(Recent) \in Nat
    BY InWindowFinite DEF RateInv, WindowInv
  <2>3. Cardinality(InWindow) = fwdWindowCount
    BY <2>1 DEF RateInv, WindowInv
  <2> QED
    BY <2>1, <2>2, <2>3, RateConstants DEF InLastMinute
<1> QED
  BY <1>1, RateHolds, PTL DEF RepeaterSpec, RefusedOnlyWhenBusy
=============================================================================
