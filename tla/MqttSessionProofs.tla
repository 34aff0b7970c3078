------------------------- MODULE MqttSessionProofs -------------------------
(***************************************************************************)
(* Types, and that a station that counts as discovered needs no further    *)
(* report: what the broker retains and what is queued amounts to its       *)
(* entities.                                                               *)
(*                                                                         *)
(* Bursts are loops over the queue; what they add to it is shown by        *)
(* induction on the loop (Climb).  The rest follows from two facts about   *)
(* the queue (OrderInv): of one topic no old message comes after a new     *)
(* one, and before BASE has heard of a rebuild there is no new one.        *)
(***************************************************************************)
EXTENDS MqttSession, SequenceTheorems, FiniteSetTheorems, WellFoundedInduction,
        TLAPS

(* Loops *)

\* A set of naturals has a least element: strict inclusion of the intervals
\* below them is well-founded.
LEMMA Least ==
  ASSUME NEW S \in SUBSET Nat, S # {}
  PROVE  \E m \in S : \A x \in S : m <= x
<1> DEFINE T == {0 .. x : x \in S}
<1>1. T \subseteq FiniteSubsetsOf(Nat)
  <2> SUFFICES ASSUME NEW x \in S PROVE 0 .. x \in FiniteSubsetsOf(Nat)
    OBVIOUS
  <2>1. IsFiniteSet(0 .. x)
    BY FS_Interval
  <2> QED
    BY <2>1 DEF FiniteSubsetsOf
<1>2. T # {}
  OBVIOUS
<1>3. PICK t \in T : \A u \in T : ~(<<u, t>> \in StrictSubsetOrdering(Nat))
  <2> HIDE DEF T
  <2> QED
    BY <1>1, <1>2, FS_StrictSubsetOrderingWellFounded, WFMin, Zenon
<1>4. PICK m \in S : t = 0 .. m
  OBVIOUS
<1>5. ASSUME NEW x \in S, x < m PROVE FALSE
  <2>1. 0 .. x \in T /\ 0 .. x \subseteq 0 .. m /\ 0 .. x # 0 .. m
    BY <1>5
  <2>2. <<0 .. x, t>> \in StrictSubsetOrdering(Nat)
    BY <2>1, <1>4 DEF StrictSubsetOrdering
  <2> QED
    BY <2>1, <2>2, <1>3
<1> QED
  BY <1>5

\* Induction up to n.
LEMMA Climb ==
  ASSUME NEW n \in Nat, NEW S, 0 \in S,
         \A i \in 1 .. n : i - 1 \in S => i \in S
  PROVE  0 .. n \subseteq S
<1> DEFINE Missing == (0 .. n) \ S
<1> SUFFICES ASSUME Missing # {} PROVE FALSE
  OBVIOUS
<1>1. Missing \in SUBSET Nat
  OBVIOUS
<1>2. PICK m \in Missing : \A x \in Missing : m <= x
  <2> HIDE DEF Missing
  <2> QED
    BY <1>1, Least
<1>3. m \in 1 .. n /\ m - 1 \in 0 .. n /\ ~(m <= m - 1)
  <2>1. m \in 0 .. n /\ m # 0
    OBVIOUS
  <2> QED
    BY <2>1
<1>4. m - 1 \in S
  BY <1>2, <1>3
<1> QED
  BY <1>3, <1>4

\* What a loop over values in X has reached after each of its n turns.
Reaches(f, n, X, start, step) ==
    /\ f \in [0 .. n -> X] /\ f[0] = start
    /\ \A i \in 1 .. n : f[i] = step[i][f[i - 1]]

LEMMA LoopRuns ==
  ASSUME NEW n \in Nat, NEW X, NEW start \in X, NEW step \in [1 .. n -> [X -> X]]
  PROVE  \E f : Reaches(f, n, X, start, step)
<1> DEFINE Runs(k, f) == f[0] = start /\ \A i \in 1 .. k : f[i] = step[i][f[i - 1]]
           S == {k \in 0 .. n : \E f \in [0 .. k -> X] : Runs(k, f)}
<1>1. 0 \in S
  <2>1. PICK h : h = [i \in 0 .. 0 |-> start]
    OBVIOUS
  <2>2. h \in [0 .. 0 -> X] /\ h[0] = start
    BY <2>1
  <2>3. \A i \in 1 .. 0 : FALSE
    OBVIOUS
  <2>4. Runs(0, h)
    BY <2>2, <2>3
  <2> HIDE DEF Runs
  <2> QED
    BY <2>2, <2>4
<1>2. ASSUME NEW k \in 1 .. n, k - 1 \in S
      PROVE  k \in S
  <2>1. PICK f \in [0 .. k - 1 -> X] : Runs(k - 1, f)
    BY <1>2
  <2> DEFINE g == [i \in 0 .. k |-> IF i = k THEN step[k][f[k - 1]] ELSE f[i]]
  <2>2. f[k - 1] \in X
    OBVIOUS
  <2>3. step[k][f[k - 1]] \in X
    BY <2>2
  <2>4. g \in [0 .. k -> X]
    BY <2>3
  <2>5. \A i \in 0 .. k - 1 : g[i] = f[i]
    OBVIOUS
  <2>6. g[k] = step[k][f[k - 1]]
    OBVIOUS
  <2> HIDE DEF g
  <2>7. ASSUME NEW i \in 1 .. k
        PROVE  g[i] = step[i][g[i - 1]]
    <3>1. i - 1 \in 0 .. k - 1
      OBVIOUS
    <3>2. g[i - 1] = f[i - 1]
      BY <3>1, <2>5
    <3>3. CASE i = k
      BY <3>2, <3>3, <2>6
    <3>4. CASE i # k
      <4>1. i \in 1 .. k - 1 /\ i \in 0 .. k - 1
        BY <3>4
      <4> QED
        BY <4>1, <3>2, <2>1, <2>5
    <3> QED
      BY <3>3, <3>4
  <2>8. g[0] = start
    <3>1. 0 \in 0 .. k - 1
      OBVIOUS
    <3> QED
      BY <3>1, <2>1, <2>5
  <2> QED
    BY <2>4, <2>7, <2>8
<1>3. 0 .. n \subseteq S
  <2> HIDE DEF S
  <2> QED
    BY <1>1, <1>2, Climb
<1>4. n \in S
  BY <1>3
<1> QED
  BY <1>4 DEF Reaches

----------------------------------------------------------------------------
(* What a burst does to the queue *)

Results == [queue : Seq(Messages), ok : BOOLEAN]

Occurs(m, s) == \E i \in 1 .. Len(s) : s[i] = m

\* s is q with messages of M behind it.
Grown(q, s, M) ==
    /\ Len(q) <= Len(s)
    /\ \A i \in 1 .. Len(q) : s[i] = q[i]
    /\ \A i \in 1 .. Len(s) : i > Len(q) => s[i] \in M

LEMMA PubEnqueueGrows ==
  ASSUME NEW r \in Results, NEW m \in Messages, Len(r.queue) <= PUB_QUEUE_SIZE
  PROVE  /\ PubEnqueue(r, m) \in Results
         /\ Len(PubEnqueue(r, m).queue) <= PUB_QUEUE_SIZE
         /\ Grown(r.queue, PubEnqueue(r, m).queue, {m})
         /\ PubEnqueue(r, m).ok => r.ok /\ Occurs(m, PubEnqueue(r, m).queue)
<1>1. r.queue \in Seq(Messages) /\ r.ok \in BOOLEAN /\ Len(r.queue) \in Nat
  BY LenProperties DEF Results
<1>2. CASE Full(r.queue)
  <2>1. PubEnqueue(r, m) = [r EXCEPT !.ok = FALSE]
    BY <1>2 DEF PubEnqueue
  <2>2. /\ PubEnqueue(r, m) \in Results /\ PubEnqueue(r, m).queue = r.queue
        /\ PubEnqueue(r, m).ok = FALSE
    BY <2>1 DEF Results
  <2> QED
    BY <2>2, <1>1 DEF Grown
<1>3. CASE ~Full(r.queue) /\ Pending(r.queue, m)
  <2>1. PubEnqueue(r, m) = r
    BY <1>3 DEF PubEnqueue
  <2>2. DOMAIN r.queue = 1 .. Len(r.queue)
    BY <1>1
  <2>3. Occurs(m, r.queue)
    BY <1>3, <2>2 DEF Pending, Occurs
  <2> QED
    BY <2>1, <2>3, <1>1 DEF Grown
<1>4. CASE ~Full(r.queue) /\ ~Pending(r.queue, m)
  <2>1. PubEnqueue(r, m) = [r EXCEPT !.queue = Append(@, m)]
    BY <1>4 DEF PubEnqueue
  <2>2. PICK s : s = Append(r.queue, m)
    OBVIOUS
  <2>3. /\ s \in Seq(Messages) /\ Len(s) = Len(r.queue) + 1
        /\ \A i \in 1 .. Len(r.queue) : s[i] = r.queue[i]
        /\ s[Len(r.queue) + 1] = m
    BY <2>2, <1>1, AppendProperties
  <2>4. /\ PubEnqueue(r, m) \in Results /\ PubEnqueue(r, m).queue = s
        /\ PubEnqueue(r, m).ok = r.ok
    BY <2>1, <2>2, <2>3 DEF Results
  <2>5. Len(r.queue) < PUB_QUEUE_SIZE
    BY <1>1, <1>4, MqttAssumption DEF Full
  <2>6. Len(s) <= PUB_QUEUE_SIZE
    BY <2>3, <2>5, <1>1, MqttAssumption
  <2>7. Len(r.queue) + 1 \in 1 .. Len(s)
    BY <2>3, <1>1
  <2>8. Occurs(m, s)
    BY <2>3, <2>7 DEF Occurs
  <2>9. \A i \in 1 .. Len(s) : i > Len(r.queue) => s[i] = m
    BY <2>3, <1>1
  <2>10. Grown(r.queue, s, {m})
    BY <2>3, <2>9, <1>1 DEF Grown
  <2> QED
    BY <2>4, <2>6, <2>8, <2>10
<1> QED
  BY <1>2, <1>3, <1>4

LEMMA GrownOn ==
  ASSUME NEW q \in Seq(Messages), NEW s \in Seq(Messages), NEW t \in Seq(Messages),
         NEW M, NEW N, N \subseteq M, Grown(q, s, M), Grown(s, t, N)
  PROVE  Grown(q, t, M) /\ \A m : Occurs(m, s) => Occurs(m, t)
<1>1. Len(q) \in Nat /\ Len(s) \in Nat /\ Len(t) \in Nat
  BY LenProperties
<1>2. Len(q) <= Len(s) /\ Len(s) <= Len(t)
  BY DEF Grown
<1>3. \A i \in 1 .. Len(s) : i \in 1 .. Len(t) /\ t[i] = s[i]
  BY <1>1, <1>2 DEF Grown
<1>4. \A i \in 1 .. Len(q) : t[i] = q[i]
  <2>1. \A i \in 1 .. Len(q) : i \in 1 .. Len(s) /\ s[i] = q[i]
    BY <1>1, <1>2 DEF Grown
  <2> QED
    BY <2>1, <1>3
<1>5. ASSUME NEW i \in 1 .. Len(t), i > Len(q)
      PROVE  t[i] \in M
  <2>1. CASE i > Len(s)
    BY <2>1 DEF Grown
  <2>2. CASE ~(i > Len(s))
    <3>1. i \in 1 .. Len(s)
      BY <2>2, <1>1
    <3>2. s[i] \in M
      BY <3>1, <1>5 DEF Grown
    <3> QED
      BY <3>1, <3>2, <1>3
  <2> QED
    BY <2>1, <2>2
<1>6. Len(q) <= Len(t)
  BY <1>1, <1>2
<1> QED
  BY <1>3, <1>4, <1>5, <1>6 DEF Grown, Occurs

LEMMA EnqueuedLoop ==
  ASSUME NEW q \in Seq(Messages), NEW burst \in Seq(Messages)
  PROVE  \E f \in [0 .. Len(burst) -> Results] :
            /\ f[0] = [queue |-> q, ok |-> TRUE]
            /\ \A i \in 1 .. Len(burst) : f[i] = PubEnqueue(f[i - 1], burst[i])
            /\ Enqueued(q, burst) = f[Len(burst)]
<1> DEFINE n == Len(burst)
           start == [queue |-> q, ok |-> TRUE]
           step == [i \in 1 .. n |-> [r \in Results |-> PubEnqueue(r, burst[i])]]
           Body(f) == [i \in 0 .. n |-> IF i = 0 THEN start
                                        ELSE PubEnqueue(f[i - 1], burst[i])]
           g == CHOOSE f : f = Body(f)
<1>1. n \in Nat /\ \A i \in 1 .. n : burst[i] \in Messages
  BY LenProperties, ElementOfSeq
<1>2. start \in Results
  BY DEF Results
<1>3. \A r \in Results, m \in Messages : PubEnqueue(r, m) \in Results
  <2> SUFFICES ASSUME NEW r \in Results, NEW m \in Messages
               PROVE  PubEnqueue(r, m) \in Results
    OBVIOUS
  <2>1. r.queue \in Seq(Messages) /\ Append(r.queue, m) \in Seq(Messages)
    BY AppendProperties DEF Results
  <2> QED
    BY <2>1 DEF PubEnqueue, Results
<1>4. step \in [1 .. n -> [Results -> Results]]
  BY <1>1, <1>3
<1>5. PICK f : Reaches(f, n, Results, start, step)
  <2> HIDE DEF step, start, n
  <2> QED
    BY <1>1, <1>2, <1>4, LoopRuns, Zenon
<1>6. \A i \in 1 .. n : f[i - 1] \in Results /\ f[i] = PubEnqueue(f[i - 1], burst[i])
  <2> SUFFICES ASSUME NEW i \in 1 .. n
               PROVE  f[i - 1] \in Results /\ f[i] = PubEnqueue(f[i - 1], burst[i])
    OBVIOUS
  <2>1. i - 1 \in 0 .. n
    BY <1>1
  <2>2. f[i - 1] \in Results
    BY <2>1, <1>5 DEF Reaches
  <2> QED
    BY <2>2, <1>5 DEF Reaches
<1>7. f = Body(f)
  <2>1. \A i \in 0 .. n : f[i] = IF i = 0 THEN start ELSE PubEnqueue(f[i - 1], burst[i])
    BY <1>1, <1>5, <1>6 DEF Reaches
  <2>2. f \in [0 .. n -> Results]
    BY <1>5 DEF Reaches
  <2> HIDE DEF start, n
  <2> QED
    BY <2>1, <2>2
<1>8. g = Body(g)
  <2> HIDE DEF Body
  <2> QED
    BY <1>7
<1>9. Enqueued(q, burst) = g[n]
  BY DEF Enqueued
<1>10. /\ g[0] = start
       /\ \A i \in 1 .. n : g[i] = PubEnqueue(g[i - 1], burst[i])
  <2>1. \A i \in 0 .. n : g[i] = IF i = 0 THEN start ELSE PubEnqueue(g[i - 1], burst[i])
    <3> HIDE DEF g, start, n
    <3> QED
      BY <1>8
  <2> HIDE DEF g, start, n
  <2> QED
    BY <1>1, <2>1
<1>11. \A i \in 0 .. n : g[i] \in Results
  <2> HIDE DEF g, start, n
  <2> DEFINE S == {i \in 0 .. n : g[i] \in Results}
  <2>1. 0 \in S
    BY <1>1, <1>2, <1>10
  <2>2. \A i \in 1 .. n : i - 1 \in S => i \in S
    BY <1>1, <1>3, <1>10
  <2>3. 0 .. n \subseteq S
    <3> HIDE DEF S
    <3> QED
      BY <1>1, <2>1, <2>2, Climb
  <2> QED
    BY <2>3
<1>12. g \in [0 .. n -> Results]
  <2> HIDE DEF g, start, n
  <2> QED
    BY <1>8, <1>11
<1> HIDE DEF g, start, n, Body, step
<1> QED
  BY <1>9, <1>10, <1>12 DEF n, start

\* What pubEnqueue() leaves behind: the queue within its bound, nothing but
\* messages of the burst behind the old ones, and all of them if it says so.
LEMMA BurstGrows ==
  ASSUME NEW q \in Seq(Messages), NEW burst \in Seq(Messages), NEW M,
         Len(q) <= PUB_QUEUE_SIZE, \A i \in 1 .. Len(burst) : burst[i] \in M
  PROVE  /\ Enqueued(q, burst) \in Results
         /\ Len(Enqueued(q, burst).queue) <= PUB_QUEUE_SIZE
         /\ Grown(q, Enqueued(q, burst).queue, M)
         /\ Enqueued(q, burst).ok =>
                \A i \in 1 .. Len(burst) : Occurs(burst[i], Enqueued(q, burst).queue)
<1>1. PICK n \in Nat : n = Len(burst)
  BY LenProperties
<1>2. PICK f \in [0 .. n -> Results] :
          /\ f[0] = [queue |-> q, ok |-> TRUE]
          /\ \A i \in 1 .. n : f[i] = PubEnqueue(f[i - 1], burst[i])
          /\ Enqueued(q, burst) = f[n]
  BY <1>1, EnqueuedLoop
<1>3. \A i \in 1 .. n : burst[i] \in Messages /\ burst[i] \in M
  BY <1>1, ElementOfSeq
<1> DEFINE Done(i) == /\ Len(f[i].queue) <= PUB_QUEUE_SIZE
                      /\ Grown(q, f[i].queue, M)
                      /\ f[i].ok => \A j \in 1 .. i : Occurs(burst[j], f[i].queue)
           S == {i \in 0 .. n : Done(i)}
<1>4. 0 \in S
  <2>1. Grown(q, q, M)
    BY LenProperties DEF Grown
  <2> QED
    BY <2>1, <1>2
<1>5. ASSUME NEW i \in 1 .. n, i - 1 \in S
      PROVE  i \in S
  <2>1. PICK r \in Results, m \in Messages :
            /\ r = f[i - 1] /\ m = burst[i] /\ f[i] = PubEnqueue(r, m)
    <3>1. i - 1 \in 0 .. n
      OBVIOUS
    <3> QED
      BY <3>1, <1>2, <1>3
  <2>2. /\ Len(r.queue) <= PUB_QUEUE_SIZE /\ Grown(q, r.queue, M)
        /\ r.ok => \A j \in 1 .. i - 1 : Occurs(burst[j], r.queue)
    BY <1>5, <2>1
  <2>3. /\ f[i] \in Results /\ Len(f[i].queue) <= PUB_QUEUE_SIZE
        /\ Grown(r.queue, f[i].queue, {m})
        /\ f[i].ok => r.ok /\ Occurs(m, f[i].queue)
    <3>1. /\ PubEnqueue(r, m) \in Results
          /\ Len(PubEnqueue(r, m).queue) <= PUB_QUEUE_SIZE
          /\ Grown(r.queue, PubEnqueue(r, m).queue, {m})
          /\ PubEnqueue(r, m).ok => r.ok /\ Occurs(m, PubEnqueue(r, m).queue)
      BY <2>2, PubEnqueueGrows
    <3> HIDE DEF Done, S
    <3> QED
      BY <3>1, <2>1, Zenon
  <2>4. r.queue \in Seq(Messages) /\ f[i].queue \in Seq(Messages)
    BY <2>3 DEF Results
  <2>5. {m} \subseteq M
    BY <1>3, <2>1
  <2>6. /\ Grown(q, f[i].queue, M)
        /\ \A x : Occurs(x, r.queue) => Occurs(x, f[i].queue)
    BY <2>2, <2>3, <2>4, <2>5, GrownOn
  <2>7. f[i].ok => \A j \in 1 .. i : Occurs(burst[j], f[i].queue)
    <3> SUFFICES ASSUME f[i].ok, NEW j \in 1 .. i PROVE Occurs(burst[j], f[i].queue)
      OBVIOUS
    <3>1. CASE j = i
      BY <3>1, <2>1, <2>3
    <3>2. CASE j # i
      <4>1. j \in 1 .. i - 1
        BY <3>2
      <4> QED
        BY <4>1, <2>2, <2>3, <2>6
    <3> QED
      BY <3>1, <3>2
  <2> QED
    BY <2>3, <2>6, <2>7
<1>6. Done(n)
  <2>1. 0 .. n \subseteq S
    <3> HIDE DEF S
    <3> QED
      BY <1>4, <1>5, Climb
  <2> QED
    BY <2>1
<1> QED
  BY <1>1, <1>2, <1>6

\* A message of a concatenation is one of its parts.
LEMMA Parts ==
  ASSUME NEW S, NEW a \in Seq(S), NEW b \in Seq(S)
  PROVE  /\ a \o b \in Seq(S)
         /\ \A m : Occurs(m, a \o b) <=> Occurs(m, a) \/ Occurs(m, b)
<1>1. PICK c : c = a \o b
  OBVIOUS
<1>2. /\ c \in Seq(S) /\ Len(c) = Len(a) + Len(b)
      /\ \A i \in 1 .. Len(c) :
            c[i] = IF i <= Len(a) THEN a[i] ELSE b[i - Len(a)]
  BY <1>1, ConcatProperties
<1>3. Len(a) \in Nat /\ Len(b) \in Nat
  BY LenProperties
<1>4. ASSUME NEW m, Occurs(m, c)
      PROVE  Occurs(m, a) \/ Occurs(m, b)
  <2>1. PICK i \in 1 .. Len(c) : c[i] = m
    BY <1>4 DEF Occurs
  <2>2. CASE i <= Len(a)
    BY <2>1, <2>2, <1>2, <1>3 DEF Occurs
  <2>3. CASE ~(i <= Len(a))
    <3>1. i - Len(a) \in 1 .. Len(b)
      BY <2>3, <1>2, <1>3
    <3> QED
      BY <2>1, <2>3, <3>1, <1>2 DEF Occurs
  <2> QED
    BY <2>2, <2>3
<1>5. ASSUME NEW m, Occurs(m, a)
      PROVE  Occurs(m, c)
  <2>1. PICK i \in 1 .. Len(a) : a[i] = m
    BY <1>5 DEF Occurs
  <2>2. i \in 1 .. Len(c) /\ c[i] = a[i]
    BY <1>2, <1>3
  <2> QED
    BY <2>1, <2>2 DEF Occurs
<1>6. ASSUME NEW m, Occurs(m, b)
      PROVE  Occurs(m, c)
  <2>1. PICK i \in 1 .. Len(b) : b[i] = m
    BY <1>6 DEF Occurs
  <2>2. /\ i + Len(a) \in 1 .. Len(c) /\ ~(i + Len(a) <= Len(a))
        /\ i + Len(a) - Len(a) = i
    BY <1>2, <1>3
  <2>3. c[i + Len(a)] = b[i]
    BY <1>2, <2>2
  <2> QED
    BY <2>1, <2>2, <2>3 DEF Occurs
<1> QED
  BY <1>1, <1>2, <1>4, <1>5, <1>6

----------------------------------------------------------------------------
(* What a burst says *)

KnownProfiles == Profiles \cup {NoProfile}

\* The message says of its entity what a node with profile p wants said.
Agrees(m, p) == (m.payload = "config") <=> Has(p, m.topic)

About(n, p) == {m \in Messages : m.topic \in NodeTopics(n) /\ Agrees(m, p)}

LEMMA ProfileType ==
  ASSUME NEW p \in KnownProfiles
  PROVE  p.relays \in 0 .. MAX_RELAYS_PER_NODE /\ p.sensors \in 0 .. MAX_SENSORS_PER_NODE
BY MqttAssumption DEF KnownProfiles, NoProfile

LEMMA NodeMessages ==
  ASSUME NEW n \in Nodes, NEW p \in KnownProfiles
  PROVE  /\ Config(n, "telemetry", 0) \in About(n, p)
         /\ Config(n, "online", 0) \in About(n, p)
         /\ \A i \in 1 .. p.relays : Config(n, "relay", i) \in About(n, p)
         /\ \A i \in 1 .. p.sensors : Config(n, "sensor", i) \in About(n, p)
         /\ \A i \in 1 .. MAX_RELAYS_PER_NODE - p.relays :
                Cleanup(n, "relay", p.relays + i) \in About(n, p)
         /\ \A i \in 1 .. MAX_SENSORS_PER_NODE - p.sensors :
                Cleanup(n, "sensor", p.sensors + i) \in About(n, p)
<1>1. PICK a \in Nat, b \in Nat, A \in Nat, B \in Nat :
          /\ a = p.relays /\ b = p.sensors /\ a <= A /\ b <= B
          /\ A = MAX_RELAYS_PER_NODE /\ B = MAX_SENSORS_PER_NODE
  BY ProfileType, MqttAssumption
<1>2. NodeTopics(n) \subseteq Topics
  BY DEF Topics
<1>3. /\ <<n, "telemetry", 0>> \in NodeTopics(n) /\ <<n, "online", 0>> \in NodeTopics(n)
      /\ \A i \in 1 .. A : <<n, "relay", i>> \in NodeTopics(n)
      /\ \A i \in 1 .. B : <<n, "sensor", i>> \in NodeTopics(n)
  BY <1>1 DEF NodeTopics
<1>4. /\ Config(n, "telemetry", 0) \in About(n, p)
      /\ Config(n, "online", 0) \in About(n, p)
  BY <1>2, <1>3 DEF Config, About, Messages, Agrees, Has
<1>5. ASSUME NEW i \in 1 .. a PROVE Config(n, "relay", i) \in About(n, p)
  <2>1. i \in 1 .. A /\ i <= a
    BY <1>1
  <2> QED
    BY <1>1, <1>2, <1>3, <2>1 DEF Config, About, Messages, Agrees, Has
<1>6. ASSUME NEW i \in 1 .. b PROVE Config(n, "sensor", i) \in About(n, p)
  <2>1. i \in 1 .. B /\ i <= b
    BY <1>1
  <2> QED
    BY <1>1, <1>2, <1>3, <2>1 DEF Config, About, Messages, Agrees, Has
<1>7. ASSUME NEW i \in 1 .. A - a PROVE Cleanup(n, "relay", a + i) \in About(n, p)
  <2>1. a + i \in 1 .. A /\ ~(a + i <= a)
    BY <1>1
  <2> QED
    BY <1>1, <1>2, <1>3, <2>1 DEF Cleanup, About, Messages, Agrees, Has
<1>8. ASSUME NEW i \in 1 .. B - b PROVE Cleanup(n, "sensor", b + i) \in About(n, p)
  <2>1. b + i \in 1 .. B /\ ~(b + i <= b)
    BY <1>1
  <2> QED
    BY <1>1, <1>2, <1>3, <2>1 DEF Cleanup, About, Messages, Agrees, Has
<1> QED
  BY <1>1, <1>4, <1>5, <1>6, <1>7, <1>8

\* A function on 1 .. k is a sequence, and each of its values occurs in it.
LEMMA Listed ==
  ASSUME NEW S, NEW k \in Nat, NEW f \in [1 .. k -> S]
  PROVE  f \in Seq(S) /\ \A i \in 1 .. k : Occurs(f[i], f)
<1>1. f \in Seq(S)
  BY SeqDef
<1>2. Len(f) = k
  BY <1>1, LenProperties
<1> QED
  BY <1>1, <1>2 DEF Occurs

\* The burst of publishDiscovery() has a message for every entity a node can
\* have, and all of them agree with the profile.
LEMMA NodeBurstSays ==
  ASSUME NEW n \in Nodes, NEW p \in KnownProfiles
  PROVE  /\ NodeBurst(n, p) \in Seq(About(n, p))
         /\ \A t \in NodeTopics(n) : \E m : Occurs(m, NodeBurst(n, p)) /\ m.topic = t
<1> DEFINE M == About(n, p)
           b1 == <<Config(n, "telemetry", 0)>>
           b2 == [i \in 1 .. p.relays |-> Config(n, "relay", i)]
           b3 == [i \in 1 .. p.sensors |-> Config(n, "sensor", i)]
           b4 == <<Config(n, "online", 0)>>
           b5 == [i \in 1 .. MAX_RELAYS_PER_NODE - p.relays |->
                     Cleanup(n, "relay", p.relays + i)]
           b6 == [i \in 1 .. MAX_SENSORS_PER_NODE - p.sensors |->
                     Cleanup(n, "sensor", p.sensors + i)]
<1>1. /\ p.relays \in Nat /\ p.sensors \in Nat
      /\ MAX_RELAYS_PER_NODE - p.relays \in Nat
      /\ MAX_SENSORS_PER_NODE - p.sensors \in Nat
  BY ProfileType, MqttAssumption
<1>2. /\ b2 \in Seq(M) /\ \A i \in 1 .. p.relays : Occurs(b2[i], b2)
      /\ b3 \in Seq(M) /\ \A i \in 1 .. p.sensors : Occurs(b3[i], b3)
      /\ b5 \in Seq(M)
      /\ \A i \in 1 .. MAX_RELAYS_PER_NODE - p.relays : Occurs(b5[i], b5)
      /\ b6 \in Seq(M)
      /\ \A i \in 1 .. MAX_SENSORS_PER_NODE - p.sensors : Occurs(b6[i], b6)
  <2>1. /\ b2 \in [1 .. p.relays -> M] /\ b3 \in [1 .. p.sensors -> M]
        /\ b5 \in [1 .. MAX_RELAYS_PER_NODE - p.relays -> M]
        /\ b6 \in [1 .. MAX_SENSORS_PER_NODE - p.sensors -> M]
    BY NodeMessages
  <2> HIDE DEF M, b2, b3, b5, b6
  <2> QED
    BY <1>1, <2>1, Listed
<1>3. /\ b1 \in Seq(M) /\ Occurs(Config(n, "telemetry", 0), b1)
      /\ b4 \in Seq(M) /\ Occurs(Config(n, "online", 0), b4)
  BY NodeMessages DEF Occurs
<1>4. NodeBurst(n, p) = b1 \o b2 \o b3 \o b4 \o b5 \o b6
  BY DEF NodeBurst
<1>5. /\ NodeBurst(n, p) \in Seq(M)
      /\ \A m : Occurs(m, b1) \/ Occurs(m, b2) \/ Occurs(m, b3) \/ Occurs(m, b4)
                  \/ Occurs(m, b5) \/ Occurs(m, b6)
               => Occurs(m, NodeBurst(n, p))
  <2> HIDE DEF M, b1, b2, b3, b4, b5, b6
  <2>1. /\ b1 \o b2 \in Seq(M)
        /\ \A m : Occurs(m, b1) \/ Occurs(m, b2) => Occurs(m, b1 \o b2)
    BY <1>2, <1>3, Parts
  <2>2. /\ b1 \o b2 \o b3 \in Seq(M)
        /\ \A m : Occurs(m, b1 \o b2) \/ Occurs(m, b3) => Occurs(m, b1 \o b2 \o b3)
    BY <1>2, <2>1, Parts
  <2>3. /\ b1 \o b2 \o b3 \o b4 \in Seq(M)
        /\ \A m : Occurs(m, b1 \o b2 \o b3) \/ Occurs(m, b4)
                    => Occurs(m, b1 \o b2 \o b3 \o b4)
    BY <1>3, <2>2, Parts
  <2>4. /\ b1 \o b2 \o b3 \o b4 \o b5 \in Seq(M)
        /\ \A m : Occurs(m, b1 \o b2 \o b3 \o b4) \/ Occurs(m, b5)
                    => Occurs(m, b1 \o b2 \o b3 \o b4 \o b5)
    BY <1>2, <2>3, Parts
  <2>5. /\ b1 \o b2 \o b3 \o b4 \o b5 \o b6 \in Seq(M)
        /\ \A m : Occurs(m, b1 \o b2 \o b3 \o b4 \o b5) \/ Occurs(m, b6)
                    => Occurs(m, b1 \o b2 \o b3 \o b4 \o b5 \o b6)
    BY <1>2, <2>4, Parts
  <2> QED
    BY <1>4, <2>1, <2>2, <2>3, <2>4, <2>5
<1>6. ASSUME NEW t \in NodeTopics(n)
      PROVE  \E m : Occurs(m, NodeBurst(n, p)) /\ m.topic = t
  <2>1. \/ t = <<n, "telemetry", 0>> \/ t = <<n, "online", 0>>
        \/ \E i \in 1 .. MAX_RELAYS_PER_NODE : t = <<n, "relay", i>>
        \/ \E i \in 1 .. MAX_SENSORS_PER_NODE : t = <<n, "sensor", i>>
    BY DEF NodeTopics
  <2>2. CASE t = <<n, "telemetry", 0>>
    <3>1. Occurs(Config(n, "telemetry", 0), NodeBurst(n, p))
      BY <1>3, <1>5
    <3> QED
      BY <3>1, <2>2 DEF Config
  <2>3. CASE t = <<n, "online", 0>>
    <3>1. Occurs(Config(n, "online", 0), NodeBurst(n, p))
      BY <1>3, <1>5
    <3> QED
      BY <3>1, <2>3 DEF Config
  <2>4. ASSUME NEW i \in 1 .. MAX_RELAYS_PER_NODE, t = <<n, "relay", i>>
        PROVE  \E m : Occurs(m, NodeBurst(n, p)) /\ m.topic = t
    <3>1. CASE i <= p.relays
      <4>1. i \in 1 .. p.relays
        BY <3>1, <1>1
      <4>2. b2[i] = Config(n, "relay", i)
        BY <4>1
      <4>3. Occurs(Config(n, "relay", i), NodeBurst(n, p))
        <5> HIDE DEF b2
        <5> QED
          BY <4>1, <4>2, <1>2, <1>5
      <4> QED
        BY <4>3, <2>4 DEF Config
    <3>2. CASE ~(i <= p.relays)
      <4>1. PICK j \in 1 .. MAX_RELAYS_PER_NODE - p.relays : p.relays + j = i
        <5>1. /\ i - p.relays \in 1 .. MAX_RELAYS_PER_NODE - p.relays
              /\ p.relays + (i - p.relays) = i
          BY <3>2, <1>1, MqttAssumption
        <5> QED
          BY <5>1
      <4>2. b5[j] = Cleanup(n, "relay", i)
        BY <4>1
      <4>3. Occurs(Cleanup(n, "relay", i), NodeBurst(n, p))
        <5> HIDE DEF b5
        <5> QED
          BY <4>1, <4>2, <1>2, <1>5
      <4>4. Cleanup(n, "relay", i).topic = t
        BY <2>4 DEF Cleanup
      <4> QED
        BY <4>3, <4>4, Zenon
    <3> QED
      BY <3>1, <3>2
  <2>5. ASSUME NEW i \in 1 .. MAX_SENSORS_PER_NODE, t = <<n, "sensor", i>>
        PROVE  \E m : Occurs(m, NodeBurst(n, p)) /\ m.topic = t
    <3>1. CASE i <= p.sensors
      <4>1. i \in 1 .. p.sensors
        BY <3>1, <1>1
      <4>2. b3[i] = Config(n, "sensor", i)
        BY <4>1
      <4>3. Occurs(Config(n, "sensor", i), NodeBurst(n, p))
        <5> HIDE DEF b3
        <5> QED
          BY <4>1, <4>2, <1>2, <1>5
      <4> QED
        BY <4>3, <2>5 DEF Config
    <3>2. CASE ~(i <= p.sensors)
      <4>1. PICK j \in 1 .. MAX_SENSORS_PER_NODE - p.sensors : p.sensors + j = i
        <5>1. /\ i - p.sensors \in 1 .. MAX_SENSORS_PER_NODE - p.sensors
              /\ p.sensors + (i - p.sensors) = i
          BY <3>2, <1>1, MqttAssumption
        <5> QED
          BY <5>1
      <4>2. b6[j] = Cleanup(n, "sensor", i)
        BY <4>1
      <4>3. Occurs(Cleanup(n, "sensor", i), NodeBurst(n, p))
        <5> HIDE DEF b6
        <5> QED
          BY <4>1, <4>2, <1>2, <1>5
      <4>4. Cleanup(n, "sensor", i).topic = t
        BY <2>5 DEF Cleanup
      <4> QED
        BY <4>3, <4>4, Zenon
    <3> QED
      BY <3>1, <3>2
  <2> QED
    BY <2>1, <2>2, <2>3, <2>4, <2>5
<1> QED
  BY <1>5, <1>6

----------------------------------------------------------------------------
(* What the broker comes to retain *)

LEMMA LastOf ==
  ASSUME NEW s \in Seq(Messages), NEW t, NEW i \in 1 .. Len(s), s[i].topic = t
  PROVE  \E k \in 1 .. Len(s) :
            /\ s[k].topic = t /\ i <= k
            /\ \A j \in 1 .. Len(s) : s[j].topic = t => j <= k
<1>1. PICK n \in Nat : n = Len(s)
  BY LenProperties
<1> DEFINE S == {x \in Nat : \A j \in 1 .. n : s[j].topic = t => j <= x}
<1>2. n \in S
  OBVIOUS
<1>3. PICK k \in S : \A x \in S : k <= x
  <2>1. S \in SUBSET Nat /\ S # {}
    BY <1>2
  <2> HIDE DEF S
  <2> QED
    BY <2>1, Least
<1>4. k \in 1 .. n /\ i <= k
  BY <1>1, <1>2, <1>3
<1>5. s[k].topic = t
  <2> SUFFICES ASSUME s[k].topic # t PROVE FALSE
    OBVIOUS
  <2>1. k - 1 \in S
    BY <1>4, <1>3
  <2>2. ~(k <= k - 1)
    BY <1>4
  <2> HIDE DEF S
  <2> QED
    BY <2>1, <2>2, <1>3
<1> QED
  BY <1>1, <1>3, <1>4, <1>5

LEMMA RetainedNone ==
  ASSUME NEW s \in Seq(Messages), NEW b \in BOOLEAN, NEW t,
         \A j \in 1 .. Len(s) : s[j].topic # t
  PROVE  Retained(b, s, t) <=> b
<1>1. DOMAIN s = 1 .. Len(s)
  BY LenProperties
<1> QED
  BY <1>1 DEF Retained

LEMMA RetainedLast ==
  ASSUME NEW s \in Seq(Messages), NEW b \in BOOLEAN, NEW t,
         NEW k \in 1 .. Len(s), s[k].topic = t,
         \A j \in 1 .. Len(s) : s[j].topic = t => j <= k
  PROVE  Retained(b, s, t) <=> s[k].payload = "config"
<1>1. PICK n \in Nat : n = Len(s) /\ DOMAIN s = 1 .. n
  BY LenProperties
<1> DEFINE at == {i \in DOMAIN s : s[i].topic = t}
<1>2. k \in at /\ \A j \in at : j <= k
  BY <1>1
<1>3. ASSUME NEW i \in at, \A j \in at : j <= i
      PROVE  i = k
  <2>1. k <= i /\ i <= k /\ i \in 1 .. n /\ k \in 1 .. n
    BY <1>1, <1>2, <1>3
  <2> QED
    BY <2>1
<1>4. Retained(b, s, t) <=> \/ at = {} /\ b
                            \/ \E i \in at : /\ \A j \in at : j <= i
                                             /\ s[i].payload = "config"
  BY DEF Retained
<1> HIDE DEF at
<1> QED
  BY <1>2, <1>3, <1>4

\* Messages of other topics change nothing.
LEMMA Untouched ==
  ASSUME NEW q \in Seq(Messages), NEW s \in Seq(Messages), NEW M, Grown(q, s, M),
         NEW t, \A m \in M : m.topic # t, NEW b \in BOOLEAN
  PROVE  Retained(b, s, t) <=> Retained(b, q, t)
<1>1. PICK k \in Nat, n \in Nat : k = Len(q) /\ n = Len(s)
  BY LenProperties
<1>2. /\ k <= n /\ \A i \in 1 .. k : i \in 1 .. n /\ s[i] = q[i]
      /\ \A i \in 1 .. n : ~(i \in 1 .. k) => s[i].topic # t
  BY <1>1 DEF Grown
<1>3. DOMAIN q = 1 .. k /\ DOMAIN s = 1 .. n
  BY <1>1, LenProperties
<1>4. {i \in DOMAIN s : s[i].topic = t} = {i \in DOMAIN q : q[i].topic = t}
  BY <1>2, <1>3
<1>5. \A i \in {i \in DOMAIN q : q[i].topic = t} : s[i] = q[i]
  BY <1>2, <1>3
<1> QED
  BY <1>4, <1>5 DEF Retained

LEMMA Split ==
  ASSUME NEW q \in Seq(Messages), NEW k \in 0 .. Len(q)
  PROVE  /\ SubSeq(q, 1, k) \in Seq(Messages) /\ Len(SubSeq(q, 1, k)) = k
         /\ \A i \in 1 .. k : SubSeq(q, 1, k)[i] = q[i]
         /\ SubSeq(q, k + 1, Len(q)) \in Seq(Messages)
         /\ Len(SubSeq(q, k + 1, Len(q))) = Len(q) - k
         /\ \A i \in 1 .. Len(q) - k : SubSeq(q, k + 1, Len(q))[i] = q[k + i]
<1>1. PICK n \in Nat : n = Len(q)
  BY LenProperties
<1>2. \A i \in 1 .. n : q[i] \in Messages
  BY <1>1, ElementOfSeq
<1>3. /\ SubSeq(q, 1, k) \in Seq(Messages) /\ Len(SubSeq(q, 1, k)) = k
      /\ \A i \in 1 .. k : SubSeq(q, 1, k)[i] = q[i]
  BY <1>1, <1>2, SubSeqProperties
<1>4. /\ SubSeq(q, k + 1, n) \in Seq(Messages)
      /\ Len(SubSeq(q, k + 1, n)) = n - k
      /\ \A i \in 1 .. n - k : SubSeq(q, k + 1, n)[i] = q[k + i]
  BY <1>1, <1>2, SubSeqProperties
<1> QED
  BY <1>1, <1>3, <1>4

\* What has been published and what is still queued amount to the whole queue.
LEMMA Delivered ==
  ASSUME NEW q \in Seq(Messages), NEW k \in 0 .. Len(q), NEW b \in BOOLEAN, NEW t
  PROVE  Retained(Retained(b, SubSeq(q, 1, k), t), SubSeq(q, k + 1, Len(q)), t)
            <=> Retained(b, q, t)
<1>1. PICK n \in Nat : n = Len(q)
  BY LenProperties
<1>2. PICK u \in Seq(Messages), v \in Seq(Messages) :
          /\ u = SubSeq(q, 1, k) /\ v = SubSeq(q, k + 1, Len(q))
          /\ Len(u) = k /\ \A i \in 1 .. k : u[i] = q[i]
          /\ Len(v) = n - k /\ \A i \in 1 .. n - k : v[i] = q[k + i]
  BY <1>1, Split
<1>3. PICK c \in BOOLEAN : c <=> Retained(b, u, t)
  OBVIOUS
<1>4. Retained(b, u, t) \in BOOLEAN
  BY DEF Retained
<1>5. Retained(Retained(b, u, t), v, t) <=> Retained(c, v, t)
  BY <1>3 DEF Retained
<1>6. CASE \A j \in 1 .. n : q[j].topic # t
  <2>1. \A j \in 1 .. k : u[j].topic # t
    <3>1. \A j \in 1 .. k : j \in 1 .. n
      BY <1>1
    <3> QED
      BY <3>1, <1>2, <1>6
  <2>2. \A j \in 1 .. n - k : v[j].topic # t
    <3>1. \A j \in 1 .. n - k : k + j \in 1 .. n
      BY <1>1
    <3> QED
      BY <3>1, <1>2, <1>6
  <2>3. Retained(b, u, t) <=> b
    BY <2>1, <1>2, RetainedNone
  <2>4. Retained(c, v, t) <=> c
    BY <2>2, <1>2, RetainedNone
  <2>5. Retained(b, q, t) <=> b
    BY <1>1, <1>6, RetainedNone
  <2> QED
    BY <2>3, <2>4, <2>5, <1>2, <1>3, <1>5
<1>7. ASSUME NEW h \in 1 .. n, q[h].topic = t
      PROVE  Retained(c, v, t) <=> Retained(b, q, t)
  <2>1. PICK l \in 1 .. n : q[l].topic = t /\ \A j \in 1 .. n : q[j].topic = t => j <= l
    BY <1>1, <1>7, LastOf
  <2>2. Retained(b, q, t) <=> q[l].payload = "config"
    BY <1>1, <2>1, RetainedLast
  <2>3. CASE l <= k
    <3>1. l \in 1 .. k /\ u[l] = q[l]
      BY <2>3, <1>1, <1>2
    <3>2. /\ l \in 1 .. Len(u) /\ u[l].topic = t
          /\ \A j \in 1 .. Len(u) : u[j].topic = t => j <= l
      <4>1. \A j \in 1 .. k : j \in 1 .. n
        BY <1>1
      <4> QED
        BY <4>1, <3>1, <1>2, <2>1
    <3>3. Retained(b, u, t) <=> u[l].payload = "config"
      BY <3>2, RetainedLast, Zenon
    <3>4. \A j \in 1 .. n - k : v[j].topic # t
      <4> SUFFICES ASSUME NEW j \in 1 .. n - k PROVE v[j].topic # t
        OBVIOUS
      <4>1. k + j \in 1 .. n /\ ~(k + j <= l)
        BY <2>3, <1>1
      <4>2. v[j] = q[k + j]
        BY <1>2
      <4> QED
        BY <4>1, <4>2, <2>1
    <3>5. Retained(c, v, t) <=> c
      BY <3>4, <1>2, RetainedNone
    <3> QED
      BY <3>1, <3>3, <3>5, <2>2, <1>3
  <2>4. CASE ~(l <= k)
    <3>1. l - k \in 1 .. n - k /\ v[l - k] = q[l]
      BY <2>4, <1>1, <1>2
    <3>2. /\ l - k \in 1 .. Len(v) /\ v[l - k].topic = t
          /\ \A j \in 1 .. Len(v) : v[j].topic = t => j <= l - k
      <4>1. \A j \in 1 .. n - k : k + j \in 1 .. n /\ (k + j <= l => j <= l - k)
        BY <1>1
      <4> QED
        BY <4>1, <3>1, <1>2, <2>1
    <3>3. Retained(c, v, t) <=> v[l - k].payload = "config"
      BY <3>2, RetainedLast, Zenon
    <3> QED
      BY <3>1, <3>3, <2>2
  <2> QED
    BY <2>3, <2>4
<1> QED
  BY <1>2, <1>5, <1>6, <1>7

----------------------------------------------------------------------------
(* The order of the messages in the queue *)

\* Every message about n says what profile p wants said.
Tells(q, n, p) == \A i \in 1 .. Len(q) : q[i].topic[1] = n => Agrees(q[i], p)

\* After a message that says so, no later one of its topic says otherwise.
NewLast(q, n, p) ==
    \A i, j \in 1 .. Len(q) :
        i <= j /\ q[i].topic = q[j].topic /\ q[i].topic[1] = n /\ Agrees(q[i], p)
            => Agrees(q[j], p)

\* With k the profile BASE knows and r the one station n reports: the messages
\* for r come last, and until BASE hears of r there are only messages for k.
Order(q, n, k, r) ==
    /\ NewLast(q, n, r)
    /\ k \notin {r, NoProfile} => Tells(q, n, k)

LEMMA TopicOwner ==
  ASSUME NEW n
  PROVE  StatsTopic(n)[1] = n /\ \A t \in NodeTopics(n) : t[1] = n
BY DEF StatsTopic, NodeTopics

\* Messages that all say the same cannot be out of order.
LEMMA TellsIsOrdered ==
  ASSUME NEW q \in Seq(Messages), NEW n, NEW p, NEW r, Tells(q, n, p)
  PROVE  NewLast(q, n, r)
<1> SUFFICES ASSUME NEW i \in 1 .. Len(q), NEW j \in 1 .. Len(q),
                    q[i].topic = q[j].topic, q[i].topic[1] = n, Agrees(q[i], r)
             PROVE  Agrees(q[j], r)
  BY DEF NewLast
<1>1. Agrees(q[i], p) /\ Agrees(q[j], p)
  BY DEF Tells
<1> QED
  BY <1>1 DEF Agrees

LEMMA TellsMore ==
  ASSUME NEW q \in Seq(Messages), NEW s \in Seq(Messages), NEW M, Grown(q, s, M),
         NEW n, NEW p, \A m \in M : m.topic[1] = n => Agrees(m, p), Tells(q, n, p)
  PROVE  Tells(s, n, p)
<1> SUFFICES ASSUME NEW i \in 1 .. Len(s), s[i].topic[1] = n
             PROVE  Agrees(s[i], p)
  BY DEF Tells
<1>1. CASE i > Len(q)
  BY <1>1 DEF Grown
<1>2. CASE ~(i > Len(q))
  <2>1. i \in 1 .. Len(q)
    BY <1>2, LenProperties
  <2>2. s[i] = q[i]
    BY <2>1 DEF Grown
  <2> QED
    BY <2>1, <2>2 DEF Tells
<1> QED
  BY <1>1, <1>2

LEMMA NewLastMore ==
  ASSUME NEW q \in Seq(Messages), NEW s \in Seq(Messages), NEW M, Grown(q, s, M),
         NEW n, NEW p, \A m \in M : m.topic[1] = n => Agrees(m, p), NewLast(q, n, p)
  PROVE  NewLast(s, n, p)
<1> SUFFICES ASSUME NEW i \in 1 .. Len(s), NEW j \in 1 .. Len(s), i <= j,
                    s[i].topic = s[j].topic, s[i].topic[1] = n, Agrees(s[i], p)
             PROVE  Agrees(s[j], p)
  BY DEF NewLast
<1>1. CASE j > Len(q)
  BY <1>1 DEF Grown
<1>2. CASE ~(j > Len(q))
  <2>1. i \in 1 .. Len(q) /\ j \in 1 .. Len(q)
    BY <1>2, LenProperties
  <2>2. s[i] = q[i] /\ s[j] = q[j]
    BY <2>1 DEF Grown
  <2> QED
    BY <2>1, <2>2 DEF NewLast
<1> QED
  BY <1>1, <1>2

\* What is added for r, or for the profile BASE knows, keeps the order.
LEMMA OrderKept ==
  ASSUME NEW q \in Seq(Messages), NEW s \in Seq(Messages), NEW M, Grown(q, s, M),
         NEW n, NEW k, NEW r, Order(q, n, k, r),
         \A m \in M : m.topic[1] = n => Agrees(m, k),
         k = r \/ k # NoProfile \/ \A m \in M : m.topic[1] = n => Agrees(m, r)
  PROVE  Order(s, n, k, r)
<1>1. CASE k \notin {r, NoProfile}
  <2>1. Tells(s, n, k)
    BY <1>1, TellsMore DEF Order
  <2> QED
    BY <2>1, TellsIsOrdered DEF Order
<1>2. CASE ~(k \notin {r, NoProfile})
  <2>1. \A m \in M : m.topic[1] = n => Agrees(m, r)
    BY <1>2
  <2>2. NewLast(s, n, r)
    BY <2>1, NewLastMore DEF Order
  <2> QED
    BY <1>2, <2>2 DEF Order
<1> QED
  BY <1>1, <1>2

LEMMA OrderOfSuffix ==
  ASSUME NEW q \in Seq(Messages), NEW k \in 0 .. Len(q), NEW n, NEW p
  PROVE  /\ Tells(q, n, p) => Tells(SubSeq(q, k + 1, Len(q)), n, p)
         /\ NewLast(q, n, p) => NewLast(SubSeq(q, k + 1, Len(q)), n, p)
<1>1. PICK v : v = SubSeq(q, k + 1, Len(q))
  OBVIOUS
<1>2. \A i \in 1 .. Len(v) : k + i \in 1 .. Len(q) /\ v[i] = q[k + i]
  <2>1. Len(q) \in Nat
    BY LenProperties
  <2>2. Len(v) = Len(q) - k /\ \A i \in 1 .. Len(q) - k : v[i] = q[k + i]
    BY <1>1, Split
  <2> QED
    BY <2>1, <2>2
<1>3. \A i, j \in 1 .. Len(v) : i <= j => k + i <= k + j
  OBVIOUS
<1>4. Tells(q, n, p) => Tells(v, n, p)
  BY <1>2 DEF Tells
<1>5. NewLast(q, n, p) => NewLast(v, n, p)
  <2> SUFFICES ASSUME NewLast(q, n, p), NEW i \in 1 .. Len(v), NEW j \in 1 .. Len(v),
                      i <= j, v[i].topic = v[j].topic, v[i].topic[1] = n,
                      Agrees(v[i], p)
               PROVE  Agrees(v[j], p)
    BY DEF NewLast
  <2>1. /\ k + i \in 1 .. Len(q) /\ k + j \in 1 .. Len(q) /\ k + i <= k + j
        /\ v[i] = q[k + i] /\ v[j] = q[k + j]
    BY <1>2, <1>3
  <2> QED
    BY <2>1 DEF NewLast
<1> QED
  BY <1>1, <1>4, <1>5

\* Once there is a message that says what p wants said, the broker comes to
\* retain what p has.
LEMMA Told ==
  ASSUME NEW q \in Seq(Messages), NEW n, NEW p, NewLast(q, n, p),
         NEW m, Occurs(m, q), Agrees(m, p), m.topic[1] = n, NEW b \in BOOLEAN
  PROVE  Retained(b, q, m.topic) <=> Has(p, m.topic)
<1>1. PICK i \in 1 .. Len(q) : q[i] = m
  BY DEF Occurs
<1>2. PICK k \in 1 .. Len(q) :
          /\ q[k].topic = m.topic /\ i <= k
          /\ \A j \in 1 .. Len(q) : q[j].topic = m.topic => j <= k
  BY <1>1, LastOf
<1>3. Agrees(q[k], p)
  BY <1>1, <1>2 DEF NewLast
<1>4. Retained(b, q, m.topic) <=> q[k].payload = "config"
  BY <1>2, RetainedLast
<1> QED
  BY <1>2, <1>3, <1>4 DEF Agrees

----------------------------------------------------------------------------
(* Announcements *)

LEMMA AboutOwner ==
  ASSUME NEW n, NEW p
  PROVE  /\ About(n, p) \subseteq Messages
         /\ \A m \in About(n, p) : m.topic \in NodeTopics(n) /\ m.topic[1] = n /\ Agrees(m, p)
BY TopicOwner DEF About

LEMMA Announced ==
  ASSUME NEW q \in Seq(Messages), Len(q) <= PUB_QUEUE_SIZE,
         NEW n \in Nodes, NEW p \in KnownProfiles
  PROVE  /\ PublishDiscovery(q, n, p) \in Results
         /\ Len(PublishDiscovery(q, n, p).queue) <= PUB_QUEUE_SIZE
         /\ Grown(q, PublishDiscovery(q, n, p).queue, About(n, p))
         /\ PublishDiscovery(q, n, p).ok /\ NewLast(q, n, p) =>
                \A t \in NodeTopics(n), b \in BOOLEAN :
                    Retained(b, PublishDiscovery(q, n, p).queue, t) <=> Has(p, t)
<1> DEFINE burst == NodeBurst(n, p)
<1>1. /\ burst \in Seq(About(n, p)) /\ burst \in Seq(Messages)
      /\ \A t \in NodeTopics(n) : \E m : Occurs(m, burst) /\ m.topic = t
  <2>1. /\ burst \in Seq(About(n, p))
        /\ \A t \in NodeTopics(n) : \E m : Occurs(m, burst) /\ m.topic = t
    BY NodeBurstSays
  <2>2. Seq(About(n, p)) \subseteq Seq(Messages)
    BY AboutOwner
  <2> QED
    BY <2>1, <2>2
<1>2. \A i \in 1 .. Len(burst) : burst[i] \in About(n, p)
  <2> HIDE DEF burst
  <2> QED
    BY <1>1, ElementOfSeq
<1>3. PICK r : r = PublishDiscovery(q, n, p)
  OBVIOUS
<1>4. r = Enqueued(q, burst)
  BY <1>3 DEF PublishDiscovery
<1>5. /\ r \in Results /\ Len(r.queue) <= PUB_QUEUE_SIZE
      /\ Grown(q, r.queue, About(n, p))
      /\ r.ok => \A i \in 1 .. Len(burst) : Occurs(burst[i], r.queue)
  <2> HIDE DEF burst
  <2>1. /\ Enqueued(q, burst) \in Results
        /\ Len(Enqueued(q, burst).queue) <= PUB_QUEUE_SIZE
        /\ Grown(q, Enqueued(q, burst).queue, About(n, p))
        /\ Enqueued(q, burst).ok =>
               \A i \in 1 .. Len(burst) : Occurs(burst[i], Enqueued(q, burst).queue)
    BY <1>1, <1>2, BurstGrows
  <2> QED
    BY <1>4, <2>1, Zenon
<1>6. ASSUME r.ok, NewLast(q, n, p), NEW t \in NodeTopics(n), NEW b \in BOOLEAN
      PROVE  Retained(b, r.queue, t) <=> Has(p, t)
  <2>1. PICK m : Occurs(m, burst) /\ m.topic = t
    BY <1>1
  <2>2. m \in About(n, p) /\ Occurs(m, r.queue)
    <3> HIDE DEF burst
    <3> QED
      BY <1>2, <1>5, <1>6, <2>1 DEF Occurs
  <2>3. r.queue \in Seq(Messages)
    BY <1>5 DEF Results
  <2>4. m.topic[1] = n /\ Agrees(m, p)
    BY <2>2, AboutOwner
  <2>5. NewLast(r.queue, n, p)
    BY <1>5, <1>6, <2>3, AboutOwner, NewLastMore
  <2>6. Retained(b, r.queue, m.topic) <=> Has(p, m.topic)
    BY <2>2, <2>3, <2>4, <2>5, Told
  <2> QED
    BY <2>1, <2>6
<1> QED
  BY <1>3, <1>5, <1>6

LEMMA StatsAnnounced ==
  ASSUME NEW q \in Seq(Messages), Len(q) <= PUB_QUEUE_SIZE,
         NEW n \in Repeaters, NEW p
  PROVE  /\ PublishStatusDiscovery(q, n) \in Results
         /\ Len(PublishStatusDiscovery(q, n).queue) <= PUB_QUEUE_SIZE
         /\ Grown(q, PublishStatusDiscovery(q, n).queue, {Config(n, "stats", 0)})
         /\ PublishStatusDiscovery(q, n).ok /\ NewLast(q, n, p) =>
                \A b \in BOOLEAN :
                    Retained(b, PublishStatusDiscovery(q, n).queue, StatsTopic(n))
<1>1. PICK m \in Messages :
          /\ m = Config(n, "stats", 0) /\ m.topic = StatsTopic(n) /\ m.topic[1] = n
          /\ Agrees(m, p) /\ Has(p, m.topic)
  <2>1. StatsTopic(n) \in Topics
    BY DEF Topics
  <2>2. /\ Config(n, "stats", 0).topic = StatsTopic(n)
        /\ Config(n, "stats", 0).payload = "config"
    BY DEF Config, StatsTopic
  <2>3. Config(n, "stats", 0) \in Messages
    BY <2>1 DEF Config, StatsTopic, Messages
  <2>4. StatsTopic(n)[1] = n /\ Has(p, StatsTopic(n))
    BY DEF StatsTopic, Has
  <2> QED
    BY <2>2, <2>3, <2>4 DEF Agrees
<1> DEFINE burst == <<m>>
<1>2. /\ burst \in Seq(Messages) /\ Occurs(m, burst)
      /\ \A i \in 1 .. Len(burst) : burst[i] = m
  BY DEF Occurs
<1>3. PICK r : r = PublishStatusDiscovery(q, n)
  OBVIOUS
<1>4. r = Enqueued(q, burst)
  BY <1>1, <1>3 DEF PublishStatusDiscovery
<1>5. /\ r \in Results /\ Len(r.queue) <= PUB_QUEUE_SIZE
      /\ Grown(q, r.queue, {m})
      /\ r.ok => \A i \in 1 .. Len(burst) : Occurs(burst[i], r.queue)
  <2> HIDE DEF burst
  <2>1. /\ Enqueued(q, burst) \in Results
        /\ Len(Enqueued(q, burst).queue) <= PUB_QUEUE_SIZE
        /\ Grown(q, Enqueued(q, burst).queue, {m})
        /\ Enqueued(q, burst).ok =>
               \A i \in 1 .. Len(burst) : Occurs(burst[i], Enqueued(q, burst).queue)
    BY <1>2, BurstGrows
  <2> QED
    BY <1>4, <2>1, Zenon
<1>6. ASSUME r.ok, NewLast(q, n, p), NEW b \in BOOLEAN
      PROVE  Retained(b, r.queue, StatsTopic(n))
  <2>1. Occurs(m, r.queue)
    <3> HIDE DEF burst
    <3> QED
      BY <1>2, <1>5, <1>6 DEF Occurs
  <2>2. r.queue \in Seq(Messages)
    BY <1>5 DEF Results
  <2>3. NewLast(r.queue, n, p)
    BY <1>1, <1>5, <1>6, <2>2, NewLastMore
  <2> QED
    BY <1>1, <2>1, <2>2, <2>3, Told
<1> QED
  BY <1>1, <1>3, <1>5, <1>6

LEMMA BaseAnnounced ==
  ASSUME NEW q \in Seq(Messages), Len(q) <= PUB_QUEUE_SIZE, NEW sent \in BOOLEAN
  PROVE  /\ SendBaseDiscovery(q, sent) \in Results
         /\ Len(SendBaseDiscovery(q, sent).queue) <= PUB_QUEUE_SIZE
         /\ Grown(q, SendBaseDiscovery(q, sent).queue, {Config(BASE_ID, "base", 0)})
<1>1. CASE sent
  <2>1. PICK r : r = [queue |-> q, ok |-> TRUE]
    OBVIOUS
  <2>2. r \in Results /\ r.queue = q
    BY <2>1 DEF Results
  <2>3. SendBaseDiscovery(q, sent) = r
    BY <1>1, <2>1 DEF SendBaseDiscovery
  <2>4. Grown(q, q, {Config(BASE_ID, "base", 0)})
    BY LenProperties DEF Grown
  <2> QED
    BY <2>2, <2>3, <2>4
<1>2. CASE ~sent
  <2>1. PICK m \in Messages : m = Config(BASE_ID, "base", 0)
    <3>1. BaseTopic \in Topics
      BY DEF Topics
    <3> QED
      BY <3>1 DEF Config, BaseTopic, Messages
  <2>2. /\ BaseBurst \in Seq(Messages)
        /\ \A i \in 1 .. Len(BaseBurst) : BaseBurst[i] \in {m}
    BY <2>1 DEF BaseBurst
  <2>3. SendBaseDiscovery(q, sent) = Enqueued(q, BaseBurst)
    BY <1>2 DEF SendBaseDiscovery
  <2> QED
    BY <2>1, <2>2, <2>3, BurstGrows
<1> QED
  BY <1>1, <1>2

(* The nodes BASE knows, one after the other *)

KnownResults == [queue : Seq(Messages), flags : [Nodes -> BOOLEAN]]

LEMMA AnnounceNodeType ==
  ASSUME known \in [Nodes -> KnownProfiles], NEW r \in KnownResults, NEW n \in Nodes
  PROVE  AnnounceNode(r, n) \in KnownResults
<1>1. NodeBurst(n, known[n]) \in Seq(Messages)
  <2>1. NodeBurst(n, known[n]) \in Seq(About(n, known[n]))
    BY NodeBurstSays
  <2>2. About(n, known[n]) \subseteq Messages
    BY AboutOwner
  <2>3. Seq(About(n, known[n])) \subseteq Seq(Messages)
    BY <2>2
  <2> QED
    BY <2>1, <2>3
<1>2. r.queue \in Seq(Messages) /\ r.flags \in [Nodes -> BOOLEAN]
  BY DEF KnownResults
<1>3. PICK b : b = PublishDiscovery(r.queue, n, known[n])
  OBVIOUS
<1>4. b \in Results
  <2>1. PICK burst \in Seq(Messages) : burst = NodeBurst(n, known[n])
    BY <1>1
  <2>2. PICK k \in Nat : k = Len(burst)
    BY LenProperties
  <2>3. PICK f \in [0 .. k -> Results] : Enqueued(r.queue, burst) = f[k]
    BY <1>2, <2>2, EnqueuedLoop
  <2> QED
    BY <1>3, <2>1, <2>3 DEF PublishDiscovery
<1>5. AnnounceNode(r, n) =
          [queue |-> b.queue,
           flags |-> IF b.ok THEN [r.flags EXCEPT ![n] = TRUE] ELSE r.flags]
  BY <1>3 DEF AnnounceNode
<1> QED
  BY <1>2, <1>4, <1>5 DEF KnownResults, Results

LEMMA KnownLoop ==
  ASSUME known \in [Nodes -> KnownProfiles], NEW q \in Seq(Messages)
  PROVE  \E f \in [0 .. MAX_NODE_ID -> KnownResults] :
            /\ f[0] = [queue |-> q, flags |-> LoraResetDiscovery]
            /\ \A i \in 1 .. MAX_NODE_ID :
                  f[i] = IF IsKnown(i) THEN AnnounceNode(f[i - 1], i) ELSE f[i - 1]
            /\ PublishKnownDiscovery(q) = f[MAX_NODE_ID]
<1> DEFINE n == MAX_NODE_ID
           start == [queue |-> q, flags |-> LoraResetDiscovery]
           Turn(r, i) == IF IsKnown(i) THEN AnnounceNode(r, i) ELSE r
           step == [i \in 1 .. n |-> [r \in KnownResults |-> Turn(r, i)]]
           Body(f) == [id \in 0 .. n |->
                          IF id = 0 THEN start
                          ELSE IF IsKnown(id) THEN AnnounceNode(f[id - 1], id)
                          ELSE f[id - 1]]
           g == CHOOSE f : f = Body(f)
<1>1. n \in Nat
  BY MqttAssumption
<1>2. start \in KnownResults
  BY DEF KnownResults, LoraResetDiscovery
<1>3. \A r \in KnownResults, i \in 1 .. n : Turn(r, i) \in KnownResults
  BY AnnounceNodeType DEF IsKnown
<1>4. step \in [1 .. n -> [KnownResults -> KnownResults]]
  <2> HIDE DEF Turn
  <2> QED
    BY <1>3
<1>5. PICK f : Reaches(f, n, KnownResults, start, step)
  <2> HIDE DEF step, start, n
  <2> QED
    BY <1>1, <1>2, <1>4, LoopRuns, Zenon
<1>6. \A i \in 1 .. n : f[i - 1] \in KnownResults /\ f[i] = Turn(f[i - 1], i)
  <2> SUFFICES ASSUME NEW i \in 1 .. n
               PROVE  f[i - 1] \in KnownResults /\ f[i] = Turn(f[i - 1], i)
    OBVIOUS
  <2> HIDE DEF Turn
  <2>1. i - 1 \in 0 .. n
    BY <1>1
  <2>2. f[i - 1] \in KnownResults
    BY <2>1, <1>5 DEF Reaches
  <2> QED
    BY <2>2, <1>5 DEF Reaches
<1>7. f = Body(f)
  <2>1. \A i \in 0 .. n : f[i] = IF i = 0 THEN start ELSE Turn(f[i - 1], i)
    <3> HIDE DEF Turn
    <3> QED
      BY <1>1, <1>5, <1>6 DEF Reaches
  <2>2. f \in [0 .. n -> KnownResults]
    BY <1>5 DEF Reaches
  <2> HIDE DEF start, n
  <2> QED
    BY <2>1, <2>2
<1>8. g = Body(g)
  <2> HIDE DEF Body
  <2> QED
    BY <1>7
<1>9. PublishKnownDiscovery(q) = g[n]
  BY DEF PublishKnownDiscovery
<1>10. /\ g[0] = start
       /\ \A i \in 1 .. n : g[i] = Turn(g[i - 1], i)
  <2>1. \A i \in 0 .. n : g[i] = IF i = 0 THEN start ELSE Turn(g[i - 1], i)
    <3> HIDE DEF g, start, n
    <3> QED
      BY <1>8
  <2> HIDE DEF g, start, n, Turn
  <2> QED
    BY <1>1, <2>1
<1>11. \A i \in 0 .. n : g[i] \in KnownResults
  <2> HIDE DEF g, start, n, Turn
  <2> DEFINE S == {i \in 0 .. n : g[i] \in KnownResults}
  <2>1. 0 \in S
    BY <1>1, <1>2, <1>10
  <2>2. \A i \in 1 .. n : i - 1 \in S => i \in S
    BY <1>1, <1>3, <1>10
  <2>3. 0 .. n \subseteq S
    <3> HIDE DEF S
    <3> QED
      BY <1>1, <2>1, <2>2, Climb
  <2> QED
    BY <2>3
<1>12. g \in [0 .. n -> KnownResults]
  <2> HIDE DEF g, start, n
  <2> QED
    BY <1>8, <1>11
<1> HIDE DEF g, Body, step
<1> QED
  BY <1>9, <1>10, <1>12

\* A node that counts as discovered has its whole burst queued, and behind it
\* nothing that contradicts it.
LEMMA KnownDiscoverySays ==
  ASSUME known \in [Nodes -> KnownProfiles], broker \in [Topics -> BOOLEAN],
         NEW q \in Seq(Messages), Len(q) <= PUB_QUEUE_SIZE,
         \A n \in Nodes : Order(q, n, known[n], real[n])
  PROVE  /\ PublishKnownDiscovery(q) \in KnownResults
         /\ Len(PublishKnownDiscovery(q).queue) <= PUB_QUEUE_SIZE
         /\ \A n \in Nodes : Order(PublishKnownDiscovery(q).queue, n, known[n], real[n])
         /\ \A n \in Nodes : PublishKnownDiscovery(q).flags[n] =>
                \A t \in NodeTopics(n) :
                    Retained(broker[t], PublishKnownDiscovery(q).queue, t)
                        <=> Has(known[n], t)
<1>1. PICK k \in Nat : k = MAX_NODE_ID /\ Nodes \subseteq 1 .. k
  BY MqttAssumption
<1>2. PICK f \in [0 .. k -> KnownResults] :
          /\ f[0] = [queue |-> q, flags |-> LoraResetDiscovery]
          /\ \A i \in 1 .. k :
                f[i] = IF IsKnown(i) THEN AnnounceNode(f[i - 1], i) ELSE f[i - 1]
          /\ PublishKnownDiscovery(q) = f[k]
  BY <1>1, KnownLoop
<1> DEFINE Says(r, n) == \A t \in NodeTopics(n) :
                             Retained(broker[t], r.queue, t) <=> Has(known[n], t)
           Fits(r) == /\ Len(r.queue) <= PUB_QUEUE_SIZE
                      /\ \A n \in Nodes : Order(r.queue, n, known[n], real[n])
           Done(i) == /\ Fits(f[i])
                      /\ \A n \in Nodes : f[i].flags[n] => n <= i /\ Says(f[i], n)
           S == {i \in 0 .. k : Done(i)}
<1>3. 0 \in S
  BY <1>2 DEF LoraResetDiscovery
<1>4. ASSUME NEW i \in 1 .. k, i - 1 \in S
      PROVE  i \in S
  <2>1. PICK r \in KnownResults :
            /\ r = f[i - 1] /\ Fits(r)
            /\ \A n \in Nodes : r.flags[n] => n <= i - 1 /\ Says(r, n)
            /\ f[i] = IF IsKnown(i) THEN AnnounceNode(r, i) ELSE r
    <3>1. i - 1 \in 0 .. k
      OBVIOUS
    <3> HIDE DEF Says, Fits
    <3> QED
      BY <3>1, <1>2, <1>4
  <2>2. CASE ~IsKnown(i)
    <3>1. f[i] = r
      BY <2>1, <2>2
    <3>2. \A n \in Nodes : n <= i - 1 => n <= i
      BY <1>1
    <3> HIDE DEF Says, Fits
    <3> QED
      BY <2>1, <3>1, <3>2
  <2>3. CASE IsKnown(i)
    <3>1. PICK p \in KnownProfiles : p = known[i] /\ p # NoProfile /\ i \in Nodes
      BY <2>3 DEF IsKnown
    <3>2. r.queue \in Seq(Messages) /\ r.flags \in [Nodes -> BOOLEAN]
      BY DEF KnownResults
    <3>3. PICK b : b = PublishDiscovery(r.queue, i, p)
      OBVIOUS
    <3>4. /\ b \in Results /\ Len(b.queue) <= PUB_QUEUE_SIZE
          /\ Grown(r.queue, b.queue, About(i, p))
          /\ b.ok /\ NewLast(r.queue, i, p) =>
                 \A t \in NodeTopics(i), c \in BOOLEAN :
                     Retained(c, b.queue, t) <=> Has(p, t)
      <4>1. Len(r.queue) <= PUB_QUEUE_SIZE
        BY <2>1
      <4> HIDE DEF Says, Fits, Done, S
      <4> QED
        BY <3>1, <3>2, <3>3, <4>1, Announced, Zenon
    <3>5. b.queue \in Seq(Messages)
      BY <3>4 DEF Results
    <3>6. /\ f[i].queue = b.queue
          /\ f[i].flags = IF b.ok THEN [r.flags EXCEPT ![i] = TRUE] ELSE r.flags
      BY <2>1, <2>3, <3>1, <3>3 DEF AnnounceNode
    <3>7. ASSUME NEW n \in Nodes
          PROVE  Order(b.queue, n, known[n], real[n])
      <4>1. Order(r.queue, n, known[n], real[n])
        BY <2>1
      <4>2. \A m \in About(i, p) : m.topic[1] = n => n = i /\ Agrees(m, known[n])
        BY <3>1, AboutOwner
      <4>3. \/ known[n] # NoProfile
            \/ \A m \in About(i, p) : m.topic[1] = n => Agrees(m, real[n])
        BY <3>1, <4>2
      <4> HIDE DEF Says, Fits, Done, S
      <4> QED
        BY <3>2, <3>4, <3>5, <4>1, <4>2, <4>3, OrderKept
    <3>8. ASSUME NEW n \in Nodes, f[i].flags[n]
          PROVE  n <= i /\ Says(f[i], n)
      <4>1. CASE n = i
        <5>1. ~r.flags[i]
          <6>1. ~(i <= i - 1)
            OBVIOUS
          <6> HIDE DEF Says, Fits
          <6> QED
            BY <6>1, <3>1, <2>1
        <5>2. b.ok
          BY <5>1, <3>6, <3>8, <4>1
        <5>3. NewLast(r.queue, i, p)
          <6>1. Order(r.queue, i, p, real[i])
            BY <2>1, <3>1
          <6> QED
            BY <6>1, <3>1, <3>2, TellsIsOrdered DEF Order
        <5>4. \A t \in NodeTopics(i) : broker[t] \in BOOLEAN
          BY <3>1 DEF Topics
        <5>5. \A t \in NodeTopics(i) : Retained(broker[t], b.queue, t) <=> Has(p, t)
          BY <5>2, <5>3, <5>4, <3>4
        <5>6. n <= i
          BY <4>1
        <5> QED
          BY <5>5, <5>6, <4>1, <3>1, <3>6
      <4>2. CASE n # i
        <5>1. r.flags[n]
          BY <4>2, <3>1, <3>2, <3>6, <3>8
        <5>2. n <= i - 1 /\ Says(r, n)
          BY <5>1, <2>1
        <5>3. ASSUME NEW t \in NodeTopics(n)
              PROVE  Retained(broker[t], b.queue, t) <=> Retained(broker[t], r.queue, t)
          <6>1. broker[t] \in BOOLEAN
            BY DEF Topics
          <6>2. \A m \in About(i, p) : m.topic # t
            BY <4>2, AboutOwner, TopicOwner
          <6> HIDE DEF Says, Fits, Done, S
          <6> QED
            BY <6>1, <6>2, <3>2, <3>4, <3>5, Untouched
        <5>4. Says(f[i], n)
          BY <5>2, <5>3, <3>6
        <5>5. n <= i
          BY <5>2, <1>1
        <5> QED
          BY <5>4, <5>5
      <4> QED
        BY <4>1, <4>2
    <3>9. Fits(f[i])
      BY <3>4, <3>6, <3>7
    <3> HIDE DEF Says, Fits
    <3> QED
      BY <3>8, <3>9
  <2> QED
    BY <2>2, <2>3
<1>5. Done(k)
  <2>1. 0 .. k \subseteq S
    <3> HIDE DEF S
    <3> QED
      BY <1>3, <1>4, Climb
  <2> HIDE DEF Done
  <2> QED
    BY <2>1
<1> QED
  BY <1>1, <1>2, <1>5

\* What the nodes BASE knows have to say.
KnownMessages == UNION {About(n, known[n]) : n \in {i \in Nodes : IsKnown(i)}}

LEMMA KnownDiscoveryGrows ==
  ASSUME known \in [Nodes -> KnownProfiles],
         NEW q \in Seq(Messages), Len(q) <= PUB_QUEUE_SIZE
  PROVE  /\ PublishKnownDiscovery(q) \in KnownResults
         /\ Len(PublishKnownDiscovery(q).queue) <= PUB_QUEUE_SIZE
         /\ Grown(q, PublishKnownDiscovery(q).queue, KnownMessages)
<1>1. PICK k \in Nat : k = MAX_NODE_ID
  BY MqttAssumption
<1>2. PICK f \in [0 .. k -> KnownResults] :
          /\ f[0] = [queue |-> q, flags |-> LoraResetDiscovery]
          /\ \A i \in 1 .. k :
                f[i] = IF IsKnown(i) THEN AnnounceNode(f[i - 1], i) ELSE f[i - 1]
          /\ PublishKnownDiscovery(q) = f[k]
  BY <1>1, KnownLoop
<1> DEFINE Done(r) == Len(r.queue) <= PUB_QUEUE_SIZE /\ Grown(q, r.queue, KnownMessages)
           S == {i \in 0 .. k : Done(f[i])}
<1>3. 0 \in S
  <2>1. Grown(q, q, KnownMessages)
    BY LenProperties DEF Grown
  <2> QED
    BY <2>1, <1>2
<1>4. ASSUME NEW i \in 1 .. k, i - 1 \in S
      PROVE  i \in S
  <2>1. PICK r \in KnownResults :
            /\ r = f[i - 1] /\ Done(r)
            /\ f[i] = IF IsKnown(i) THEN AnnounceNode(r, i) ELSE r
    <3>1. i - 1 \in 0 .. k
      OBVIOUS
    <3> HIDE DEF Done
    <3> QED
      BY <3>1, <1>2, <1>4
  <2>2. CASE ~IsKnown(i)
    BY <2>1, <2>2
  <2>3. CASE IsKnown(i)
    <3>1. PICK p \in KnownProfiles : p = known[i] /\ i \in Nodes
      BY <2>3 DEF IsKnown
    <3>2. r.queue \in Seq(Messages)
      BY DEF KnownResults
    <3>3. PICK b : b = PublishDiscovery(r.queue, i, p)
      OBVIOUS
    <3>4. /\ b \in Results /\ Len(b.queue) <= PUB_QUEUE_SIZE
          /\ Grown(r.queue, b.queue, About(i, p))
      <4>1. Len(r.queue) <= PUB_QUEUE_SIZE
        BY <2>1
      <4> HIDE DEF Done, S
      <4> QED
        BY <3>1, <3>2, <3>3, <4>1, Announced, Zenon
    <3>5. b.queue \in Seq(Messages)
      BY <3>4 DEF Results
    <3>6. f[i].queue = b.queue
      BY <2>1, <2>3, <3>1, <3>3 DEF AnnounceNode
    <3>7. About(i, p) \subseteq KnownMessages
      BY <2>3, <3>1 DEF KnownMessages
    <3>8. Grown(q, b.queue, KnownMessages)
      BY <2>1, <3>2, <3>4, <3>5, <3>7, GrownOn
    <3> QED
      BY <3>4, <3>6, <3>8
  <2> QED
    BY <2>2, <2>3
<1>5. Done(f[k])
  <2>1. 0 .. k \subseteq S
    <3> HIDE DEF S
    <3> QED
      BY <1>3, <1>4, Climb
  <2> HIDE DEF Done
  <2> QED
    BY <2>1
<1> QED
  BY <1>1, <1>2, <1>5

(* Announce(), on a reconnect or when Home Assistant is back *)

BaseMessages == {Config(BASE_ID, "base", 0)}

LEMMA AnnounceSteps ==
  ASSUME TypeOK, NEW q \in Seq(Messages), Len(q) <= PUB_QUEUE_SIZE,
         NEW sent \in BOOLEAN, Announce(q, sent)
  PROVE  /\ baseDiscoverySent' \in BOOLEAN
         /\ statsDiscovered' = [n \in Nodes |-> FALSE]
         /\ \E u \in Seq(Messages) :
               /\ Len(u) <= PUB_QUEUE_SIZE /\ Grown(q, u, BaseMessages)
               /\ queue' = PublishKnownDiscovery(u).queue
               /\ discovered' = PublishKnownDiscovery(u).flags
<1>1. PICK b : b = SendBaseDiscovery(q, sent)
  OBVIOUS
<1>2. b \in Results /\ Len(b.queue) <= PUB_QUEUE_SIZE /\ Grown(q, b.queue, BaseMessages)
  BY <1>1, BaseAnnounced DEF BaseMessages
<1>3. b.queue \in Seq(Messages) /\ b.ok \in BOOLEAN
  BY <1>2 DEF Results
<1>4. /\ baseDiscoverySent' = (sent \/ b.ok)
      /\ statsDiscovered' = [n \in Nodes |-> FALSE]
      /\ queue' = PublishKnownDiscovery(b.queue).queue
      /\ discovered' = PublishKnownDiscovery(b.queue).flags
  BY <1>1 DEF Announce
<1>5. baseDiscoverySent' \in BOOLEAN
  BY <1>3, <1>4
<1> QED
  BY <1>2, <1>3, <1>4, <1>5

LEMMA AnnounceType ==
  ASSUME TypeOK, NEW q \in Seq(Messages), Len(q) <= PUB_QUEUE_SIZE,
         NEW sent \in BOOLEAN, Announce(q, sent)
  PROVE  /\ queue' \in Seq(Messages) /\ Len(queue') <= PUB_QUEUE_SIZE
         /\ baseDiscoverySent' \in BOOLEAN
         /\ discovered' \in [Nodes -> BOOLEAN]
         /\ statsDiscovered' \in [Nodes -> BOOLEAN]
<1>1. PICK u \in Seq(Messages) :
          /\ Len(u) <= PUB_QUEUE_SIZE
          /\ queue' = PublishKnownDiscovery(u).queue
          /\ discovered' = PublishKnownDiscovery(u).flags
  BY AnnounceSteps
<1>2. known \in [Nodes -> KnownProfiles]
  BY DEF TypeOK, KnownProfiles
<1>3. /\ PublishKnownDiscovery(u) \in KnownResults
      /\ Len(PublishKnownDiscovery(u).queue) <= PUB_QUEUE_SIZE
  BY <1>1, <1>2, KnownDiscoveryGrows
<1>4. queue' \in Seq(Messages) /\ discovered' \in [Nodes -> BOOLEAN]
  BY <1>1, <1>3 DEF KnownResults
<1>5. baseDiscoverySent' \in BOOLEAN /\ statsDiscovered' \in [Nodes -> BOOLEAN]
  BY AnnounceSteps
<1> QED
  BY <1>1, <1>3, <1>4, <1>5

----------------------------------------------------------------------------
(* Types *)

LEMMA PublishedType ==
  ASSUME NEW b, NEW messages
  PROVE  Published(b, messages) \in [Topics -> BOOLEAN]
<1>1. \A t \in Topics : Retained(b[t], messages, t) \in BOOLEAN
  BY DEF Retained
<1> QED
  BY <1>1 DEF Published

\* What pubDrain() takes off the queue, and where it goes.
LEMMA DrainSteps ==
  ASSUME TypeOK, PubDrain
  PROVE  \E k \in 0 .. Len(queue) : Deliver(k)
<1>1. PICK n \in Nat : n = Len(queue) /\ n # 0
  BY LenProperties, EmptySeq DEF TypeOK, PubDrain
<1>2. 1 \in 0 .. n /\ (n # 1 => 2 \in 0 .. n)
  BY <1>1
<1>3. Deliver(IF n = 1 THEN 1 ELSE 2) \/ Deliver(1)
  BY <1>1 DEF PubDrain
<1>4. CASE n = 1
  <2>1. Deliver(1)
    BY <1>3, <1>4
  <2> QED
    BY <1>1, <1>2, <2>1
<1>5. CASE n # 1
  <2>1. Deliver(2) \/ Deliver(1)
    BY <1>3, <1>5
  <2> QED
    BY <1>1, <1>2, <1>5, <2>1
<1> QED
  BY <1>4, <1>5

LEMMA InitType == Init => TypeOK
<1> SUFFICES ASSUME Init PROVE TypeOK
  OBVIOUS
<1>1. queue \in Seq(Messages) /\ Len(queue) <= PUB_QUEUE_SIZE
  BY EmptySeq, MqttAssumption DEF Init
<1>2. faults \in 0 .. MaxFaults /\ reflashed \in 0 .. MaxReflash
  BY MqttAssumption DEF Init
<1> QED
  BY <1>1, <1>2 DEF Init, TypeOK

\* Every action keeps the types.
LEMMA NextType == TypeOK /\ [Next]_vars => TypeOK'
<1> SUFFICES ASSUME TypeOK, [Next]_vars PROVE TypeOK'
  OBVIOUS
<1>1. /\ queue \in Seq(Messages) /\ Len(queue) <= PUB_QUEUE_SIZE
      /\ baseDiscoverySent \in BOOLEAN /\ MaxFaults \in Nat /\ MaxReflash \in Nat
      /\ faults \in 0 .. MaxFaults /\ reflashed \in 0 .. MaxReflash
  BY MqttAssumption DEF TypeOK
<1>2. (faults < MaxFaults => faults + 1 \in 0 .. MaxFaults)
      /\ (reflashed < MaxReflash => reflashed + 1 \in 0 .. MaxReflash)
  BY <1>1
<1>3. CASE Connect
  <2>1. Announce(<<>>, baseDiscoverySent)
    BY <1>3 DEF Connect
  <2>2. <<>> \in Seq(Messages) /\ Len(<<>>) <= PUB_QUEUE_SIZE
    BY EmptySeq, MqttAssumption
  <2>3. /\ queue' \in Seq(Messages) /\ Len(queue') <= PUB_QUEUE_SIZE
        /\ baseDiscoverySent' \in BOOLEAN
        /\ discovered' \in [Nodes -> BOOLEAN]
        /\ statsDiscovered' \in [Nodes -> BOOLEAN]
    BY <2>1, <2>2, <1>1, AnnounceType
  <2> QED
    BY <2>3, <1>3 DEF Connect, TypeOK
<1>4. CASE HaOnline
  <2>1. Announce(queue, FALSE)
    BY <1>4 DEF HaOnline
  <2>2. /\ queue' \in Seq(Messages) /\ Len(queue') <= PUB_QUEUE_SIZE
        /\ baseDiscoverySent' \in BOOLEAN
        /\ discovered' \in [Nodes -> BOOLEAN]
        /\ statsDiscovered' \in [Nodes -> BOOLEAN]
    BY <2>1, <1>1, AnnounceType
  <2>3. faults' \in 0 .. MaxFaults
    BY <1>2, <1>4 DEF HaOnline
  <2> QED
    BY <2>2, <2>3, <1>4 DEF HaOnline, TypeOK
<1>5. CASE PubDrain
  <2>1. PICK k \in 0 .. Len(queue) : Deliver(k)
    BY <1>5, DrainSteps
  <2>2. PICK l \in Nat : l = Len(queue)
    BY <1>1, LenProperties
  <2>3. /\ queue' \in Seq(Messages) /\ Len(queue') = l - k
    BY <1>1, <2>1, <2>2, Split DEF Deliver
  <2>4. l - k <= PUB_QUEUE_SIZE
    BY <1>1, <2>1, <2>2, MqttAssumption
  <2>5. broker' \in [Topics -> BOOLEAN]
    BY <2>1, PublishedType DEF Deliver, TypeOK
  <2>6. faults' \in 0 .. MaxFaults
    BY <1>1, <1>2, <1>5 DEF PubDrain
  <2>7. Len(queue') <= PUB_QUEUE_SIZE
    BY <2>3, <2>4
  <2> QED
    BY <2>3, <2>5, <2>6, <2>7, <1>5 DEF PubDrain, TypeOK
<1>6. CASE LinkLost
  <2>1. faults' \in 0 .. MaxFaults
    BY <1>2, <1>6 DEF LinkLost
  <2> QED
    BY <2>1, <1>6 DEF LinkLost, TypeOK
<1>7. CASE LossNoticed
  BY <1>7 DEF LossNoticed, TypeOK
<1>8. CASE BrokerRestart
  <2>1. faults' \in 0 .. MaxFaults
    BY <1>2, <1>8 DEF BrokerRestart
  <2> QED
    BY <2>1, <1>8 DEF BrokerRestart, TypeOK
<1>9. CASE BaseReboot
  <2>1. faults' \in 0 .. MaxFaults
    BY <1>2, <1>9 DEF BaseReboot
  <2>2. queue' \in Seq(Messages) /\ Len(queue') <= PUB_QUEUE_SIZE
    BY <1>9, EmptySeq, MqttAssumption DEF BaseReboot
  <2> QED
    BY <2>1, <2>2, <1>9 DEF BaseReboot, TypeOK
<1>10. ASSUME NEW n \in Nodes, HandleData(n)
       PROVE  TypeOK'
  <2>1. PICK b : b = PublishDiscovery(queue, n, real[n])
    OBVIOUS
  <2>2. real[n] \in KnownProfiles
    BY DEF TypeOK, KnownProfiles
  <2>3. b \in Results /\ Len(b.queue) <= PUB_QUEUE_SIZE
    BY <1>1, <2>1, <2>2, Announced
  <2>4. /\ known' = [known EXCEPT ![n] = real[n]]
        /\ queue' = b.queue /\ discovered' = [discovered EXCEPT ![n] = b.ok]
    BY <1>10, <2>1 DEF HandleData
  <2>5. b.queue \in Seq(Messages) /\ b.ok \in BOOLEAN
    BY <2>3 DEF Results
  <2>6. /\ known' \in [Nodes -> Profiles \cup {NoProfile}]
        /\ discovered' \in [Nodes -> BOOLEAN]
    BY <2>2, <2>4, <2>5 DEF TypeOK, KnownProfiles
  <2> QED
    BY <2>3, <2>4, <2>5, <2>6, <1>10 DEF HandleData, TypeOK
<1>11. ASSUME NEW n \in Repeaters, HandleStatus(n)
       PROVE  TypeOK'
  <2>1. PICK b : b = PublishStatusDiscovery(queue, n)
    OBVIOUS
  <2>2. b \in Results /\ Len(b.queue) <= PUB_QUEUE_SIZE
    BY <1>1, <2>1, StatsAnnounced
  <2>3. /\ queue' = b.queue
        /\ statsDiscovered' = [statsDiscovered EXCEPT ![n] = b.ok]
    BY <1>11, <2>1 DEF HandleStatus
  <2>4. b.queue \in Seq(Messages) /\ b.ok \in BOOLEAN
    BY <2>2 DEF Results
  <2>5. statsDiscovered' \in [Nodes -> BOOLEAN]
    BY <2>3, <2>4 DEF TypeOK
  <2> QED
    BY <2>2, <2>3, <2>4, <2>5, <1>11 DEF HandleStatus, TypeOK
<1>12. ASSUME NEW n \in Nodes, Reflash(n)
       PROVE  TypeOK'
  <2>1. reflashed' \in 0 .. MaxReflash
    BY <1>2, <1>12 DEF Reflash
  <2>2. real' \in [Nodes -> Profiles \cup {NoProfile}]
    BY <1>12 DEF Reflash, TypeOK
  <2> QED
    BY <2>1, <2>2, <1>12 DEF Reflash, TypeOK
<1>13. CASE UNCHANGED vars
  BY <1>13 DEF vars, TypeOK
<1>14. \A n : HandleKnownData(n) => UNCHANGED vars
  BY DEF HandleKnownData
<1> QED
  BY <1>3, <1>4, <1>5, <1>6, <1>7, <1>8, <1>9, <1>10, <1>11, <1>12, <1>13, <1>14
  DEF Next

(* The queue holds discovery messages of known topics, never more than its *)
(* slots (pubEnqueue(), mqtt_manager.cpp:65-102), and the profile BASE     *)
(* knows for a station is one it can have been built with.                 *)
THEOREM TypeCorrect == Spec => []TypeOK
<1> QED
  BY InitType, NextType, PTL DEF Spec

----------------------------------------------------------------------------
(* Discovered is on its way *)

OrderInv == \A n \in Nodes : Order(queue, n, known[n], real[n])

Shown ==
    \A n \in Nodes :
        /\ discovered[n] => \A t \in NodeTopics(n) :
                                Retained(broker[t], queue, t) <=> Has(known[n], t)
        /\ statsDiscovered[n] =>
               n \in Repeaters /\ Retained(broker[StatsTopic(n)], queue, StatsTopic(n))

ShownInv == link = "up" => Shown

\* A node is rebuilt only when BASE has heard of its last build, and has no
\* message queued about the one before.
SettledRebuild ==
    \A n \in Nodes :
        Reflash(n) => Tells(queue, n, real[n]) /\ known[n] \in {real[n], NoProfile}

LEMMA BaseIsNoNode ==
  ASSUME NEW n \in Nodes
  PROVE  \A m \in BaseMessages : m.topic[1] # n
BY MqttAssumption DEF BaseMessages, Config, BASE_ID

LEMMA StatsSays ==
  ASSUME NEW n, NEW x
  PROVE  /\ Config(n, "stats", 0).topic = StatsTopic(n)
         /\ StatsTopic(n) \notin NodeTopics(x)
         /\ x # n => StatsTopic(x) # StatsTopic(n)
         /\ \A p : Agrees(Config(n, "stats", 0), p)
<1>1. Config(n, "stats", 0).topic = StatsTopic(n) /\ Config(n, "stats", 0).payload = "config"
  BY DEF Config, StatsTopic
<1>2. \A p : Has(p, StatsTopic(n))
  BY DEF Has, StatsTopic
<1>3. StatsTopic(n) \notin NodeTopics(x)
  BY DEF StatsTopic, NodeTopics
<1>4. x # n => StatsTopic(x) # StatsTopic(n)
  BY TopicOwner
<1> QED
  BY <1>1, <1>2, <1>3, <1>4 DEF Agrees

LEMMA NothingQueued ==
  ASSUME NEW n, NEW k, NEW r
  PROVE  Order(<<>>, n, k, r)
<1>1. Len(<<>>) = 0
  BY EmptySeq
<1> QED
  BY <1>1 DEF Order, NewLast, Tells

LEMMA AnnounceKeeps ==
  ASSUME TypeOK, NEW q \in Seq(Messages), Len(q) <= PUB_QUEUE_SIZE,
         \A n \in Nodes : Order(q, n, known[n], real[n]),
         NEW sent \in BOOLEAN, Announce(q, sent), UNCHANGED <<known, real, broker>>
  PROVE  OrderInv' /\ Shown'
<1>1. PICK u \in Seq(Messages) :
          /\ Len(u) <= PUB_QUEUE_SIZE /\ Grown(q, u, BaseMessages)
          /\ queue' = PublishKnownDiscovery(u).queue
          /\ discovered' = PublishKnownDiscovery(u).flags
  BY AnnounceSteps
<1>2. known \in [Nodes -> KnownProfiles] /\ broker \in [Topics -> BOOLEAN]
  BY DEF TypeOK, KnownProfiles
<1>3. \A n \in Nodes : Order(u, n, known[n], real[n])
  BY <1>1, BaseIsNoNode, OrderKept
<1>4. /\ \A n \in Nodes : Order(queue', n, known[n], real[n])
      /\ \A n \in Nodes : discovered'[n] =>
             \A t \in NodeTopics(n) : Retained(broker[t], queue', t) <=> Has(known[n], t)
  BY <1>1, <1>2, <1>3, KnownDiscoverySays
<1>5. statsDiscovered' = [n \in Nodes |-> FALSE]
  BY AnnounceSteps
<1> QED
  BY <1>4, <1>5 DEF OrderInv, Shown

\* A report: what it adds speaks of one node only, and says what it reports.
LEMMA HandleDataKeeps ==
  ASSUME TypeOK, OrderInv, NEW n \in Nodes, HandleData(n)
  PROVE  OrderInv' /\ (Shown => Shown')
<1>1. PICK b : b = PublishDiscovery(queue, n, real[n])
  OBVIOUS
<1>2. queue \in Seq(Messages) /\ Len(queue) <= PUB_QUEUE_SIZE /\ real[n] \in KnownProfiles
  BY DEF TypeOK, KnownProfiles
<1>3. /\ b \in Results /\ Grown(queue, b.queue, About(n, real[n]))
      /\ b.ok /\ NewLast(queue, n, real[n]) =>
             \A t \in NodeTopics(n), c \in BOOLEAN :
                 Retained(c, b.queue, t) <=> Has(real[n], t)
  BY <1>1, <1>2, Announced
<1>4. /\ known' = [known EXCEPT ![n] = real[n]] /\ queue' = b.queue
      /\ discovered' = [discovered EXCEPT ![n] = b.ok]
      /\ UNCHANGED <<statsDiscovered, real, broker>>
  BY <1>1 DEF HandleData
<1>5. b.queue \in Seq(Messages) /\ b.ok \in BOOLEAN
  BY <1>3 DEF Results
<1>6. NewLast(queue, n, real[n])
  BY DEF OrderInv, Order
<1>7. ASSUME NEW x \in Nodes
      PROVE  Order(b.queue, x, known'[x], real[x])
  <2>1. Order(queue, x, known[x], real[x])
    BY DEF OrderInv
  <2>2. CASE x = n
    <3>1. NewLast(b.queue, n, real[n])
      BY <1>2, <1>3, <1>5, <1>6, AboutOwner, NewLastMore
    <3>2. known'[x] = real[n]
      BY <2>2, <1>4 DEF TypeOK
    <3> QED
      BY <2>2, <3>1, <3>2 DEF Order
  <2>3. CASE x # n
    <3>1. known'[x] = known[x]
      BY <2>3, <1>4 DEF TypeOK
    <3>2. \A m \in About(n, real[n]) : m.topic[1] # x
      BY <2>3, AboutOwner
    <3>3. Order(b.queue, x, known[x], real[x])
      BY <1>2, <1>3, <1>5, <2>1, <3>2, OrderKept
    <3> QED
      BY <3>1, <3>3
  <2> QED
    BY <2>2, <2>3
<1>8. ASSUME Shown PROVE Shown'
  <2> SUFFICES ASSUME NEW x \in Nodes
               PROVE  /\ discovered'[x] =>
                            \A t \in NodeTopics(x) :
                               Retained(broker[t], b.queue, t) <=> Has(known'[x], t)
                      /\ statsDiscovered[x] =>
                            /\ x \in Repeaters
                            /\ Retained(broker[StatsTopic(x)], b.queue, StatsTopic(x))
    BY <1>4 DEF Shown
  <2>1. ASSUME statsDiscovered[x]
        PROVE  /\ x \in Repeaters
               /\ Retained(broker[StatsTopic(x)], b.queue, StatsTopic(x))
    <3>1. x \in Repeaters /\ Retained(broker[StatsTopic(x)], queue, StatsTopic(x))
      BY <1>8, <2>1 DEF Shown
    <3>2. broker[StatsTopic(x)] \in BOOLEAN
      BY <3>1 DEF TypeOK, Topics
    <3>3. \A m \in About(n, real[n]) : m.topic # StatsTopic(x)
      BY AboutOwner, StatsSays
    <3> QED
      BY <3>1, <3>2, <3>3, <1>2, <1>3, <1>5, Untouched
  <2>2. ASSUME discovered'[x], NEW t \in NodeTopics(x)
        PROVE  Retained(broker[t], b.queue, t) <=> Has(known'[x], t)
    <3>1. broker[t] \in BOOLEAN
      BY DEF TypeOK, Topics
    <3>2. CASE x = n
      <4>1. b.ok /\ known'[x] = real[n]
        BY <2>2, <3>2, <1>4 DEF TypeOK
      <4> QED
        BY <4>1, <3>1, <3>2, <1>3, <1>6
    <3>3. CASE x # n
      <4>1. discovered[x] /\ known'[x] = known[x]
        BY <2>2, <3>3, <1>4 DEF TypeOK
      <4>2. Retained(broker[t], queue, t) <=> Has(known[x], t)
        BY <1>8, <4>1 DEF Shown
      <4>3. \A m \in About(n, real[n]) : m.topic # t
        BY <3>3, AboutOwner, TopicOwner
      <4>4. Retained(broker[t], b.queue, t) <=> Retained(broker[t], queue, t)
        BY <3>1, <4>3, <1>2, <1>3, <1>5, Untouched
      <4> QED
        BY <4>1, <4>2, <4>4
    <3> QED
      BY <3>2, <3>3
  <2> QED
    BY <2>1, <2>2
<1> QED
  BY <1>4, <1>7, <1>8 DEF OrderInv

LEMMA HandleStatusKeeps ==
  ASSUME TypeOK, OrderInv, NEW n \in Repeaters, HandleStatus(n)
  PROVE  OrderInv' /\ (Shown => Shown')
<1> DEFINE m == Config(n, "stats", 0)
<1>1. PICK b : b = PublishStatusDiscovery(queue, n)
  OBVIOUS
<1>2. /\ queue \in Seq(Messages) /\ Len(queue) <= PUB_QUEUE_SIZE
      /\ n \in Nodes /\ m.topic = StatsTopic(n)
  BY MqttAssumption, StatsSays DEF TypeOK
<1>3. /\ b \in Results /\ Grown(queue, b.queue, {m})
      /\ b.ok /\ NewLast(queue, n, real[n]) =>
             \A c \in BOOLEAN : Retained(c, b.queue, StatsTopic(n))
  BY <1>1, <1>2, StatsAnnounced
<1>4. /\ queue' = b.queue
      /\ statsDiscovered' = [statsDiscovered EXCEPT ![n] = b.ok]
      /\ UNCHANGED <<discovered, known, real, broker>>
  BY <1>1 DEF HandleStatus
<1>5. b.queue \in Seq(Messages) /\ b.ok \in BOOLEAN
  BY <1>3 DEF Results
<1>6. NewLast(queue, n, real[n])
  BY <1>2 DEF OrderInv, Order
<1> HIDE DEF m
<1>7. ASSUME NEW x \in Nodes
      PROVE  Order(b.queue, x, known[x], real[x])
  <2>1. Order(queue, x, known[x], real[x])
    BY DEF OrderInv
  <2>2. \A p : Agrees(m, p)
    BY StatsSays DEF m
  <2> QED
    BY <1>2, <1>3, <1>5, <2>1, <2>2, OrderKept
<1>8. ASSUME Shown PROVE Shown'
  <2> SUFFICES ASSUME NEW x \in Nodes
               PROVE  /\ discovered[x] =>
                            \A t \in NodeTopics(x) :
                               Retained(broker[t], b.queue, t) <=> Has(known[x], t)
                      /\ statsDiscovered'[x] =>
                            /\ x \in Repeaters
                            /\ Retained(broker[StatsTopic(x)], b.queue, StatsTopic(x))
    BY <1>4 DEF Shown
  <2>1. ASSUME discovered[x], NEW t \in NodeTopics(x)
        PROVE  Retained(broker[t], b.queue, t) <=> Has(known[x], t)
    <3>1. broker[t] \in BOOLEAN
      BY DEF TypeOK, Topics
    <3>2. Retained(broker[t], queue, t) <=> Has(known[x], t)
      BY <1>8, <2>1 DEF Shown
    <3>3. \A y \in {m} : y.topic # t
      BY <1>2, StatsSays
    <3>4. Retained(broker[t], b.queue, t) <=> Retained(broker[t], queue, t)
      BY <3>1, <3>3, <1>2, <1>3, <1>5, Untouched
    <3> QED
      BY <3>2, <3>4
  <2>2. ASSUME statsDiscovered'[x]
        PROVE  /\ x \in Repeaters
               /\ Retained(broker[StatsTopic(x)], b.queue, StatsTopic(x))
    <3>1. CASE x = n
      <4>1. b.ok
        BY <2>2, <3>1, <1>4 DEF TypeOK
      <4>2. broker[StatsTopic(n)] \in BOOLEAN
        BY DEF TypeOK, Topics
      <4> QED
        BY <3>1, <4>1, <4>2, <1>3, <1>6
    <3>2. CASE x # n
      <4>1. statsDiscovered[x]
        BY <2>2, <3>2, <1>4 DEF TypeOK
      <4>2. x \in Repeaters /\ Retained(broker[StatsTopic(x)], queue, StatsTopic(x))
        BY <1>8, <4>1 DEF Shown
      <4>3. broker[StatsTopic(x)] \in BOOLEAN
        BY <4>2 DEF TypeOK, Topics
      <4>4. \A y \in {m} : y.topic # StatsTopic(x)
        BY <3>2, <1>2, StatsSays
      <4> QED
        BY <4>2, <4>3, <4>4, <1>2, <1>3, <1>5, Untouched
    <3> QED
      BY <3>1, <3>2
  <2> QED
    BY <2>1, <2>2
<1> QED
  BY <1>4, <1>7, <1>8 DEF OrderInv

\* What leaves the queue in a live session reaches the broker in its order.
LEMMA DrainKeeps ==
  ASSUME TypeOK, OrderInv, PubDrain
  PROVE  OrderInv' /\ (ShownInv => ShownInv')
<1>1. PICK k \in 0 .. Len(queue) : Deliver(k)
  BY DrainSteps
<1>2. /\ queue' = SubSeq(queue, k + 1, Len(queue)) /\ queue \in Seq(Messages)
      /\ broker' = IF link = "up" THEN Published(broker, SubSeq(queue, 1, k))
                   ELSE broker
      /\ UNCHANGED <<link, discovered, statsDiscovered, known, real>>
  BY <1>1 DEF Deliver, PubDrain, TypeOK
<1>3. \A n, p : /\ Tells(queue, n, p) => Tells(queue', n, p)
                /\ NewLast(queue, n, p) => NewLast(queue', n, p)
  BY <1>2, OrderOfSuffix
<1>4. OrderInv'
  BY <1>2, <1>3 DEF OrderInv, Order
<1>5. ASSUME link = "up", NEW t \in Topics
      PROVE  Retained(broker'[t], queue', t) <=> Retained(broker[t], queue, t)
  <2>1. broker'[t] = Retained(broker[t], SubSeq(queue, 1, k), t)
    BY <1>2, <1>5 DEF Published
  <2>2. broker[t] \in BOOLEAN
    BY DEF TypeOK
  <2> QED
    BY <2>1, <2>2, <1>2, Delivered
<1>6. ASSUME link = "up", Shown
      PROVE  Shown'
  <2> SUFFICES ASSUME NEW x \in Nodes
               PROVE  /\ discovered[x] =>
                            \A t \in NodeTopics(x) :
                               Retained(broker'[t], queue', t) <=> Has(known[x], t)
                      /\ statsDiscovered[x] =>
                            /\ x \in Repeaters
                            /\ Retained(broker'[StatsTopic(x)], queue', StatsTopic(x))
    BY <1>2 DEF Shown
  <2>1. \A t \in NodeTopics(x) : t \in Topics
    BY DEF Topics
  <2>2. x \in Repeaters => StatsTopic(x) \in Topics
    BY DEF Topics
  <2> QED
    BY <1>5, <1>6, <2>1, <2>2 DEF Shown
<1> QED
  BY <1>2, <1>4, <1>6 DEF ShownInv

LEMMA ReflashKeeps ==
  ASSUME TypeOK, OrderInv, NEW n \in Nodes, Reflash(n), SettledRebuild
  PROVE  OrderInv' /\ (ShownInv => ShownInv')
<1>1. Tells(queue, n, real[n]) /\ known[n] \in {real[n], NoProfile}
  BY DEF SettledRebuild
<1>2. /\ \E p : real' = [real EXCEPT ![n] = p]
      /\ UNCHANGED <<link, queue, discovered, statsDiscovered, known, broker>>
  BY DEF Reflash
<1>3. ASSUME NEW x \in Nodes
      PROVE  Order(queue, x, known[x], real'[x])
  <2>1. CASE x = n
    <3>1. NewLast(queue, n, real'[n])
      BY <1>1, TellsIsOrdered DEF TypeOK
    <3>2. known[n] # NoProfile => Tells(queue, n, known[n])
      BY <1>1
    <3> QED
      BY <2>1, <3>1, <3>2 DEF Order
  <2>2. CASE x # n
    <3>1. real'[x] = real[x]
      BY <1>2, <2>2 DEF TypeOK
    <3> QED
      BY <3>1 DEF OrderInv
  <2> QED
    BY <2>1, <2>2
<1>4. ShownInv => ShownInv'
  BY <1>2 DEF ShownInv, Shown
<1> QED
  BY <1>2, <1>3, <1>4 DEF OrderInv

LEMMA InitKeeps == Init => OrderInv /\ ShownInv
<1> SUFFICES ASSUME Init PROVE OrderInv /\ ShownInv
  OBVIOUS
<1>1. queue = <<>> /\ link = "down"
  BY DEF Init
<1> QED
  BY <1>1, NothingQueued DEF OrderInv, ShownInv

LEMMA NextKeeps ==
  ASSUME TypeOK, OrderInv, ShownInv, [Next]_vars, [SettledRebuild]_vars
  PROVE  OrderInv' /\ ShownInv'
<1>1. queue \in Seq(Messages) /\ Len(queue) <= PUB_QUEUE_SIZE /\ baseDiscoverySent \in BOOLEAN
  BY DEF TypeOK
<1>2. CASE Connect
  <2>1. Announce(<<>>, baseDiscoverySent) /\ UNCHANGED <<known, real, broker>>
    BY <1>2 DEF Connect
  <2>2. <<>> \in Seq(Messages) /\ Len(<<>>) <= PUB_QUEUE_SIZE
    BY EmptySeq, MqttAssumption
  <2>3. OrderInv' /\ Shown'
    BY <2>1, <2>2, <1>1, NothingQueued, AnnounceKeeps
  <2> QED
    BY <2>3 DEF ShownInv
<1>3. CASE HaOnline
  <2>1. Announce(queue, FALSE) /\ UNCHANGED <<known, real, broker>>
    BY <1>3 DEF HaOnline
  <2>2. \A n \in Nodes : Order(queue, n, known[n], real[n])
    BY DEF OrderInv
  <2>3. OrderInv' /\ Shown'
    BY <2>1, <2>2, <1>1, AnnounceKeeps
  <2> QED
    BY <2>3 DEF ShownInv
<1>4. CASE PubDrain
  BY <1>4, DrainKeeps
<1>5. ASSUME NEW n \in Nodes, HandleData(n)
      PROVE  OrderInv' /\ ShownInv'
  <2>1. link' = link
    BY <1>5 DEF HandleData
  <2> QED
    BY <1>5, <2>1, HandleDataKeeps DEF ShownInv
<1>6. ASSUME NEW n \in Repeaters, HandleStatus(n)
      PROVE  OrderInv' /\ ShownInv'
  <2>1. link' = link
    BY <1>6 DEF HandleStatus
  <2> QED
    BY <1>6, <2>1, HandleStatusKeeps DEF ShownInv
<1>7. ASSUME NEW n \in Nodes, Reflash(n)
      PROVE  OrderInv' /\ ShownInv'
  <2>1. CASE SettledRebuild
    BY <1>7, <2>1, ReflashKeeps
  <2>2. CASE UNCHANGED vars
    BY <2>2 DEF vars, OrderInv, ShownInv, Shown
  <2> QED
    BY <2>1, <2>2
<1>8. CASE LinkLost \/ LossNoticed \/ BrokerRestart
  <2>1. link' # "up" /\ UNCHANGED <<queue, known, real>>
    BY <1>8 DEF LinkLost, LossNoticed, BrokerRestart
  <2> QED
    BY <2>1 DEF OrderInv, ShownInv
<1>9. CASE BaseReboot
  <2>1. link' # "up" /\ queue' = <<>>
    BY <1>9 DEF BaseReboot
  <2> QED
    BY <2>1, NothingQueued DEF OrderInv, ShownInv
<1>10. CASE UNCHANGED vars
  BY <1>10 DEF vars, OrderInv, ShownInv, Shown
<1>11. \A n : HandleKnownData(n) => UNCHANGED vars
  BY DEF HandleKnownData
<1> QED
  BY <1>2, <1>3, <1>4, <1>5, <1>6, <1>7, <1>8, <1>9, <1>10, <1>11 DEF Next

LEMMA HasType ==
  ASSUME NEW p \in KnownProfiles, NEW n, NEW t \in NodeTopics(n)
  PROVE  Has(p, t) \in BOOLEAN
<1>1. PICK a \in Nat, b \in Nat : a = p.relays /\ b = p.sensors
  BY ProfileType
<1>2. t[3] \in Int
  BY MqttAssumption DEF NodeTopics
<1>3. (t[3] <= a) \in BOOLEAN /\ (t[3] <= b) \in BOOLEAN
  BY <1>2
<1> QED
  BY <1>1, <1>3 DEF Has

LEMMA ShownIsOnItsWay == TypeOK /\ ShownInv => DiscoveredIsOnItsWay
<1> SUFFICES ASSUME TypeOK, ShownInv PROVE DiscoveredIsOnItsWay
  OBVIOUS
<1>1. \A t : Expected(t) \in BOOLEAN /\ (Expected(t) <=> Retained(broker[t], queue, t))
  BY DEF Expected, Retained
<1>2. ASSUME NEW n \in Nodes, Shown, discovered[n], NEW t \in NodeTopics(n)
      PROVE  Expected(t) = Has(known[n], t)
  <2>1. Retained(broker[t], queue, t) <=> Has(known[n], t)
    BY <1>2 DEF Shown
  <2>2. known[n] \in KnownProfiles
    BY DEF TypeOK, KnownProfiles
  <2>3. Has(known[n], t) \in BOOLEAN
    BY <2>2, HasType
  <2> QED
    BY <2>1, <2>3, <1>1
<1>3. ASSUME NEW n \in Nodes, Shown, statsDiscovered[n]
      PROVE  Expected(StatsTopic(n))
  BY <1>1, <1>3 DEF Shown
<1> QED
  BY <1>2, <1>3 DEF ShownInv, DiscoveredIsOnItsWay

(* In a live session a station that counts as discovered needs no further  *)
(* report (handleData(), lora_base.cpp:312-322; pubEnqueue(),              *)
(* mqtt_manager.cpp:65-102), for any number of stations, outages, restarts *)
(* and rebuilds, when no node is rebuilt before BASE has heard of its last *)
(* build and sent what it had queued about the one before.                 *)
THEOREM DiscoveredWhenSettled ==
  Spec /\ [][SettledRebuild]_vars => []DiscoveredIsOnItsWay
<1>1. Init => TypeOK /\ OrderInv /\ ShownInv
  BY InitType, InitKeeps
<1>2. TypeOK /\ OrderInv /\ ShownInv /\ [Next]_vars /\ [SettledRebuild]_vars
          => (TypeOK /\ OrderInv /\ ShownInv)'
  BY NextType, NextKeeps
<1> QED
  BY <1>1, <1>2, ShownIsOnItsWay, PTL DEF Spec

----------------------------------------------------------------------------
(* One rebuild *)

\* Before the first rebuild nothing is queued, or known, but the profiles the
\* stations report.
Original ==
    reflashed = 0 =>
        \A n \in Nodes : Tells(queue, n, real[n]) /\ known[n] \in {real[n], NoProfile}

LEMMA InitOriginal == Init => Original
<1>1. \A n, p : Tells(<<>>, n, p)
  BY EmptySeq DEF Tells
<1>2. Init => queue = <<>> /\ known = [n \in Nodes |-> NoProfile]
  BY DEF Init
<1> QED
  BY <1>1, <1>2 DEF Original

\* What Announce() adds comes from what BASE knows.
LEMMA AnnounceOriginal ==
  ASSUME TypeOK, NEW q \in Seq(Messages), Len(q) <= PUB_QUEUE_SIZE,
         NEW sent \in BOOLEAN, Announce(q, sent),
         NEW n \in Nodes, Tells(q, n, real[n]), known[n] \in {real[n], NoProfile}
  PROVE  Tells(queue', n, real[n])
<1>1. PICK u \in Seq(Messages) :
          /\ Len(u) <= PUB_QUEUE_SIZE /\ Grown(q, u, BaseMessages)
          /\ queue' = PublishKnownDiscovery(u).queue
  BY AnnounceSteps
<1>2. Tells(u, n, real[n])
  BY <1>1, BaseIsNoNode, TellsMore
<1>3. known \in [Nodes -> KnownProfiles]
  BY DEF TypeOK, KnownProfiles
<1>4. Grown(u, queue', KnownMessages)
  BY <1>1, <1>3, KnownDiscoveryGrows
<1>5. queue' \in Seq(Messages)
  BY AnnounceType
<1>6. ASSUME NEW m \in KnownMessages, m.topic[1] = n
      PROVE  Agrees(m, real[n])
  <2>1. PICK i \in Nodes : IsKnown(i) /\ m \in About(i, known[i])
    BY DEF KnownMessages
  <2>2. i = n /\ Agrees(m, known[i])
    BY <1>6, <2>1, AboutOwner
  <2> QED
    BY <2>1, <2>2 DEF IsKnown
<1> QED
  BY <1>2, <1>4, <1>5, <1>6, TellsMore

LEMMA NextOriginal ==
  ASSUME TypeOK, Original, [Next]_vars
  PROVE  Original'
<1> SUFFICES ASSUME reflashed' = 0, NEW x \in Nodes
             PROVE  Tells(queue', x, real'[x]) /\ known'[x] \in {real'[x], NoProfile}
  BY DEF Original
<1>1. queue \in Seq(Messages) /\ Len(queue) <= PUB_QUEUE_SIZE /\ baseDiscoverySent \in BOOLEAN
  BY DEF TypeOK
<1>2. /\ \A n \in Nodes : ~Reflash(n)
      /\ reflashed = 0 /\ real' = real
  <2>1. reflashed \in Nat /\ reflashed + 1 # 0
    BY MqttAssumption DEF TypeOK
  <2>2. \A n \in Nodes : ~Reflash(n)
    BY <2>1 DEF Reflash
  <2> QED
    BY <2>2 DEF Next, Connect, HaOnline, PubDrain, LinkLost, LossNoticed, BrokerRestart,
                BaseReboot, HandleData, HandleKnownData, HandleStatus, vars
<1>3. Tells(queue, x, real[x]) /\ known[x] \in {real[x], NoProfile}
  BY <1>2 DEF Original
<1>4. CASE Connect
  <2>1. Announce(<<>>, baseDiscoverySent) /\ known' = known
    BY <1>4 DEF Connect
  <2>2. /\ <<>> \in Seq(Messages) /\ Len(<<>>) <= PUB_QUEUE_SIZE
        /\ Tells(<<>>, x, real[x])
    BY EmptySeq, MqttAssumption DEF Tells
  <2> QED
    BY <2>1, <2>2, <1>1, <1>2, <1>3, AnnounceOriginal
<1>5. CASE HaOnline
  <2>1. Announce(queue, FALSE) /\ known' = known
    BY <1>5 DEF HaOnline
  <2> QED
    BY <2>1, <1>1, <1>2, <1>3, AnnounceOriginal
<1>6. CASE PubDrain
  <2>1. PICK k \in 0 .. Len(queue) : Deliver(k)
    BY <1>6, DrainSteps
  <2>2. Tells(queue', x, real[x])
    BY <1>1, <1>3, <2>1, OrderOfSuffix DEF Deliver
  <2> QED
    BY <2>2, <1>2, <1>3, <1>6 DEF PubDrain
<1>7. ASSUME NEW n \in Nodes, HandleData(n)
      PROVE  Tells(queue', x, real'[x]) /\ known'[x] \in {real'[x], NoProfile}
  <2>1. PICK b : b = PublishDiscovery(queue, n, real[n])
    OBVIOUS
  <2>2. real[n] \in KnownProfiles
    BY DEF TypeOK, KnownProfiles
  <2>3. b \in Results /\ Grown(queue, b.queue, About(n, real[n]))
    BY <1>1, <2>1, <2>2, Announced
  <2>4. queue' = b.queue /\ known' = [known EXCEPT ![n] = real[n]]
    BY <1>7, <2>1 DEF HandleData
  <2>5. b.queue \in Seq(Messages)
    BY <2>3 DEF Results
  <2>6. \A m \in About(n, real[n]) : m.topic[1] = x => Agrees(m, real[x])
    BY AboutOwner
  <2>7. Tells(queue', x, real[x])
    BY <1>1, <1>3, <2>3, <2>4, <2>5, <2>6, TellsMore
  <2>8. known'[x] \in {real[x], NoProfile}
    BY <1>3, <2>4 DEF TypeOK
  <2> QED
    BY <2>7, <2>8, <1>2
<1>8. ASSUME NEW n \in Repeaters, HandleStatus(n)
      PROVE  Tells(queue', x, real'[x]) /\ known'[x] \in {real'[x], NoProfile}
  <2>1. PICK b : b = PublishStatusDiscovery(queue, n)
    OBVIOUS
  <2>2. b \in Results /\ Grown(queue, b.queue, {Config(n, "stats", 0)})
    BY <1>1, <2>1, StatsAnnounced
  <2>3. queue' = b.queue /\ known' = known
    BY <1>8, <2>1 DEF HandleStatus
  <2>4. b.queue \in Seq(Messages)
    BY <2>2 DEF Results
  <2>5. \A m \in {Config(n, "stats", 0)} : m.topic[1] = x => Agrees(m, real[x])
    BY StatsSays
  <2>6. Tells(queue', x, real[x])
    BY <1>1, <1>3, <2>2, <2>3, <2>4, <2>5, TellsMore
  <2> QED
    BY <2>3, <2>6, <1>2, <1>3
<1>9. CASE LinkLost \/ LossNoticed \/ BrokerRestart \/ UNCHANGED vars
  <2>1. queue' = queue /\ known' = known
    BY <1>9 DEF LinkLost, LossNoticed, BrokerRestart, vars
  <2> QED
    BY <2>1, <1>2, <1>3
<1>10. CASE BaseReboot
  <2>1. queue' = <<>> /\ known'[x] = NoProfile
    BY <1>10 DEF BaseReboot
  <2>2. Tells(<<>>, x, real'[x])
    BY EmptySeq DEF Tells
  <2> QED
    BY <2>1, <2>2
<1>11. \A n : HandleKnownData(n) => UNCHANGED vars
  BY DEF HandleKnownData
<1> QED
  BY <1>2, <1>4, <1>5, <1>6, <1>7, <1>8, <1>9, <1>10, <1>11 DEF Next

(* The same with no condition, when a node is rebuilt at most once: the    *)
(* run's case, for any number of stations, of messages in a burst, of      *)
(* slots and of faults.                                                    *)
THEOREM DiscoveredOnItsWay ==
  ASSUME MaxReflash <= 1
  PROVE  Spec => []DiscoveredIsOnItsWay
<1>1. Init => TypeOK /\ Original
  BY InitType, InitOriginal
<1>2. TypeOK /\ Original /\ [Next]_vars => (TypeOK /\ Original)'
  BY NextType, NextOriginal
<1>3. TypeOK /\ Original /\ [Next]_vars => [SettledRebuild]_vars
  <2> SUFFICES ASSUME TypeOK, Original, NEW n \in Nodes, Reflash(n)
               PROVE  Tells(queue, n, real[n]) /\ known[n] \in {real[n], NoProfile}
    BY DEF SettledRebuild
  <2>1. reflashed = 0
    BY MqttAssumption DEF Reflash, TypeOK
  <2> QED
    BY <2>1 DEF Original
<1>4. Spec => [][SettledRebuild]_vars
  BY <1>1, <1>2, <1>3, PTL DEF Spec
<1> QED
  BY <1>4, DiscoveredWhenSettled, PTL
=============================================================================
