----------------------------- MODULE LinkProofs -----------------------------
(***************************************************************************)
(* Theorems about one directed link, for every configuration, every set of *)
(* chunk sizes and every bound on time and traffic.                        *)
(***************************************************************************)
EXTENDS LinkService, InductionLemmas

Chunk == [id : Nat, bytes : Nat, marked : BOOLEAN]

TrafficCount == [bytes : Nat, chunks : Nat]

LinkStatistics ==
  [enqueued : TrafficCount, started : TrafficCount, completed : TrafficCount,
   marked : TrafficCount, droppedBufferFull : TrafficCount,
   droppedLinkDown : TrafficCount, busyTime : Nat]

Service ==
  [active : Chunk \cup {None}, waiting : Seq(Chunk), waitingBytes : Nat,
   maxWaitingBytes : Nat, maxWaitingChunks : Nat,
   completion : Nat \cup {None}, busySince : Nat \cup {None},
   statistics : LinkStatistics]

(* The running sums behind SumBytes.                                         *)
IsRunning(f, w) ==
  f = [n \in 0..Len(w) |-> IF n = 0 THEN 0 ELSE f[n - 1] + w[n].bytes]

RunningSum(w) == CHOOSE f : IsRunning(f, w)

(* The recursion of SumBytes has a solution for every buffer.                *)
LEMMA RunningSumExists ==
  ASSUME NEW w \in Seq(Chunk)
  PROVE  IsRunning(RunningSum(w), w) /\ SumBytes(w) = RunningSum(w)[Len(w)]
<1> DEFINE P(m, f) == f = [n \in 0..m |-> IF n = 0 THEN 0 ELSE f[n - 1] + w[n].bytes]
           T == {m \in Nat : \E f : P(m, f)}
<1>1. 0 \in T
  <2> DEFINE f == [n \in 0..0 |-> 0]
  <2>1. P(0, f)
    OBVIOUS
  <2> QED BY <2>1, Zenon
<1>2. ASSUME NEW m \in Nat, m \in T PROVE m + 1 \in T
  <2>1. PICK f : P(m, f)
    BY <1>2, Zenon
  <2> DEFINE g == [n \in 0..m + 1 |-> IF n = m + 1 THEN f[m] + w[m + 1].bytes ELSE f[n]]
  <2>2. P(m + 1, g)
    <3> SUFFICES ASSUME NEW n \in 0..m + 1
                 PROVE  g[n] = IF n = 0 THEN 0 ELSE g[n - 1] + w[n].bytes
      BY Zenon
    <3>1. CASE n = m + 1
      BY <3>1
    <3>2. CASE n \in 0..m
      <4>1. g[n] = f[n]
        BY <3>2
      <4>2. n # 0 => g[n - 1] = f[n - 1]
        BY <3>2
      <4>3. f[n] = IF n = 0 THEN 0 ELSE f[n - 1] + w[n].bytes
        <5> HIDE DEF g
        <5> QED BY <2>1, <3>2, Zenon
      <4> QED BY <4>1, <4>2, <4>3
    <3> QED BY <3>1, <3>2
  <2>3. m + 1 \in Nat
    OBVIOUS
  <2> QED BY <2>2, <2>3, Zenon
<1>3. Len(w) \in T
  <2> HIDE DEF T
  <2> QED BY <1>1, <1>2, Induction
<1>4. \E f : IsRunning(f, w)
  BY <1>3, Zenon DEF IsRunning
<1> QED BY <1>4, Zenon DEF RunningSum, IsRunning, SumBytes

(* What the running sums are: they start at zero and grow by the size of     *)
(* each chunk, so they are naturals.                                         *)
LEMMA RunningSumFacts ==
  ASSUME NEW w \in Seq(Chunk)
  PROVE  /\ RunningSum(w)[0] = 0
         /\ \A n \in 1..Len(w) :
              RunningSum(w)[n] = RunningSum(w)[n - 1] + w[n].bytes
         /\ \A n \in 0..Len(w) : RunningSum(w)[n] \in Nat
<1> DEFINE f == RunningSum(w)
           T == {m \in Nat : m <= Len(w) => f[m] \in Nat}
<1>1. f = [n \in 0..Len(w) |-> IF n = 0 THEN 0 ELSE f[n - 1] + w[n].bytes]
  BY RunningSumExists, Zenon DEF IsRunning
<1> HIDE DEF f
<1>2. f[0] = 0
  <2>1. 0 \in 0..Len(w)
    OBVIOUS
  <2> QED BY <1>1, <2>1, Zenon
<1>3. ASSUME NEW n \in 1..Len(w) PROVE f[n] = f[n - 1] + w[n].bytes
  <2>1. n \in 0..Len(w) /\ n # 0
    OBVIOUS
  <2> QED BY <1>1, <2>1, Zenon
<1>4. 0 \in T
  BY <1>2
<1>5. ASSUME NEW m \in Nat, m \in T PROVE m + 1 \in T
  <2> SUFFICES ASSUME m + 1 <= Len(w) PROVE f[m + 1] \in Nat
    OBVIOUS
  <2>1. f[m + 1] = f[m] + w[m + 1].bytes
    BY <1>3
  <2>2. w[m + 1] \in Chunk
    OBVIOUS
  <2> QED BY <1>5, <2>1, <2>2 DEF Chunk
<1>6. \A m \in Nat : m \in T
  <2> HIDE DEF T
  <2> QED BY <1>4, <1>5, Induction
<1> QED BY <1>2, <1>3, <1>6 DEF f

(* Appending a chunk to the buffer adds its size.                            *)
LEMMA SumAppend ==
  ASSUME NEW w \in Seq(Chunk), NEW c \in Chunk
  PROVE  SumBytes(Append(w, c)) = SumBytes(w) + c.bytes
<1> DEFINE v == Append(w, c)
           f == RunningSum(w)
           g == RunningSum(v)
           T == {m \in Nat : m <= Len(w) => g[m] = f[m]}
<1>1. /\ v \in Seq(Chunk) /\ Len(v) = Len(w) + 1
      /\ v[Len(w) + 1] = c
      /\ \A n \in 1..Len(w) : v[n] = w[n]
  OBVIOUS
<1> HIDE DEF v
<1>2. 0 \in T
  BY <1>1, RunningSumFacts
<1>3. ASSUME NEW m \in Nat, m \in T PROVE m + 1 \in T
  <2> SUFFICES ASSUME m + 1 <= Len(w) PROVE g[m + 1] = f[m + 1]
    OBVIOUS
  <2>1. m + 1 \in 1..Len(w) /\ m + 1 \in 1..Len(v) /\ (m + 1) - 1 = m
    BY <1>1
  <2>2. g[m + 1] = g[m] + v[m + 1].bytes
    BY <1>1, <2>1, RunningSumFacts
  <2>3. f[m + 1] = f[m] + w[m + 1].bytes
    BY <2>1, RunningSumFacts
  <2> QED BY <1>1, <1>3, <2>1, <2>2, <2>3
<1>4. \A m \in Nat : m \in T
  <2> HIDE DEF T
  <2> QED BY <1>2, <1>3, Induction
<1>5. g[Len(w)] = f[Len(w)]
  BY <1>4
<1>6. g[Len(v)] = g[Len(w)] + v[Len(v)].bytes
  <2>1. Len(v) \in 1..Len(v) /\ Len(v) - 1 = Len(w)
    BY <1>1
  <2> QED BY <1>1, <2>1, RunningSumFacts
<1> QED BY <1>1, <1>5, <1>6, RunningSumExists DEF v

(* Taking the head off the buffer subtracts its size.                        *)
LEMMA SumTail ==
  ASSUME NEW w \in Seq(Chunk), w # <<>>
  PROVE  SumBytes(w) = Head(w).bytes + SumBytes(Tail(w))
<1> DEFINE v == Tail(w)
           f == RunningSum(w)
           g == RunningSum(v)
           T == {m \in Nat : m <= Len(v) => f[m + 1] = Head(w).bytes + g[m]}
<1>1. /\ v \in Seq(Chunk) /\ Len(w) = Len(v) + 1 /\ Len(v) \in Nat
      /\ Head(w) = w[1] /\ w[1] \in Chunk
      /\ \A n \in 1..Len(v) : v[n] = w[n + 1] /\ v[n] \in Chunk
  OBVIOUS
<1> HIDE DEF v
<1>2. 0 \in T
  <2>1. f[1] = f[0] + w[1].bytes /\ f[0] = 0 /\ g[0] = 0
    BY <1>1, RunningSumFacts
  <2>2. w[1].bytes \in Nat
    BY <1>1 DEF Chunk
  <2> QED BY <1>1, <2>1, <2>2
<1>3. ASSUME NEW m \in Nat, m \in T PROVE m + 1 \in T
  <2> SUFFICES ASSUME m + 1 <= Len(v)
               PROVE f[m + 2] = Head(w).bytes + g[m + 1]
    OBVIOUS
  <2>1. /\ m + 1 \in 1..Len(v) /\ m + 2 \in 1..Len(w) /\ m \in 0..Len(v)
        /\ (m + 1) - 1 = m /\ (m + 2) - 1 = m + 1 /\ (m + 1) + 1 = m + 2
    BY <1>1
  <2>2. g[m + 1] = g[m] + v[m + 1].bytes /\ g[m] \in Nat
    BY <1>1, <2>1, RunningSumFacts
  <2>3. f[m + 2] = f[m + 1] + w[m + 2].bytes
    BY <2>1, RunningSumFacts
  <2>4. w[m + 2] = v[m + 1] /\ v[m + 1].bytes \in Nat /\ w[1].bytes \in Nat
    BY <1>1, <2>1 DEF Chunk
  <2>5. f[m + 1] = Head(w).bytes + g[m]
    BY <1>3, <2>1
  <2> QED BY <1>1, <2>2, <2>3, <2>4, <2>5
<1>4. \A m \in Nat : m \in T
  <2> HIDE DEF T
  <2> QED BY <1>2, <1>3, Induction
<1>5. f[Len(w)] = Head(w).bytes + g[Len(v)]
  BY <1>1, <1>4
<1> QED BY <1>1, <1>5, RunningSumExists DEF v

----------------------------------------------------------------------------
(* Adding traffic counts adds bytes and chunks.                              *)
LEMMA AddTrafficTyped ==
  /\ \A t, u \in TrafficCount :
       /\ AddTraffic(t, u) \in TrafficCount
       /\ AddTraffic(t, u).bytes = t.bytes + u.bytes
       /\ AddTraffic(t, u).chunks = t.chunks + u.chunks
  /\ \A c \in Chunk :
       One(c) \in TrafficCount /\ One(c).bytes = c.bytes /\ One(c).chunks = 1
<1>1. ASSUME NEW t \in TrafficCount, NEW u \in TrafficCount
      PROVE  /\ AddTraffic(t, u) \in TrafficCount
             /\ AddTraffic(t, u).bytes = t.bytes + u.bytes
             /\ AddTraffic(t, u).chunks = t.chunks + u.chunks
  BY DEF AddTraffic, TrafficCount
<1>2. ASSUME NEW c \in Chunk
      PROVE  One(c) \in TrafficCount /\ One(c).bytes = c.bytes /\ One(c).chunks = 1
  BY DEF One, TrafficCount, Chunk
<1> QED BY <1>1, <1>2

(* admit() on an idle link: the chunk goes to the serializer.                *)
LEMMA AdmitIdle ==
  ASSUME NEW s \in Service, NEW c \in Chunk, NEW t \in Nat, NEW e \in Nat,
         s.active = None
  PROVE  LET n == ServiceAdmit(Config, s, c, t, e)
         IN /\ n \in Service
            /\ n.active = c /\ n.completion = e /\ n.busySince = t
            /\ n.waiting = s.waiting /\ n.waitingBytes = s.waitingBytes
            /\ n.maxWaitingBytes = s.maxWaitingBytes
            /\ n.maxWaitingChunks = s.maxWaitingChunks
            /\ n.statistics.completed = s.statistics.completed
            /\ n.statistics.droppedBufferFull = s.statistics.droppedBufferFull
            /\ n.statistics.droppedLinkDown = s.statistics.droppedLinkDown
            /\ n.statistics.busyTime = s.statistics.busyTime
<1> DEFINE st == [s.statistics EXCEPT !.enqueued = AddTraffic(@, One(c)),
                                      !.started = AddTraffic(@, One(c)),
                                      !.marked = @]
           n == [[s EXCEPT !.active = c] EXCEPT !.statistics = st,
                                                !.completion = e,
                                                !.busySince = t]
<1>1. ServiceAdmit(Config, s, c, t, e) = n
  BY Zenon DEF ServiceAdmit, QueueAdmit, Disposition, PredictedAdmission
<1>2. /\ st \in LinkStatistics
      /\ st.completed = s.statistics.completed
      /\ st.droppedBufferFull = s.statistics.droppedBufferFull
      /\ st.droppedLinkDown = s.statistics.droppedLinkDown
      /\ st.busyTime = s.statistics.busyTime
  <2>1. s.statistics \in LinkStatistics
    BY DEF Service
  <2>2. /\ AddTraffic(s.statistics.enqueued, One(c)) \in TrafficCount
        /\ AddTraffic(s.statistics.started, One(c)) \in TrafficCount
    BY <2>1, AddTrafficTyped DEF LinkStatistics
  <2> QED BY <2>1, <2>2 DEF LinkStatistics
<1> HIDE DEF st
<1>3. /\ n \in Service
      /\ n.active = c /\ n.completion = e /\ n.busySince = t
      /\ n.waiting = s.waiting /\ n.waitingBytes = s.waitingBytes
      /\ n.maxWaitingBytes = s.maxWaitingBytes
      /\ n.maxWaitingChunks = s.maxWaitingChunks
      /\ n.statistics = st
  BY <1>2 DEF Service
<1> QED BY <1>1, <1>2, <1>3, Zenon

(* admit() on a busy link whose buffer has room: the chunk joins the end of  *)
(* the buffer, perhaps marked.                                               *)
LEMMA AdmitQueued ==
  ASSUME NEW s \in Service, NEW c \in Chunk, NEW t \in Nat, NEW e \in Nat,
         Config.capacity \in Nat, s.active # None, Fits(Config, s, c)
  PROVE  LET n == ServiceAdmit(Config, s, c, t, e)
         IN /\ n \in Service
            /\ \E q \in Chunk : q.bytes = c.bytes /\ n.waiting = Append(s.waiting, q)
            /\ n.active = s.active /\ n.completion = s.completion
            /\ n.busySince = s.busySince
            /\ n.waitingBytes = s.waitingBytes + c.bytes
            /\ n.maxWaitingBytes = MaxOf(s.maxWaitingBytes, s.waitingBytes + c.bytes)
            /\ n.maxWaitingChunks = MaxOf(s.maxWaitingChunks, Len(s.waiting) + 1)
            /\ n.statistics.completed = s.statistics.completed
            /\ n.statistics.droppedBufferFull = s.statistics.droppedBufferFull
            /\ n.statistics.droppedLinkDown = s.statistics.droppedLinkDown
            /\ n.statistics.busyTime = s.statistics.busyTime
<1> DEFINE mark == Marks(Config, s, c)
           q == [c EXCEPT !.marked = @ \/ mark]
           st == [s.statistics EXCEPT
                    !.enqueued = AddTraffic(@, One(c)),
                    !.started = @,
                    !.marked = IF mark THEN AddTraffic(@, One(c)) ELSE @]
           n == [[s EXCEPT !.waiting = Append(@, q),
                           !.waitingBytes = s.waitingBytes + c.bytes,
                           !.maxWaitingBytes = MaxOf(@, s.waitingBytes + c.bytes),
                           !.maxWaitingChunks = MaxOf(@, Len(s.waiting) + 1)]
                   EXCEPT !.statistics = st, !.completion = @, !.busySince = @]
<1>1. ServiceAdmit(Config, s, c, t, e) = n
  <2>1. ~(c.bytes > Config.capacity - s.waitingBytes)
    BY DEF Fits, Service, Chunk
  <2>2. Disposition(Config, s, c) = "Queued"
    BY DEF Disposition
  <2>3. QueueAdmit(Config, s, c) =
          [s EXCEPT !.waiting = Append(@, q),
                    !.waitingBytes = s.waitingBytes + c.bytes,
                    !.maxWaitingBytes = MaxOf(@, s.waitingBytes + c.bytes),
                    !.maxWaitingChunks = MaxOf(@, Len(s.waiting) + 1)]
    BY <2>2, Zenon DEF QueueAdmit
  <2>4. PredictedAdmission(Config, s, c) = st
    BY <2>1, Zenon DEF PredictedAdmission
  <2> QED BY <2>3, <2>4, Zenon DEF ServiceAdmit
<1>2. q \in Chunk /\ q.bytes = c.bytes
  <2>1. (c.marked \/ mark) \in BOOLEAN
    BY Zenon
  <2> DEFINE b == c.marked \/ mark
  <2>2. q = [c EXCEPT !.marked = b]
    BY Zenon
  <2>3. b \in BOOLEAN
    BY <2>1
  <2> HIDE DEF b
  <2>4. [c EXCEPT !.marked = b] \in Chunk /\ [c EXCEPT !.marked = b].bytes = c.bytes
    BY <2>3 DEF Chunk
  <2> QED BY <2>2, <2>4, Zenon
<1>3. /\ st \in LinkStatistics
      /\ st.completed = s.statistics.completed
      /\ st.droppedBufferFull = s.statistics.droppedBufferFull
      /\ st.droppedLinkDown = s.statistics.droppedLinkDown
      /\ st.busyTime = s.statistics.busyTime
  <2>1. s.statistics \in LinkStatistics
    BY DEF Service
  <2>2. /\ AddTraffic(s.statistics.enqueued, One(c)) \in TrafficCount
        /\ AddTraffic(s.statistics.marked, One(c)) \in TrafficCount
    BY <2>1, AddTrafficTyped DEF LinkStatistics
  <2> HIDE DEF mark
  <2> QED BY <2>1, <2>2 DEF LinkStatistics
<1> HIDE DEF q, st
<1>4. /\ n.waiting = Append(s.waiting, q) /\ n.active = s.active
      /\ n.completion = s.completion /\ n.busySince = s.busySince
      /\ n.waitingBytes = s.waitingBytes + c.bytes
      /\ n.maxWaitingBytes = MaxOf(s.maxWaitingBytes, s.waitingBytes + c.bytes)
      /\ n.maxWaitingChunks = MaxOf(s.maxWaitingChunks, Len(s.waiting) + 1)
      /\ n.statistics = st
  BY DEF Service
<1>5. n \in Service
  <2>1. Append(s.waiting, q) \in Seq(Chunk) /\ Len(s.waiting) \in Nat
    BY <1>2 DEF Service
  <2>2. s.waitingBytes + c.bytes \in Nat
    BY DEF Service, Chunk
  <2>3. /\ MaxOf(s.maxWaitingBytes, s.waitingBytes + c.bytes) \in Nat
        /\ MaxOf(s.maxWaitingChunks, Len(s.waiting) + 1) \in Nat
    BY <2>1, <2>2 DEF MaxOf, Service
  <2> QED BY <1>3, <2>1, <2>2, <2>3 DEF Service
<1> QED BY <1>1, <1>2, <1>3, <1>4, <1>5, Zenon

(* admit() on a busy link whose buffer has no room: only the drop is booked. *)
LEMMA AdmitDropped ==
  ASSUME NEW s \in Service, NEW c \in Chunk, NEW t \in Nat, NEW e \in Nat,
         Config.capacity \in Nat, s.active # None, ~Fits(Config, s, c)
  PROVE  ServiceAdmit(Config, s, c, t, e) =
           [s EXCEPT !.statistics.droppedBufferFull = AddTraffic(@, One(c))]
<1>1. c.bytes > Config.capacity - s.waitingBytes
  BY DEF Fits, Service, Chunk
<1>2. Disposition(Config, s, c) = "DroppedBufferFull"
  BY DEF Disposition
<1>3. QueueAdmit(Config, s, c) = s
  BY <1>2 DEF QueueAdmit
<1>4. PredictedAdmission(Config, s, c) =
        [s.statistics EXCEPT !.droppedBufferFull = AddTraffic(@, One(c))]
  BY <1>1, Zenon DEF PredictedAdmission
<1>5. ServiceAdmit(Config, s, c, t, e) =
        [s EXCEPT !.statistics = PredictedAdmission(Config, s, c),
                  !.completion = @, !.busySince = @]
  BY <1>3, Zenon DEF ServiceAdmit
<1> HIDE DEF PredictedAdmission
<1> QED BY <1>4, <1>5 DEF Service

(* Dropping a chunk changes one counter of the statistics.                   *)
LEMMA DropBooked ==
  ASSUME NEW s \in Service, NEW c \in Chunk,
         NEW n \in {[s EXCEPT !.statistics.droppedBufferFull = AddTraffic(@, One(c))],
                    [s EXCEPT !.statistics.droppedLinkDown = AddTraffic(@, One(c))]}
  PROVE  /\ n \in Service
         /\ n.active = s.active /\ n.completion = s.completion
         /\ n.busySince = s.busySince /\ n.waiting = s.waiting
         /\ n.waitingBytes = s.waitingBytes
         /\ n.maxWaitingBytes = s.maxWaitingBytes
         /\ n.maxWaitingChunks = s.maxWaitingChunks
         /\ n.statistics.completed = s.statistics.completed
         /\ n.statistics.busyTime = s.statistics.busyTime
         /\ n.statistics.droppedBufferFull.bytes + n.statistics.droppedLinkDown.bytes
              = s.statistics.droppedBufferFull.bytes
                + s.statistics.droppedLinkDown.bytes + c.bytes
         /\ n.statistics.droppedBufferFull.chunks + n.statistics.droppedLinkDown.chunks
              = s.statistics.droppedBufferFull.chunks
                + s.statistics.droppedLinkDown.chunks + 1
<1>1. s.statistics \in LinkStatistics
  BY DEF Service
<1>2. c.bytes \in Nat
  BY DEF Chunk
<1>3. CASE n = [s EXCEPT !.statistics.droppedBufferFull = AddTraffic(@, One(c))]
  <2> DEFINE d == AddTraffic(s.statistics.droppedBufferFull, One(c))
  <2>1. /\ d \in TrafficCount
        /\ d.bytes = s.statistics.droppedBufferFull.bytes + c.bytes
        /\ d.chunks = s.statistics.droppedBufferFull.chunks + 1
    BY <1>1, AddTrafficTyped DEF LinkStatistics
  <2> HIDE DEF d
  <2> DEFINE st == [s.statistics EXCEPT !.droppedBufferFull = d]
  <2>2. n = [s EXCEPT !.statistics = st]
    BY <1>3, Zenon DEF d
  <2>3. /\ st \in LinkStatistics /\ st.droppedBufferFull = d
        /\ st.droppedLinkDown = s.statistics.droppedLinkDown
        /\ st.completed = s.statistics.completed
        /\ st.busyTime = s.statistics.busyTime
    BY <1>1, <2>1 DEF LinkStatistics
  <2> HIDE DEF st
  <2>4. /\ n \in Service /\ n.statistics = st
        /\ n.active = s.active /\ n.completion = s.completion
        /\ n.busySince = s.busySince /\ n.waiting = s.waiting
        /\ n.waitingBytes = s.waitingBytes
        /\ n.maxWaitingBytes = s.maxWaitingBytes
        /\ n.maxWaitingChunks = s.maxWaitingChunks
    BY <2>2, <2>3 DEF Service
  <2>5. /\ s.statistics.droppedBufferFull \in TrafficCount
        /\ s.statistics.droppedLinkDown \in TrafficCount
    BY <1>1 DEF LinkStatistics
  <2> QED BY <1>2, <2>1, <2>3, <2>4, <2>5 DEF TrafficCount
<1>4. CASE n = [s EXCEPT !.statistics.droppedLinkDown = AddTraffic(@, One(c))]
  <2> DEFINE d == AddTraffic(s.statistics.droppedLinkDown, One(c))
  <2>1. /\ d \in TrafficCount
        /\ d.bytes = s.statistics.droppedLinkDown.bytes + c.bytes
        /\ d.chunks = s.statistics.droppedLinkDown.chunks + 1
    BY <1>1, AddTrafficTyped DEF LinkStatistics
  <2> HIDE DEF d
  <2> DEFINE st == [s.statistics EXCEPT !.droppedLinkDown = d]
  <2>2. n = [s EXCEPT !.statistics = st]
    BY <1>4, Zenon DEF d
  <2>3. /\ st \in LinkStatistics /\ st.droppedLinkDown = d
        /\ st.droppedBufferFull = s.statistics.droppedBufferFull
        /\ st.completed = s.statistics.completed
        /\ st.busyTime = s.statistics.busyTime
    BY <1>1, <2>1 DEF LinkStatistics
  <2> HIDE DEF st
  <2>4. /\ n \in Service /\ n.statistics = st
        /\ n.active = s.active /\ n.completion = s.completion
        /\ n.busySince = s.busySince /\ n.waiting = s.waiting
        /\ n.waitingBytes = s.waitingBytes
        /\ n.maxWaitingBytes = s.maxWaitingBytes
        /\ n.maxWaitingChunks = s.maxWaitingChunks
    BY <2>2, <2>3 DEF Service
  <2>5. /\ s.statistics.droppedBufferFull \in TrafficCount
        /\ s.statistics.droppedLinkDown \in TrafficCount
    BY <1>1 DEF LinkStatistics
  <2> QED BY <1>2, <2>1, <2>3, <2>4, <2>5 DEF TrafficCount
<1> QED BY <1>3, <1>4

(* statistics(now) only rolls the busy time forward.                         *)
LEMMA StatisticsRolled ==
  ASSUME NEW s \in Service, NEW t \in Nat, None \notin Nat,
         s.busySince # None => s.busySince <= t
  PROVE  /\ Statistics(s, t) \in LinkStatistics
         /\ Traffic(Statistics(s, t)) = Traffic(s.statistics)
         /\ Statistics(s, t).started = s.statistics.started
         /\ Statistics(s, t).busyTime =
              s.statistics.busyTime
              + IF s.busySince = None THEN 0 ELSE t - s.busySince
<1>1. /\ s.statistics \in LinkStatistics /\ s.statistics.busyTime \in Nat
      /\ s.busySince \in Nat \cup {None}
  BY DEF Service, LinkStatistics
<1>2. CASE s.busySince = None
  BY <1>1, <1>2 DEF Statistics
<1>3. CASE s.busySince # None
  <2> DEFINE b == s.statistics.busyTime + (t - s.busySince)
             st == [s.statistics EXCEPT !.busyTime = b]
  <2>1. b \in Nat
    BY <1>1, <1>3
  <2>2. Statistics(s, t) = st
    BY <1>3, Zenon DEF Statistics
  <2> HIDE DEF b
  <2>3. /\ st \in LinkStatistics /\ st.busyTime = b
        /\ st.enqueued = s.statistics.enqueued /\ st.started = s.statistics.started
        /\ st.completed = s.statistics.completed /\ st.marked = s.statistics.marked
        /\ st.droppedBufferFull = s.statistics.droppedBufferFull
        /\ st.droppedLinkDown = s.statistics.droppedLinkDown
    BY <1>1, <2>1 DEF LinkStatistics
  <2> HIDE DEF st
  <2>4. Traffic(st) = Traffic(s.statistics)
    BY <2>3, Zenon DEF Traffic
  <2> QED BY <1>3, <2>2, <2>3, <2>4 DEF b
<1> QED BY <1>2, <1>3

(* handle_completion(): the active chunk is counted once as completed, the   *)
(* busy interval is closed, and the head of the buffer takes over.           *)
LEMMA CompletionOutcome ==
  ASSUME NEW s \in Service, NEW t \in Nat, NEW e \in Nat, None \notin Nat,
         s.active # None, s.active \in Chunk,
         s.waiting # <<>> => s.waitingBytes - Head(s.waiting).bytes \in Nat,
         s.busySince # None, s.busySince <= t
  PROVE  LET n == ServiceComplete(s, t, e)
         IN /\ n \in Service
            /\ n.maxWaitingBytes = s.maxWaitingBytes
            /\ n.maxWaitingChunks = s.maxWaitingChunks
            /\ n.statistics.completed = AddTraffic(s.statistics.completed, One(s.active))
            /\ n.statistics.droppedBufferFull = s.statistics.droppedBufferFull
            /\ n.statistics.droppedLinkDown = s.statistics.droppedLinkDown
            /\ n.statistics.busyTime = s.statistics.busyTime + (t - s.busySince)
            /\ s.waiting = <<>> =>
                 /\ n.active = None /\ n.completion = None /\ n.busySince = None
                 /\ n.waiting = <<>> /\ n.waitingBytes = s.waitingBytes
            /\ s.waiting # <<>> =>
                 /\ n.active = Head(s.waiting) /\ n.completion = e
                 /\ n.busySince = t /\ n.waiting = Tail(s.waiting)
                 /\ n.waitingBytes = s.waitingBytes - Head(s.waiting).bytes
<1> DEFINE st == Statistics(s, t)
           promoted == s.waiting # <<>>
           st2 == [st EXCEPT
                    !.completed = AddTraffic(@, One(s.active)),
                    !.started = IF promoted THEN AddTraffic(@, One(Head(s.waiting))) ELSE @]
           n == [CompleteService(s) EXCEPT !.statistics = st2,
                   !.completion = IF promoted THEN e ELSE None,
                   !.busySince = IF promoted THEN t ELSE None]
<1>1. ServiceComplete(s, t, e) = n
  BY Zenon DEF ServiceComplete
<1>2. /\ st \in LinkStatistics
      /\ st.completed = s.statistics.completed /\ st.started = s.statistics.started
      /\ st.droppedBufferFull = s.statistics.droppedBufferFull
      /\ st.droppedLinkDown = s.statistics.droppedLinkDown
      /\ st.busyTime = s.statistics.busyTime + (t - s.busySince)
  BY StatisticsRolled DEF Traffic
<1>3. /\ s.waiting \in Seq(Chunk)
      /\ promoted => Head(s.waiting) \in Chunk /\ Tail(s.waiting) \in Seq(Chunk)
  BY DEF Service
<1> HIDE DEF st
<1>4. /\ AddTraffic(st.completed, One(s.active)) \in TrafficCount
      /\ promoted => AddTraffic(st.started, One(Head(s.waiting))) \in TrafficCount
  BY <1>2, <1>3, AddTrafficTyped DEF LinkStatistics
<1>5. /\ st2 \in LinkStatistics
      /\ st2.completed = AddTraffic(s.statistics.completed, One(s.active))
      /\ st2.droppedBufferFull = s.statistics.droppedBufferFull
      /\ st2.droppedLinkDown = s.statistics.droppedLinkDown
      /\ st2.busyTime = s.statistics.busyTime + (t - s.busySince)
  BY <1>2, <1>4 DEF LinkStatistics
<1> HIDE DEF st2
<1>6. CASE s.waiting = <<>>
  <2>1. n = [[s EXCEPT !.active = None] EXCEPT !.statistics = st2,
               !.completion = None, !.busySince = None]
    BY <1>6, Zenon DEF CompleteService
  <2>2. /\ n \in Service
        /\ n.maxWaitingBytes = s.maxWaitingBytes
        /\ n.maxWaitingChunks = s.maxWaitingChunks
        /\ n.statistics = st2
        /\ n.active = None /\ n.completion = None /\ n.busySince = None
        /\ n.waiting = s.waiting /\ n.waitingBytes = s.waitingBytes
    BY <1>5, <2>1 DEF Service
  <2> QED BY <1>1, <1>5, <1>6, <2>2, Zenon
<1>7. CASE s.waiting # <<>>
  <2> DEFINE w == s.waitingBytes - Head(s.waiting).bytes
  <2>1. n = [[s EXCEPT !.active = Head(s.waiting), !.waiting = Tail(@),
                       !.waitingBytes = w]
               EXCEPT !.statistics = st2, !.completion = e, !.busySince = t]
    BY <1>7, Zenon DEF CompleteService
  <2>2. w \in Nat
    BY <1>7
  <2> HIDE DEF w
  <2>3. /\ n \in Service
        /\ n.maxWaitingBytes = s.maxWaitingBytes
        /\ n.maxWaitingChunks = s.maxWaitingChunks
        /\ n.statistics = st2
        /\ n.active = Head(s.waiting) /\ n.completion = e
        /\ n.busySince = t /\ n.waiting = Tail(s.waiting)
        /\ n.waitingBytes = w
    BY <1>3, <1>5, <1>7, <2>1, <2>2 DEF Service
  <2> QED BY <1>1, <1>5, <1>7, <2>3, Zenon DEF w
<1> QED BY <1>6, <1>7

(* reconcile_down(): whatever the link held is counted as dropped, and the   *)
(* busy interval is closed.                                                  *)
LEMMA DownOutcome ==
  ASSUME NEW s \in Service, NEW t \in Nat, None \notin Nat,
         s.busySince # None => s.busySince <= t
  PROVE  LET n == ReconcileDown(s, t)
             active == IF s.active = None THEN NoTraffic ELSE One(s.active)
         IN /\ n \in Service
            /\ n.active = None /\ n.completion = None /\ n.busySince = None
            /\ n.waiting = <<>> /\ n.waitingBytes = 0
            /\ n.maxWaitingBytes = s.maxWaitingBytes
            /\ n.maxWaitingChunks = s.maxWaitingChunks
            /\ n.statistics.completed = s.statistics.completed
            /\ n.statistics.droppedBufferFull = s.statistics.droppedBufferFull
            /\ n.statistics.droppedLinkDown.bytes =
                 s.statistics.droppedLinkDown.bytes + s.waitingBytes + active.bytes
            /\ n.statistics.droppedLinkDown.chunks =
                 s.statistics.droppedLinkDown.chunks + Len(s.waiting) + active.chunks
            /\ n.statistics.busyTime =
                 s.statistics.busyTime
                 + IF s.busySince = None THEN 0 ELSE t - s.busySince
<1> DEFINE waiting == [bytes |-> s.waitingBytes, chunks |-> Len(s.waiting)]
           active == IF s.active = None THEN NoTraffic ELSE One(s.active)
           dropped == IF s.active = None THEN waiting ELSE AddTraffic(waiting, One(s.active))
           st == Statistics(s, t)
           d == AddTraffic(st.droppedLinkDown, dropped)
           st2 == [st EXCEPT !.droppedLinkDown = d]
           n == [Drain(s) EXCEPT !.statistics = st2, !.completion = None,
                                 !.busySince = None]
<1>1. ReconcileDown(s, t) = n
  BY Zenon DEF ReconcileDown
<1>2. /\ st \in LinkStatistics
      /\ st.completed = s.statistics.completed
      /\ st.droppedBufferFull = s.statistics.droppedBufferFull
      /\ st.droppedLinkDown = s.statistics.droppedLinkDown
      /\ st.busyTime = s.statistics.busyTime
                       + IF s.busySince = None THEN 0 ELSE t - s.busySince
  BY StatisticsRolled DEF Traffic
<1>3. /\ s.active \in Chunk \cup {None} /\ s.waitingBytes \in Nat
      /\ Len(s.waiting) \in Nat /\ st.droppedLinkDown \in TrafficCount
  BY <1>2 DEF Service, LinkStatistics
<1> HIDE DEF st
<1>4. /\ dropped \in TrafficCount
      /\ dropped.bytes = s.waitingBytes + active.bytes
      /\ dropped.chunks = Len(s.waiting) + active.chunks
      /\ active \in TrafficCount
  <2>1. CASE s.active = None
    BY <1>3, <2>1 DEF TrafficCount, NoTraffic
  <2>2. CASE s.active # None
    <3>1. waiting \in TrafficCount
      BY <1>3 DEF TrafficCount
    <3> HIDE DEF waiting
    <3>2. dropped \in TrafficCount /\ dropped.bytes = waiting.bytes + s.active.bytes
          /\ dropped.chunks = waiting.chunks + 1
      BY <1>3, <2>2, <3>1, AddTrafficTyped
    <3>3. active.bytes = s.active.bytes /\ active.chunks = 1 /\ active \in TrafficCount
      BY <1>3, <2>2 DEF One, TrafficCount, Chunk
    <3> QED BY <3>2, <3>3 DEF waiting
  <2> QED BY <2>1, <2>2
<1> HIDE DEF dropped, active
<1>5. /\ d \in TrafficCount
      /\ d.bytes = s.statistics.droppedLinkDown.bytes + s.waitingBytes + active.bytes
      /\ d.chunks = s.statistics.droppedLinkDown.chunks + Len(s.waiting) + active.chunks
  <2>1. /\ d \in TrafficCount
        /\ d.bytes = st.droppedLinkDown.bytes + dropped.bytes
        /\ d.chunks = st.droppedLinkDown.chunks + dropped.chunks
    BY <1>3, <1>4, AddTrafficTyped
  <2>2. /\ st.droppedLinkDown.bytes \in Nat /\ st.droppedLinkDown.chunks \in Nat
        /\ active.bytes \in Nat /\ active.chunks \in Nat
    BY <1>3, <1>4 DEF TrafficCount
  <2> QED BY <1>2, <1>3, <1>4, <2>1, <2>2
<1> HIDE DEF d
<1>6. /\ st2 \in LinkStatistics /\ st2.droppedLinkDown = d
      /\ st2.completed = s.statistics.completed
      /\ st2.droppedBufferFull = s.statistics.droppedBufferFull
      /\ st2.busyTime = st.busyTime
  BY <1>2, <1>5 DEF LinkStatistics
<1> HIDE DEF st2
<1>7. /\ n \in Service
      /\ n.active = None /\ n.completion = None /\ n.busySince = None
      /\ n.waiting = <<>> /\ n.waitingBytes = 0
      /\ n.maxWaitingBytes = s.maxWaitingBytes
      /\ n.maxWaitingChunks = s.maxWaitingChunks
      /\ n.statistics = st2
  <2> DEFINE empty == <<>>
  <2>1. n = [[s EXCEPT !.active = None, !.waiting = empty, !.waitingBytes = 0]
               EXCEPT !.statistics = st2, !.completion = None, !.busySince = None]
    BY Zenon DEF Drain
  <2>2. empty \in Seq(Chunk)
    OBVIOUS
  <2> HIDE DEF empty
  <2>3. /\ n \in Service
        /\ n.active = None /\ n.completion = None /\ n.busySince = None
        /\ n.waiting = empty /\ n.waitingBytes = 0
        /\ n.maxWaitingBytes = s.maxWaitingBytes
        /\ n.maxWaitingChunks = s.maxWaitingChunks
        /\ n.statistics = st2
    <3> HIDE DEF n
    <3> QED BY <1>6, <2>1, <2>2 DEF Service
  <2> QED BY <2>3 DEF empty
<1> QED BY <1>1, <1>2, <1>5, <1>6, <1>7, Zenon DEF active

(* emit_link_metrics keeps the telemetry totals equal to the statistics.     *)
LEMMA MetricsFollow ==
  ASSUME NEW before \in LinkStatistics, NEW after \in LinkStatistics,
         metered = Traffic(before), EmitLinkMetrics(before, after)
  PROVE  metered' = Traffic(after) /\ reported' = after.busyTime
<1> DEFINE names == {"enqueued", "completed", "marked", "droppedBufferFull",
                     "droppedLinkDown"}
<1>1. /\ Traffic(before) \in [names -> TrafficCount] /\ Traffic(after) \in [names -> TrafficCount]
  BY DEF Traffic, LinkStatistics
<1>2. metered' = [c \in names |-> Delta(metered[c], Traffic(before)[c], Traffic(after)[c])]
  BY <1>1 DEF EmitLinkMetrics
<1> HIDE DEF names
<1>3. ASSUME NEW c \in names PROVE metered'[c] = Traffic(after)[c]
  <2>1. Traffic(before)[c] \in TrafficCount /\ Traffic(after)[c] \in TrafficCount
    BY <1>1
  <2> DEFINE x == Traffic(before)[c]  y == Traffic(after)[c]
  <2>2. metered'[c] = Delta(x, x, y)
    BY <1>2
  <2> HIDE DEF x, y
  <2>3. Delta(x, x, y) = y
    BY <2>1 DEF Delta, TrafficCount, x, y
  <2> QED BY <2>2, <2>3 DEF y
<1>4. metered' = Traffic(after)
  BY <1>1, <1>2, <1>3
<1> QED BY <1>4 DEF EmitLinkMetrics

----------------------------------------------------------------------------
LinkTyped ==
  /\ service \in Service
  /\ up \in BOOLEAN
  /\ now \in Nat /\ nextEvent \in Nat
  /\ offered \in TrafficCount
  /\ busyTicks \in Nat /\ reported \in Nat

(* The inductive invariant: the three properties of the link need each       *)
(* other.  A completion subtracts the head of the buffer from waiting_bytes_ *)
(* and closes a busy interval, so conservation and busy time rest on the     *)
(* agreement of serializer and kernel.                                       *)
LinkInv ==
  /\ LinkTyped
  /\ SerializerAgreesWithKernel
  /\ TrafficConserved
  /\ BusyTimeExact

(* The initial state satisfies the invariant.                                *)
LEMMA LinkInit == Init => LinkInv
<1> SUFFICES ASSUME Init PROVE LinkInv
  OBVIOUS
<1> USE LinkAssumption
<1>0. NoTraffic \in TrafficCount /\ NoTraffic.bytes = 0 /\ NoTraffic.chunks = 0
  BY DEF NoTraffic, TrafficCount
<1>1. NoStatistics \in LinkStatistics
  BY <1>0 DEF NoStatistics, LinkStatistics
<1>2. <<>> \in Seq(Chunk) /\ Len(<<>>) = 0
  OBVIOUS
<1>3. LinkTyped
  <2> DEFINE empty == <<>>
  <2>1. IdleService = [active |-> None, waiting |-> empty, waitingBytes |-> 0,
          maxWaitingBytes |-> 0, maxWaitingChunks |-> 0,
          completion |-> None, busySince |-> None, statistics |-> NoStatistics]
    BY DEF IdleService
  <2>2. empty \in Seq(Chunk)
    BY <1>2
  <2> HIDE DEF empty
  <2>3. IdleService \in Service
    BY <1>1, <2>1, <2>2 DEF Service
  <2> QED BY <1>0, <2>3 DEF Init, LinkTyped
<1>4. SerializerAgreesWithKernel
  BY DEF Init, IdleService, SerializerAgreesWithKernel
<1>5. TrafficConserved
  <2>1. SumBytes(<<>>) = 0
    <3>1. RunningSum(<<>>)[0] = 0
      BY <1>2, RunningSumFacts
    <3> QED BY <1>2, <3>1, RunningSumExists
  <2>2. Config.capacity \in Nat
    BY DEF ValidConfiguration
  <2>3. service.active = None /\ service.waiting = <<>> /\ service.waitingBytes = 0
        /\ service.maxWaitingBytes = 0 /\ service.maxWaitingChunks = 0
        /\ service.statistics = NoStatistics
    BY DEF Init, IdleService
  <2>4. NoStatistics.completed = NoTraffic /\ NoStatistics.droppedBufferFull = NoTraffic
        /\ NoStatistics.droppedLinkDown = NoTraffic
    BY DEF NoStatistics
  <2>5. InService.bytes = 0 /\ InService.chunks = 0
    BY <2>3 DEF InService
  <2>6. offered.bytes = 0 /\ offered.chunks = 0
    BY <1>0 DEF Init
  <2> QED BY <1>0, <1>2, <2>1, <2>2, <2>3, <2>4, <2>5, <2>6 DEF TrafficConserved
<1>6. BusyTimeExact
  BY DEF Init, IdleService, NoStatistics, BusyTimeExact, Statistics
<1> QED BY <1>3, <1>4, <1>5, <1>6 DEF LinkInv

(* Facts every step starts from.                                             *)
LEMMA LinkFacts ==
  ASSUME LinkInv
  PROVE  /\ None \notin Nat /\ None \notin Chunk /\ Config.capacity \in Nat
         /\ \A n \in Nat : SerializationDelay(Config, n) \in Nat
         /\ service.statistics \in LinkStatistics
         /\ service.waiting \in Seq(Chunk)
         /\ Len(service.waiting) \in Nat
         /\ service.active \in Chunk \cup {None}
         /\ service.busySince \in Nat \cup {None}
         /\ service.busySince = None <=> service.active = None
         /\ service.busySince # None => service.busySince <= now
         /\ metered = Traffic(Statistics(service, now))
         /\ Statistics(service, now) \in LinkStatistics
         /\ busyTicks = service.statistics.busyTime
              + IF service.busySince = None THEN 0 ELSE now - service.busySince
<1> USE LinkAssumption
<1>1. None \notin Nat /\ None \notin Chunk /\ Config.capacity \in Nat
      /\ Config.delay \in Nat
  BY DEF ValidConfiguration, Chunk
<1>2. ASSUME NEW n \in Nat PROVE SerializationDelay(Config, n) \in Nat
  BY <1>1 DEF SerializationDelay
<1>3. service \in Service /\ now \in Nat
  BY DEF LinkInv, LinkTyped
<1>4. /\ service.busySince = None <=> service.active = None
      /\ service.busySince # None => service.busySince <= now
  BY DEF LinkInv, SerializerAgreesWithKernel
<1>5. /\ Statistics(service, now) \in LinkStatistics
      /\ Traffic(Statistics(service, now)) = Traffic(service.statistics)
      /\ Statistics(service, now).busyTime = service.statistics.busyTime
              + IF service.busySince = None THEN 0 ELSE now - service.busySince
  BY <1>1, <1>3, <1>4, StatisticsRolled
<1>6. metered = Traffic(Statistics(service, now))
      /\ busyTicks = Statistics(service, now).busyTime
  BY <1>5 DEF LinkInv, BusyTimeExact
<1> QED BY <1>1, <1>2, <1>3, <1>4, <1>5, <1>6 DEF Service

(* What conservation says, with the types of its terms.                      *)
LEMMA TrafficFacts ==
  ASSUME LinkInv
  PROVE  LET st == service.statistics
         IN /\ service.waitingBytes = SumBytes(service.waiting)
            /\ service.waitingBytes \in Nat
            /\ service.waitingBytes <= service.maxWaitingBytes
            /\ service.maxWaitingBytes \in Nat /\ service.maxWaitingChunks \in Nat
            /\ service.maxWaitingBytes <= Config.capacity
            /\ Len(service.waiting) <= service.maxWaitingChunks
            /\ st.completed.bytes \in Nat /\ st.completed.chunks \in Nat
            /\ st.droppedBufferFull.bytes \in Nat /\ st.droppedBufferFull.chunks \in Nat
            /\ st.droppedLinkDown.bytes \in Nat /\ st.droppedLinkDown.chunks \in Nat
            /\ InService.bytes \in Nat /\ InService.chunks \in Nat
            /\ offered.bytes = st.completed.bytes + InService.bytes
                               + service.waitingBytes
                               + st.droppedBufferFull.bytes + st.droppedLinkDown.bytes
            /\ offered.chunks = st.completed.chunks + InService.chunks
                               + Len(service.waiting)
                               + st.droppedBufferFull.chunks + st.droppedLinkDown.chunks
<1>1. service \in Service
  BY DEF LinkInv, LinkTyped
<1>2. InService.bytes \in Nat /\ InService.chunks \in Nat
  BY LinkFacts DEF InService, Chunk
<1> DEFINE st == service.statistics
<1>3. /\ st.completed.bytes \in Nat /\ st.completed.chunks \in Nat
      /\ st.droppedBufferFull.bytes \in Nat /\ st.droppedBufferFull.chunks \in Nat
      /\ st.droppedLinkDown.bytes \in Nat /\ st.droppedLinkDown.chunks \in Nat
  BY LinkFacts DEF LinkStatistics, TrafficCount
<1>4. /\ service.waitingBytes \in Nat /\ service.maxWaitingBytes \in Nat
      /\ service.maxWaitingChunks \in Nat
  BY <1>1 DEF Service
<1> QED BY <1>2, <1>3, <1>4 DEF LinkInv, TrafficConserved

(* If the sum of the two drop counters grows by k, so does the total.        *)
LEMMA DropsAdded ==
  ASSUME NEW o \in Nat, NEW c \in Nat, NEW i \in Nat, NEW w \in Nat, NEW k \in Nat,
         NEW full \in Nat, NEW down \in Nat, NEW full2 \in Nat, NEW down2 \in Nat,
         o = c + i + w + full + down, full2 + down2 = full + down + k
  PROVE  o + k = c + i + w + full2 + down2
OBVIOUS

(* A step that emits metrics keeps the busy time exact, if what it books as  *)
(* busy adds up to the time the serializer was held.                         *)
LEMMA BusyTimeKept ==
  ASSUME LinkInv, service' \in Service, UNCHANGED <<now, busyTicks>>,
         service'.busySince # None => service'.busySince <= now,
         busyTicks = service'.statistics.busyTime
           + IF service'.busySince = None THEN 0 ELSE now - service'.busySince,
         EmitLinkMetrics(Statistics(service, now), Statistics(service', now))
  PROVE  BusyTimeExact' /\ reported' \in Nat
<1>1. now \in Nat /\ busyTicks \in Nat
  BY DEF LinkInv, LinkTyped
<1> DEFINE s == service'
<1>2. /\ Statistics(s, now) \in LinkStatistics
      /\ Traffic(Statistics(s, now)) = Traffic(s.statistics)
      /\ Statistics(s, now).busyTime = s.statistics.busyTime
              + IF s.busySince = None THEN 0 ELSE now - s.busySince
  <2>1. s \in Service /\ (s.busySince # None => s.busySince <= now)
    OBVIOUS
  <2> HIDE DEF s
  <2> QED BY <1>1, <2>1, LinkFacts, StatisticsRolled
<1>3. metered' = Traffic(Statistics(s, now)) /\ reported' = Statistics(s, now).busyTime
  <2> HIDE DEF s
  <2>1. EmitLinkMetrics(Statistics(service, now), Statistics(s, now))
    BY DEF s
  <2> QED BY <1>2, <2>1, LinkFacts, MetricsFollow
<1>4. reported' = busyTicks /\ Statistics(s, now).busyTime = busyTicks
      /\ metered' = Traffic(s.statistics)
  BY <1>2, <1>3
<1> QED BY <1>1, <1>4 DEF BusyTimeExact

(* Arrivals preserve the invariant, whatever the serializer does with them.  *)
LEMMA ArriveKeeps ==
  ASSUME LinkInv, NEW bytes \in ChunkSizes, Arrive(bytes)
  PROVE  LinkInv'
<1> DEFINE chunk == [id |-> offered.chunks, bytes |-> bytes, marked |-> FALSE]
<1>1. /\ service \in Service /\ now \in Nat /\ nextEvent \in Nat
      /\ offered \in TrafficCount /\ offered.bytes \in Nat /\ offered.chunks \in Nat
      /\ bytes \in Nat /\ busyTicks \in Nat
  BY LinkAssumption DEF LinkInv, LinkTyped, TrafficCount
<1>2. chunk \in Chunk /\ chunk.bytes = bytes /\ chunk.id = offered.chunks
  BY <1>1 DEF Chunk
<1> HIDE DEF chunk
<1>3. /\ service' = ServiceAdmit(Config, service, chunk, now, nextEvent)
      /\ scheduled' = IF service.active = None THEN scheduled \cup {Completion(chunk)}
                                               ELSE scheduled
      /\ nextEvent' = IF service.active = None THEN nextEvent + 1 ELSE nextEvent
      /\ offered' = AddTraffic(offered, One(chunk))
      /\ up' = up /\ now' = now /\ busyTicks' = busyTicks /\ up
  BY DEF Arrive, chunk
<1>4. EmitLinkMetrics(Statistics(service, now), Statistics(service', now))
  BY <1>3 DEF Arrive, chunk
<1>5. /\ offered' \in TrafficCount /\ offered'.bytes = offered.bytes + bytes
      /\ offered'.chunks = offered.chunks + 1
  BY <1>1, <1>2, <1>3, AddTrafficTyped
<1>6. nextEvent' \in Nat /\ now' \in Nat /\ busyTicks' \in Nat /\ up' \in BOOLEAN
  BY <1>1, <1>3 DEF LinkInv, LinkTyped
<1> DEFINE st == service.statistics
           st2 == service'.statistics
<1>7. /\ service.waitingBytes = SumBytes(service.waiting)
      /\ service.waitingBytes \in Nat /\ service.waitingBytes <= service.maxWaitingBytes
      /\ service.maxWaitingBytes \in Nat /\ service.maxWaitingChunks \in Nat
      /\ service.maxWaitingBytes <= Config.capacity
      /\ Len(service.waiting) <= service.maxWaitingChunks
      /\ offered.bytes = st.completed.bytes + InService.bytes + service.waitingBytes
                         + st.droppedBufferFull.bytes + st.droppedLinkDown.bytes
  BY TrafficFacts
<1>8. /\ st.completed.bytes \in Nat /\ st.completed.chunks \in Nat
      /\ st.droppedBufferFull.bytes \in Nat /\ st.droppedBufferFull.chunks \in Nat
      /\ st.droppedLinkDown.bytes \in Nat /\ st.droppedLinkDown.chunks \in Nat
      /\ InService.bytes \in Nat /\ InService.chunks \in Nat
  BY TrafficFacts
<1> DEFINE len == Len(service.waiting)
           len2 == Len(service'.waiting)
<1>0. Config.capacity \in Nat /\ len \in Nat
  BY LinkFacts
<1>a. offered.chunks = st.completed.chunks + InService.chunks + len
                         + st.droppedBufferFull.chunks + st.droppedLinkDown.chunks
  BY TrafficFacts
<1> HIDE DEF st
<1>b. ASSUME service.active # None, Fits(Config, service, chunk)
      PROVE  LET n == ServiceAdmit(Config, service, chunk, now, nextEvent)
             IN /\ n \in Service
                /\ \E q \in Chunk : q.bytes = chunk.bytes /\ n.waiting = Append(service.waiting, q)
                /\ n.active = service.active /\ n.completion = service.completion
                /\ n.busySince = service.busySince
                /\ n.waitingBytes = service.waitingBytes + chunk.bytes
                /\ n.maxWaitingBytes = MaxOf(service.maxWaitingBytes, service.waitingBytes + chunk.bytes)
                /\ n.maxWaitingChunks = MaxOf(service.maxWaitingChunks, Len(service.waiting) + 1)
                /\ n.statistics.completed = service.statistics.completed
                /\ n.statistics.droppedBufferFull = service.statistics.droppedBufferFull
                /\ n.statistics.droppedLinkDown = service.statistics.droppedLinkDown
                /\ n.statistics.busyTime = service.statistics.busyTime
  <2>1. service \in Service /\ chunk \in Chunk /\ now \in Nat /\ nextEvent \in Nat
        /\ Config.capacity \in Nat /\ service.active # None /\ Fits(Config, service, chunk)
    BY <1>0, <1>1, <1>2, <1>b
  <2> QED BY <2>1, AdmitQueued, Zenon
<1>9. CASE service.active = None
  <2>1. /\ service' \in Service
        /\ service'.active = chunk /\ service'.completion = nextEvent
        /\ service'.busySince = now
        /\ service'.waiting = service.waiting
        /\ service'.waitingBytes = service.waitingBytes
        /\ service'.maxWaitingBytes = service.maxWaitingBytes
        /\ service'.maxWaitingChunks = service.maxWaitingChunks
        /\ st2.completed = st.completed
        /\ st2.droppedBufferFull = st.droppedBufferFull
        /\ st2.droppedLinkDown = st.droppedLinkDown
        /\ st2.busyTime = st.busyTime
    BY <1>1, <1>2, <1>3, <1>9, AdmitIdle DEF st
  <2>2. chunk # None /\ now # None
    BY <1>1, <1>2, LinkFacts
  <2>3. SerializerAgreesWithKernel'
    <3>1. scheduled' = {[id |-> nextEvent,
                         at |-> now + SerializationDelay(Config, chunk.bytes),
                         chunk |-> chunk.id]}
      BY <1>3, <1>9 DEF LinkInv, SerializerAgreesWithKernel, Completion
    <3>2. SerializationDelay(Config, chunk.bytes) \in Nat
      BY <1>1, <1>2, LinkFacts
    <3> QED BY <1>1, <1>3, <2>1, <2>2, <3>1, <3>2 DEF SerializerAgreesWithKernel
  <2>4. TrafficConserved'
    <3>1. InService.bytes = 0 /\ InService.chunks = 0
      BY <1>9 DEF InService
    <3>2. InService'.bytes = bytes /\ InService'.chunks = 1
      BY <1>2, <2>1, <2>2 DEF InService
    <3>3. offered'.bytes = st2.completed.bytes + InService'.bytes + service'.waitingBytes
                         + st2.droppedBufferFull.bytes + st2.droppedLinkDown.bytes
      <4>1. offered.bytes = st.completed.bytes + InService.bytes + service.waitingBytes
                         + st.droppedBufferFull.bytes + st.droppedLinkDown.bytes
            /\ service.waitingBytes \in Nat
        BY <1>7
      <4> QED BY <1>1, <1>5, <1>8, <2>1, <3>1, <3>2, <4>1
    <3>4. offered'.chunks = st2.completed.chunks + InService'.chunks + Len(service'.waiting)
                         + st2.droppedBufferFull.chunks + st2.droppedLinkDown.chunks
      <4>1. len2 = len
        BY <2>1
      <4> HIDE DEF len, len2
      <4>2. offered'.chunks = st2.completed.chunks + InService'.chunks + len2
                         + st2.droppedBufferFull.chunks + st2.droppedLinkDown.chunks
        BY <1>0, <1>1, <1>5, <1>8, <1>a, <2>1, <3>1, <3>2, <4>1
      <4> QED BY <4>2 DEF len2
    <3> QED BY <1>7, <2>1, <3>3, <3>4 DEF TrafficConserved
  <2>5. BusyTimeExact' /\ reported' \in Nat
    <3>1. busyTicks = st.busyTime /\ st.busyTime \in Nat
      <4>1. service.busySince = None
        BY <1>9, LinkFacts
      <4>2. service.statistics \in LinkStatistics
        BY LinkFacts
      <4>3. service.statistics.busyTime \in Nat
        BY <4>2 DEF LinkStatistics
      <4>4. busyTicks = service.statistics.busyTime + 0
        BY <4>1, LinkFacts
      <4> QED BY <4>3, <4>4 DEF st
    <3> QED BY <1>1, <1>3, <1>4, <2>1, <2>2, <3>1, BusyTimeKept
  <2> QED BY <1>5, <1>6, <2>1, <2>3, <2>4, <2>5 DEF LinkInv, LinkTyped
<1>10. ASSUME service.active # None,
              service' \in Service, service'.active = service.active,
              service'.completion = service.completion,
              service'.busySince = service.busySince,
              st2.busyTime = st.busyTime
       PROVE  /\ SerializerAgreesWithKernel'
              /\ BusyTimeExact' /\ reported' \in Nat
              /\ InService' = InService
  <2>1. SerializerAgreesWithKernel'
    BY <1>3, <1>10 DEF LinkInv, SerializerAgreesWithKernel
  <2>2. BusyTimeExact' /\ reported' \in Nat
    BY <1>3, <1>4, <1>10, LinkFacts, BusyTimeKept DEF st
  <2> QED BY <1>10, <2>1, <2>2 DEF InService
<1>12. CASE service.active # None /\ Fits(Config, service, chunk)
  <2>1. PICK q \in Chunk : q.bytes = bytes /\ service'.waiting = Append(service.waiting, q)
    BY <1>2, <1>3, <1>b, <1>12, Zenon
  <2>2. /\ service' \in Service
        /\ service'.active = service.active
        /\ service'.completion = service.completion
        /\ service'.busySince = service.busySince
        /\ service'.waitingBytes = service.waitingBytes + bytes
        /\ service'.maxWaitingBytes =
             MaxOf(service.maxWaitingBytes, service.waitingBytes + bytes)
        /\ service'.maxWaitingChunks =
             MaxOf(service.maxWaitingChunks, Len(service.waiting) + 1)
        /\ st2.completed = st.completed
        /\ st2.droppedBufferFull = st.droppedBufferFull
        /\ st2.droppedLinkDown = st.droppedLinkDown
        /\ st2.busyTime = st.busyTime
    BY <1>2, <1>3, <1>b, <1>12, Zenon DEF st
  <2>3. TrafficConserved'
    <3>1. SumBytes(service'.waiting) = SumBytes(service.waiting) + bytes
      BY <2>1, SumAppend, LinkFacts
    <3>2. Len(service'.waiting) = Len(service.waiting) + 1 /\ Len(service.waiting) \in Nat
      BY <2>1, LinkFacts
    <3>3. service.waitingBytes + bytes <= Config.capacity /\ Config.capacity \in Nat
      BY <1>0, <1>1, <1>2, <1>7, <1>12 DEF Fits
    <3>4. InService' = InService
      BY <1>10, <1>12, <2>2
    <3>5. /\ service'.waitingBytes <= service'.maxWaitingBytes
          /\ service'.maxWaitingBytes <= Config.capacity
          /\ Len(service'.waiting) <= service'.maxWaitingChunks
      BY <1>1, <1>7, <2>2, <3>2, <3>3 DEF MaxOf
    <3> HIDE DEF st2
    <3>6. offered'.bytes = st2.completed.bytes + InService'.bytes + service'.waitingBytes
                         + st2.droppedBufferFull.bytes + st2.droppedLinkDown.bytes
      <4>1. offered'.bytes = offered.bytes + bytes
        BY <1>5
      <4>2. offered.bytes = st.completed.bytes + InService.bytes + service.waitingBytes
                         + st.droppedBufferFull.bytes + st.droppedLinkDown.bytes
        BY <1>7
      <4>3. service'.waitingBytes = service.waitingBytes + bytes
        BY <2>2
      <4>4. st2.completed = st.completed /\ st2.droppedBufferFull = st.droppedBufferFull
            /\ st2.droppedLinkDown = st.droppedLinkDown
        BY <2>2
      <4>5. service.waitingBytes \in Nat
        BY <1>7
      <4> QED BY <1>1, <1>8, <3>4, <4>1, <4>2, <4>3, <4>4, <4>5
    <3>7. offered'.chunks = st2.completed.chunks + InService'.chunks + Len(service'.waiting)
                         + st2.droppedBufferFull.chunks + st2.droppedLinkDown.chunks
      <4>1. offered'.chunks = offered.chunks + 1
        BY <1>5
      <4>2. len2 = len + 1
        BY <3>2
      <4>3. st2.completed = st.completed /\ st2.droppedBufferFull = st.droppedBufferFull
            /\ st2.droppedLinkDown = st.droppedLinkDown
        BY <2>2
      <4> HIDE DEF len, len2
      <4>4. offered'.chunks = st2.completed.chunks + InService'.chunks + len2
                         + st2.droppedBufferFull.chunks + st2.droppedLinkDown.chunks
        BY <1>0, <1>8, <1>a, <3>4, <4>1, <4>2, <4>3
      <4> QED BY <4>4 DEF len2
    <3> QED BY <1>1, <1>7, <2>2, <3>1, <3>5, <3>6, <3>7 DEF TrafficConserved, st2
  <2> QED BY <1>5, <1>6, <1>10, <1>12, <2>2, <2>3 DEF LinkInv, LinkTyped
<1>13. CASE service.active # None /\ ~Fits(Config, service, chunk)
  <2>1. service' = [service EXCEPT !.statistics.droppedBufferFull = AddTraffic(@, One(chunk))]
    BY <1>0, <1>1, <1>2, <1>3, <1>13, AdmitDropped
  <2>2. /\ service' \in Service
        /\ service'.active = service.active
        /\ service'.completion = service.completion
        /\ service'.busySince = service.busySince
        /\ service'.waiting = service.waiting
        /\ service'.waitingBytes = service.waitingBytes
        /\ service'.maxWaitingBytes = service.maxWaitingBytes
        /\ service'.maxWaitingChunks = service.maxWaitingChunks
        /\ st2.completed = st.completed
        /\ st2.busyTime = st.busyTime
        /\ st2.droppedBufferFull.bytes + st2.droppedLinkDown.bytes
             = st.droppedBufferFull.bytes + st.droppedLinkDown.bytes + bytes
        /\ st2.droppedBufferFull.chunks + st2.droppedLinkDown.chunks
             = st.droppedBufferFull.chunks + st.droppedLinkDown.chunks + 1
    <3>1. service' \in
            {[service EXCEPT !.statistics.droppedBufferFull = AddTraffic(@, One(chunk))],
             [service EXCEPT !.statistics.droppedLinkDown = AddTraffic(@, One(chunk))]}
      BY <2>1, Zenon
    <3> QED BY <1>1, <1>2, <3>1, DropBooked, Zenon DEF st
  <2>3. TrafficConserved'
    <3>1. /\ st2.droppedBufferFull.bytes \in Nat /\ st2.droppedLinkDown.bytes \in Nat
          /\ st2.droppedBufferFull.chunks \in Nat /\ st2.droppedLinkDown.chunks \in Nat
      BY <2>2 DEF Service, LinkStatistics, TrafficCount
    <3>2. InService' = InService
      BY <1>10, <1>13, <2>2
    <3>3. offered'.bytes = st2.completed.bytes + InService'.bytes + service'.waitingBytes
                         + st2.droppedBufferFull.bytes + st2.droppedLinkDown.bytes
      <4>1. offered.bytes = st.completed.bytes + InService.bytes + service.waitingBytes
                         + st.droppedBufferFull.bytes + st.droppedLinkDown.bytes
            /\ service.waitingBytes \in Nat
        BY <1>7
      <4>2. st2.droppedBufferFull.bytes + st2.droppedLinkDown.bytes
             = st.droppedBufferFull.bytes + st.droppedLinkDown.bytes + bytes
            /\ service'.waitingBytes = service.waitingBytes /\ st2.completed = st.completed
        BY <2>2
      <4> QED BY <1>1, <1>5, <1>8, <3>1, <3>2, <4>1, <4>2
    <3>4. offered'.chunks = st2.completed.chunks + InService'.chunks + Len(service'.waiting)
                         + st2.droppedBufferFull.chunks + st2.droppedLinkDown.chunks
      <4>1. len2 = len
        BY <2>2
      <4>2. st2.droppedBufferFull.chunks + st2.droppedLinkDown.chunks
             = st.droppedBufferFull.chunks + st.droppedLinkDown.chunks + 1
            /\ st2.completed = st.completed
        BY <2>2
      <4> HIDE DEF len, len2
      <4>3. offered'.chunks = st2.completed.chunks + InService'.chunks + len2
                         + st2.droppedBufferFull.chunks + st2.droppedLinkDown.chunks
        <5>1. /\ offered'.chunks = offered.chunks + 1
              /\ InService'.chunks = InService.chunks
              /\ st2.completed.chunks = st.completed.chunks
          BY <1>5, <3>2, <4>2
        <5>2. offered.chunks + 1 = st.completed.chunks + InService.chunks + len
                   + st2.droppedBufferFull.chunks + st2.droppedLinkDown.chunks
          BY <1>0, <1>1, <1>8, <1>a, <3>1, <4>2, DropsAdded
        <5> QED BY <4>1, <5>1, <5>2
      <4> QED BY <4>3 DEF len2
    <3> QED BY <1>7, <2>2, <3>3, <3>4 DEF TrafficConserved
  <2> QED BY <1>5, <1>6, <1>10, <1>13, <2>2, <2>3 DEF LinkInv, LinkTyped
<1> QED BY <1>9, <1>12, <1>13

(* A chunk that reaches a link that is down is counted as dropped.           *)
LEMMA ArriveDownKeeps ==
  ASSUME LinkInv, NEW bytes \in ChunkSizes, ArriveDown(bytes)
  PROVE  LinkInv'
<1> DEFINE chunk == [id |-> offered.chunks, bytes |-> bytes, marked |-> FALSE]
           st == service.statistics
           st2 == service'.statistics
           len == Len(service.waiting)
<1>1. /\ service \in Service /\ now \in Nat /\ nextEvent \in Nat
      /\ offered \in TrafficCount /\ offered.bytes \in Nat /\ offered.chunks \in Nat
      /\ bytes \in Nat /\ busyTicks \in Nat /\ up \in BOOLEAN /\ len \in Nat
  BY LinkAssumption, LinkFacts DEF LinkInv, LinkTyped, TrafficCount
<1>2. chunk \in Chunk /\ chunk.bytes = bytes
  BY <1>1 DEF Chunk
<1> HIDE DEF chunk
<1>3. /\ service' = RecordLinkDown(service, chunk)
      /\ offered' = AddTraffic(offered, One(chunk))
      /\ UNCHANGED <<up, now, nextEvent, scheduled, busyTicks>>
  BY DEF ArriveDown, chunk
<1>4. EmitLinkMetrics(Statistics(service, now), Statistics(service', now))
  BY <1>3 DEF ArriveDown, chunk
<1>5. /\ offered' \in TrafficCount /\ offered'.bytes = offered.bytes + bytes
      /\ offered'.chunks = offered.chunks + 1
  BY <1>1, <1>2, <1>3, AddTrafficTyped
<1>6. /\ service' \in Service
      /\ service'.active = service.active
      /\ service'.completion = service.completion
      /\ service'.busySince = service.busySince
      /\ service'.waiting = service.waiting
      /\ service'.waitingBytes = service.waitingBytes
      /\ service'.maxWaitingBytes = service.maxWaitingBytes
      /\ service'.maxWaitingChunks = service.maxWaitingChunks
      /\ st2.completed = st.completed
      /\ st2.busyTime = st.busyTime
      /\ st2.droppedBufferFull.bytes + st2.droppedLinkDown.bytes
           = st.droppedBufferFull.bytes + st.droppedLinkDown.bytes + bytes
      /\ st2.droppedBufferFull.chunks + st2.droppedLinkDown.chunks
           = st.droppedBufferFull.chunks + st.droppedLinkDown.chunks + 1
  <2>1. service' \in
          {[service EXCEPT !.statistics.droppedBufferFull = AddTraffic(@, One(chunk))],
           [service EXCEPT !.statistics.droppedLinkDown = AddTraffic(@, One(chunk))]}
    BY <1>3, Zenon DEF RecordLinkDown
  <2> QED BY <1>1, <1>2, <2>1, DropBooked, Zenon
<1>7. SerializerAgreesWithKernel'
  BY <1>3, <1>6 DEF LinkInv, SerializerAgreesWithKernel
<1>8. BusyTimeExact' /\ reported' \in Nat
  BY <1>3, <1>4, <1>6, LinkFacts, BusyTimeKept
<1>9. TrafficConserved'
  <2>1. /\ st2.droppedBufferFull.bytes \in Nat /\ st2.droppedLinkDown.bytes \in Nat
        /\ st2.droppedBufferFull.chunks \in Nat /\ st2.droppedLinkDown.chunks \in Nat
    BY <1>6 DEF Service, LinkStatistics, TrafficCount
  <2>2. InService' = InService
    BY <1>6 DEF InService
  <2>3. /\ st.completed.bytes \in Nat /\ st.completed.chunks \in Nat
        /\ st.droppedBufferFull.bytes \in Nat /\ st.droppedBufferFull.chunks \in Nat
        /\ st.droppedLinkDown.bytes \in Nat /\ st.droppedLinkDown.chunks \in Nat
        /\ InService.bytes \in Nat /\ InService.chunks \in Nat
        /\ service.waitingBytes \in Nat
        /\ offered.bytes = st.completed.bytes + InService.bytes + service.waitingBytes
                           + st.droppedBufferFull.bytes + st.droppedLinkDown.bytes
        /\ offered.chunks = st.completed.chunks + InService.chunks + len
                           + st.droppedBufferFull.chunks + st.droppedLinkDown.chunks
    BY TrafficFacts
  <2> HIDE DEF st, st2, len
  <2>4. offered'.bytes = st2.completed.bytes + InService'.bytes + service.waitingBytes
                         + st2.droppedBufferFull.bytes + st2.droppedLinkDown.bytes
    <3>1. /\ offered'.bytes = offered.bytes + bytes
          /\ InService'.bytes = InService.bytes
          /\ st2.completed.bytes = st.completed.bytes
          /\ st2.droppedBufferFull.bytes + st2.droppedLinkDown.bytes
               = st.droppedBufferFull.bytes + st.droppedLinkDown.bytes + bytes
      BY <1>5, <1>6, <2>2
    <3>2. offered.bytes + bytes = st.completed.bytes + InService.bytes + service.waitingBytes
               + st2.droppedBufferFull.bytes + st2.droppedLinkDown.bytes
      <4> DEFINE full == st.droppedBufferFull.bytes   full2 == st2.droppedBufferFull.bytes
                 down == st.droppedLinkDown.bytes     down2 == st2.droppedLinkDown.bytes
                 c == st.completed.bytes  i == InService.bytes  w == service.waitingBytes  o == offered.bytes
      <4>1. /\ o \in Nat /\ c \in Nat /\ i \in Nat /\ w \in Nat /\ bytes \in Nat
            /\ full \in Nat /\ down \in Nat /\ full2 \in Nat /\ down2 \in Nat
        BY <1>1, <2>1, <2>3
      <4>2. o = c + i + w + full + down /\ full2 + down2 = full + down + bytes
        BY <2>3, <3>1
      <4> HIDE DEF full, full2, down, down2, c, i, w, o
      <4>3. o + bytes = c + i + w + full2 + down2
        BY <4>1, <4>2
      <4> QED BY <4>3 DEF full2, down2, c, i, w, o
    <3> QED BY <3>1, <3>2
  <2>5. offered'.chunks = st2.completed.chunks + InService'.chunks + len
                         + st2.droppedBufferFull.chunks + st2.droppedLinkDown.chunks
    <3>1. /\ offered'.chunks = offered.chunks + 1
          /\ InService'.chunks = InService.chunks
          /\ st2.completed.chunks = st.completed.chunks
          /\ st2.droppedBufferFull.chunks + st2.droppedLinkDown.chunks
               = st.droppedBufferFull.chunks + st.droppedLinkDown.chunks + 1
      BY <1>5, <1>6, <2>2
    <3>2. offered.chunks + 1 = st.completed.chunks + InService.chunks + len
               + st2.droppedBufferFull.chunks + st2.droppedLinkDown.chunks
      <4> DEFINE full == st.droppedBufferFull.chunks   full2 == st2.droppedBufferFull.chunks
                 down == st.droppedLinkDown.chunks     down2 == st2.droppedLinkDown.chunks
                 c == st.completed.chunks  i == InService.chunks  w == len  o == offered.chunks
      <4>1. /\ o \in Nat /\ c \in Nat /\ i \in Nat /\ w \in Nat /\ 1 \in Nat
            /\ full \in Nat /\ down \in Nat /\ full2 \in Nat /\ down2 \in Nat
        BY <1>1, <2>1, <2>3
      <4>2. o = c + i + w + full + down /\ full2 + down2 = full + down + 1
        BY <2>3, <3>1
      <4> HIDE DEF full, full2, down, down2, c, i, w, o
      <4>3. o + 1 = c + i + w + full2 + down2
        BY <4>1, <4>2
      <4> QED BY <4>3 DEF full2, down2, c, i, w, o
    <3> QED BY <3>1, <3>2
  <2> QED BY <1>6, <2>4, <2>5, TrafficFacts DEF TrafficConserved, st2, len
<1> QED BY <1>1, <1>3, <1>5, <1>6, <1>7, <1>8, <1>9 DEF LinkInv, LinkTyped

(* A failure of the link preserves the invariant: what it held is dropped,   *)
(* and the one pending completion is cancelled.                              *)
LEMMA GoDownKeeps ==
  ASSUME LinkInv, GoDown
  PROVE  LinkInv'
<1> DEFINE st == service.statistics
           st2 == service'.statistics
           len == Len(service.waiting)
           active == IF service.active = None THEN NoTraffic ELSE One(service.active)
<1>1. /\ service \in Service /\ now \in Nat /\ nextEvent \in Nat
      /\ offered \in TrafficCount /\ offered.bytes \in Nat /\ offered.chunks \in Nat
      /\ busyTicks \in Nat /\ len \in Nat /\ None \notin Nat
      /\ service.busySince # None => service.busySince <= now
      /\ service.active = None <=> service.busySince = None
  BY LinkFacts DEF LinkInv, LinkTyped, TrafficCount
<1>2. /\ service' = ReconcileDown(service, now) /\ up' = FALSE
      /\ scheduled' = AfterCancel
      /\ UNCHANGED <<now, nextEvent, offered, busyTicks>>
      /\ EmitLinkMetrics(Statistics(service, now), Statistics(service', now))
  BY DEF GoDown
<1>3. /\ service' \in Service
      /\ service'.active = None /\ service'.completion = None
      /\ service'.busySince = None
      /\ service'.waiting = <<>> /\ service'.waitingBytes = 0
      /\ service'.maxWaitingBytes = service.maxWaitingBytes
      /\ service'.maxWaitingChunks = service.maxWaitingChunks
      /\ st2.completed = st.completed
      /\ st2.droppedBufferFull = st.droppedBufferFull
      /\ st2.droppedLinkDown.bytes =
           st.droppedLinkDown.bytes + service.waitingBytes + active.bytes
      /\ st2.droppedLinkDown.chunks = st.droppedLinkDown.chunks + len + active.chunks
      /\ st2.busyTime = st.busyTime
           + IF service.busySince = None THEN 0 ELSE now - service.busySince
  BY <1>1, <1>2, DownOutcome, Zenon
<1>4. active.bytes = InService.bytes /\ active.chunks = InService.chunks
  BY DEF InService, NoTraffic, One
<1> HIDE DEF active
<1>5. SerializerAgreesWithKernel'
  <2>1. scheduled' = {}
    BY <1>2 DEF LinkInv, SerializerAgreesWithKernel, AfterCancel
  <2> QED BY <1>3, <2>1 DEF SerializerAgreesWithKernel
<1>6. BusyTimeExact' /\ reported' \in Nat
  <2>1. st2.busyTime = busyTicks
    BY <1>3, LinkFacts
  <2>2. st2.busyTime + 0 = busyTicks
    BY <1>1, <2>1
  <2> QED BY <1>2, <1>3, <2>2, BusyTimeKept
<1>7. TrafficConserved'
  <2>1. SumBytes(<<>>) = 0 /\ Len(<<>>) = 0
    <3>1. <<>> \in Seq(Chunk) /\ Len(<<>>) = 0
      OBVIOUS
    <3>2. RunningSum(<<>>)[0] = 0
      BY <3>1, RunningSumFacts
    <3> QED BY <3>1, <3>2, RunningSumExists
  <2>2. /\ st.completed.bytes \in Nat /\ st.completed.chunks \in Nat
        /\ st.droppedBufferFull.bytes \in Nat /\ st.droppedBufferFull.chunks \in Nat
        /\ st.droppedLinkDown.bytes \in Nat /\ st.droppedLinkDown.chunks \in Nat
        /\ InService.bytes \in Nat /\ InService.chunks \in Nat
        /\ service.waitingBytes \in Nat
        /\ offered.bytes = st.completed.bytes + InService.bytes + service.waitingBytes
                           + st.droppedBufferFull.bytes + st.droppedLinkDown.bytes
        /\ offered.chunks = st.completed.chunks + InService.chunks + len
                           + st.droppedBufferFull.chunks + st.droppedLinkDown.chunks
    BY TrafficFacts
  <2>3. InService'.bytes = 0 /\ InService'.chunks = 0
    BY <1>3 DEF InService
  <2> HIDE DEF st, st2, len
  <2>4. offered'.bytes = st2.completed.bytes + InService'.bytes + 0
                         + st2.droppedBufferFull.bytes + st2.droppedLinkDown.bytes
    <3>1. /\ offered'.bytes = offered.bytes
          /\ st2.completed.bytes = st.completed.bytes
          /\ st2.droppedBufferFull.bytes = st.droppedBufferFull.bytes
          /\ st2.droppedLinkDown.bytes =
               st.droppedLinkDown.bytes + service.waitingBytes + InService.bytes
      BY <1>2, <1>3, <1>4
    <3> QED BY <2>2, <2>3, <3>1
  <2>5. offered'.chunks = st2.completed.chunks + InService'.chunks + 0
                         + st2.droppedBufferFull.chunks + st2.droppedLinkDown.chunks
    <3>1. /\ offered'.chunks = offered.chunks
          /\ st2.completed.chunks = st.completed.chunks
          /\ st2.droppedBufferFull.chunks = st.droppedBufferFull.chunks
          /\ st2.droppedLinkDown.chunks = st.droppedLinkDown.chunks + len + InService.chunks
      BY <1>2, <1>3, <1>4
    <3> QED BY <1>1, <2>2, <2>3, <3>1
  <2>6. service.maxWaitingBytes \in Nat /\ service.maxWaitingBytes <= Config.capacity
        /\ service.maxWaitingChunks \in Nat
    BY TrafficFacts
  <2> QED BY <1>3, <2>1, <2>4, <2>5, <2>6 DEF TrafficConserved, st2
<1> QED BY <1>1, <1>2, <1>3, <1>5, <1>6, <1>7 DEF LinkInv, LinkTyped

(* A completion preserves the invariant: the active chunk leaves, and the    *)
(* head of the buffer, if there is one, takes over the serializer with the   *)
(* only pending completion.                                                  *)
LEMMA CompleteKeeps ==
  ASSUME LinkInv, NEW e \in scheduled, Complete(e)
  PROVE  LinkInv'
<1> DEFINE st == service.statistics
           st2 == service'.statistics
           len == Len(service.waiting)
           len2 == Len(service'.waiting)
<1>1. /\ service \in Service /\ now \in Nat /\ nextEvent \in Nat
      /\ offered \in TrafficCount /\ offered.bytes \in Nat /\ offered.chunks \in Nat
      /\ busyTicks \in Nat /\ len \in Nat /\ None \notin Nat
      /\ service.active # None /\ service.active \in Chunk
      /\ service.busySince # None /\ service.busySince <= now
      /\ service.busySince \in Nat
  BY LinkFacts DEF LinkInv, LinkTyped, TrafficCount, Complete
<1>2. /\ service' = ServiceComplete(service, now, nextEvent)
      /\ scheduled' = (scheduled \ {e}) \cup
                      (IF service.waiting # <<>>
                       THEN {Completion(Head(service.waiting))} ELSE {})
      /\ nextEvent' = IF service.waiting # <<>> THEN nextEvent + 1 ELSE nextEvent
      /\ UNCHANGED <<up, now, offered, busyTicks>>
      /\ EmitLinkMetrics(Statistics(service, now), Statistics(service', now))
  BY DEF Complete
<1>3. up /\ scheduled \ {e} = {}
  BY <1>1 DEF LinkInv, SerializerAgreesWithKernel
<1>4. service.waiting # <<>> =>
        /\ Head(service.waiting) \in Chunk /\ Tail(service.waiting) \in Seq(Chunk)
        /\ Head(service.waiting).bytes \in Nat
        /\ service.waitingBytes =
             Head(service.waiting).bytes + SumBytes(Tail(service.waiting))
        /\ SumBytes(Tail(service.waiting)) \in Nat
  <2> SUFFICES ASSUME service.waiting # <<>>
               PROVE  /\ Head(service.waiting) \in Chunk
                      /\ Tail(service.waiting) \in Seq(Chunk)
                      /\ Head(service.waiting).bytes \in Nat
                      /\ service.waitingBytes =
                           Head(service.waiting).bytes + SumBytes(Tail(service.waiting))
                      /\ SumBytes(Tail(service.waiting)) \in Nat
    OBVIOUS
  <2>1. service.waiting \in Seq(Chunk) /\ service.waitingBytes = SumBytes(service.waiting)
    BY LinkFacts, TrafficFacts
  <2>2. Head(service.waiting) \in Chunk /\ Tail(service.waiting) \in Seq(Chunk)
    BY <2>1
  <2>3. Head(service.waiting).bytes \in Nat
    BY <2>2 DEF Chunk
  <2>4. SumBytes(service.waiting) =
          Head(service.waiting).bytes + SumBytes(Tail(service.waiting))
    BY <2>1, SumTail
  <2>5. SumBytes(Tail(service.waiting)) \in Nat
    <3>1. Len(Tail(service.waiting)) \in 0..Len(Tail(service.waiting))
      BY <2>2
    <3> QED BY <2>2, <3>1, RunningSumExists, RunningSumFacts
  <2> QED BY <2>1, <2>2, <2>3, <2>4, <2>5
<1>5. service.waiting # <<>> => service.waitingBytes - Head(service.waiting).bytes \in Nat
  <2> SUFFICES ASSUME service.waiting # <<>>
               PROVE  service.waitingBytes - Head(service.waiting).bytes \in Nat
    OBVIOUS
  <2> DEFINE h == Head(service.waiting).bytes
             t == SumBytes(Tail(service.waiting))
  <2>1. h \in Nat /\ t \in Nat /\ service.waitingBytes = h + t
    BY <1>4
  <2> HIDE DEF h, t
  <2>2. service.waitingBytes - h \in Nat
    BY <2>1
  <2> QED BY <2>2 DEF h
<1>6. /\ service' \in Service
      /\ service'.maxWaitingBytes = service.maxWaitingBytes
      /\ service'.maxWaitingChunks = service.maxWaitingChunks
      /\ st2.completed = AddTraffic(st.completed, One(service.active))
      /\ st2.droppedBufferFull = st.droppedBufferFull
      /\ st2.droppedLinkDown = st.droppedLinkDown
      /\ st2.busyTime = st.busyTime + (now - service.busySince)
      /\ service.waiting = <<>> =>
           /\ service'.active = None /\ service'.completion = None
           /\ service'.busySince = None
           /\ service'.waiting = <<>>
           /\ service'.waitingBytes = service.waitingBytes
      /\ service.waiting # <<>> =>
           /\ service'.active = Head(service.waiting)
           /\ service'.completion = nextEvent
           /\ service'.busySince = now
           /\ service'.waiting = Tail(service.waiting)
           /\ service'.waitingBytes = service.waitingBytes - Head(service.waiting).bytes
  <2>1. /\ service \in Service /\ now \in Nat /\ nextEvent \in Nat /\ None \notin Nat
        /\ service.active # None /\ service.active \in Chunk
        /\ service.busySince # None /\ service.busySince <= now
    BY <1>1
  <2> DEFINE n == ServiceComplete(service, now, nextEvent)
  <2>2. /\ n \in Service
        /\ n.maxWaitingBytes = service.maxWaitingBytes
        /\ n.maxWaitingChunks = service.maxWaitingChunks
        /\ n.statistics.completed = AddTraffic(st.completed, One(service.active))
        /\ n.statistics.droppedBufferFull = st.droppedBufferFull
        /\ n.statistics.droppedLinkDown = st.droppedLinkDown
        /\ n.statistics.busyTime = st.busyTime + (now - service.busySince)
        /\ service.waiting = <<>> =>
             /\ n.active = None /\ n.completion = None /\ n.busySince = None
             /\ n.waiting = <<>> /\ n.waitingBytes = service.waitingBytes
        /\ service.waiting # <<>> =>
             /\ n.active = Head(service.waiting) /\ n.completion = nextEvent
             /\ n.busySince = now /\ n.waiting = Tail(service.waiting)
             /\ n.waitingBytes = service.waitingBytes - Head(service.waiting).bytes
    BY <1>5, <2>1, CompletionOutcome, Zenon
  <2> QED BY <1>2, <2>2, Zenon
<1>7. nextEvent' \in Nat /\ now' \in Nat /\ busyTicks' \in Nat /\ up' \in BOOLEAN
      /\ offered' \in TrafficCount
  BY <1>1, <1>2 DEF LinkInv, LinkTyped
<1>8. BusyTimeExact' /\ reported' \in Nat
  <2>1. busyTicks = st2.busyTime
    BY <1>1, <1>6, LinkFacts
  <2>2. service'.busySince = None \/ service'.busySince = now
    BY <1>6
  <2>3. busyTicks = st2.busyTime
           + IF service'.busySince = None THEN 0 ELSE now - service'.busySince
    BY <1>1, <2>1, <2>2
  <2> QED BY <1>1, <1>2, <1>6, <2>2, <2>3, BusyTimeKept
<1>9. SerializerAgreesWithKernel'
  <2>1. CASE service.waiting = <<>>
    BY <1>2, <1>3, <1>6, <2>1 DEF SerializerAgreesWithKernel
  <2>2. CASE service.waiting # <<>>
    <3> DEFINE h == Head(service.waiting)
    <3>1. h \in Chunk /\ h.bytes \in Nat /\ h # None
      BY <1>4, <2>2, LinkFacts
    <3>2. scheduled' = {Completion(h)}
      BY <1>2, <1>3, <2>2
    <3>3. service'.active = h /\ service'.completion = nextEvent /\ service'.busySince = now
      BY <1>6, <2>2
    <3> HIDE DEF h
    <3>4. scheduled' = {[id |-> nextEvent,
                         at |-> now + SerializationDelay(Config, h.bytes),
                         chunk |-> h.id]}
      BY <3>2 DEF Completion
    <3>5. SerializationDelay(Config, h.bytes) \in Nat
      BY <3>1, LinkFacts
    <3> QED BY <1>1, <1>2, <1>3, <3>1, <3>3, <3>4, <3>5 DEF SerializerAgreesWithKernel
  <2> QED BY <2>1, <2>2
<1>10. TrafficConserved'
  <2> DEFINE b == InService.bytes
  <2>1. /\ st.completed.bytes \in Nat /\ st.completed.chunks \in Nat
        /\ st.droppedBufferFull.bytes \in Nat /\ st.droppedBufferFull.chunks \in Nat
        /\ st.droppedLinkDown.bytes \in Nat /\ st.droppedLinkDown.chunks \in Nat
        /\ b \in Nat
        /\ service.waitingBytes \in Nat
        /\ offered.bytes = st.completed.bytes + b + service.waitingBytes
                           + st.droppedBufferFull.bytes + st.droppedLinkDown.bytes
        /\ offered.chunks = st.completed.chunks + InService.chunks + len
                           + st.droppedBufferFull.chunks + st.droppedLinkDown.chunks
    BY TrafficFacts
  <2>2. b = service.active.bytes /\ InService.chunks = 1
    BY <1>1 DEF InService
  <2>3. st2.completed.bytes = st.completed.bytes + b
        /\ st2.completed.chunks = st.completed.chunks + 1
    <3>1. st.completed \in TrafficCount
      BY LinkFacts DEF LinkStatistics
    <3> QED BY <1>1, <1>6, <2>2, <3>1, AddTrafficTyped
  <2>4. /\ offered'.bytes = offered.bytes /\ offered'.chunks = offered.chunks
        /\ st2.droppedBufferFull.bytes = st.droppedBufferFull.bytes
        /\ st2.droppedBufferFull.chunks = st.droppedBufferFull.chunks
        /\ st2.droppedLinkDown.bytes = st.droppedLinkDown.bytes
        /\ st2.droppedLinkDown.chunks = st.droppedLinkDown.chunks
    BY <1>2, <1>6
  <2>5. /\ service'.waitingBytes = SumBytes(service'.waiting)
        /\ service'.waitingBytes \in Nat /\ service'.waitingBytes <= service.waitingBytes
        /\ len2 \in Nat /\ len2 <= len
        /\ InService'.bytes + service'.waitingBytes = service.waitingBytes
        /\ InService'.chunks + len2 = len
        /\ InService'.bytes \in Nat /\ InService'.chunks \in Nat
    <3>1. CASE service.waiting = <<>>
      <4>1. InService'.bytes = 0 /\ InService'.chunks = 0
        BY <1>6, <3>1 DEF InService
      <4>2. service'.waiting = service.waiting
            /\ service'.waitingBytes = service.waitingBytes
        BY <1>6, <3>1
      <4>3. service.waitingBytes = SumBytes(service.waiting)
        BY TrafficFacts
      <4> QED BY <1>1, <2>1, <4>1, <4>2, <4>3
    <3>2. CASE service.waiting # <<>>
      <4> DEFINE h == Head(service.waiting)
                 t == SumBytes(Tail(service.waiting))
      <4>1. h \in Chunk /\ h # None /\ h.bytes \in Nat /\ t \in Nat
            /\ service.waitingBytes = h.bytes + t
        BY <1>4, <3>2, LinkFacts
      <4>2. service'.active = h /\ service'.waiting = Tail(service.waiting)
            /\ service'.waitingBytes = service.waitingBytes - h.bytes
        BY <1>6, <3>2
      <4>3. InService'.bytes = h.bytes /\ InService'.chunks = 1
        BY <4>1, <4>2 DEF InService
      <4>4. len2 \in Nat /\ len = len2 + 1
        BY <3>2, <4>2, LinkFacts
      <4>5. SumBytes(service'.waiting) = t
        BY <4>2
      <4> HIDE DEF h, t, len, len2
      <4> QED BY <2>1, <4>1, <4>2, <4>3, <4>4, <4>5
    <3> QED BY <3>1, <3>2
  <2> HIDE DEF st, st2, len, len2, b
  <2>6. offered'.bytes = st2.completed.bytes + InService'.bytes + service'.waitingBytes
                         + st2.droppedBufferFull.bytes + st2.droppedLinkDown.bytes
    BY <2>1, <2>3, <2>4, <2>5
  <2>7. offered'.chunks = st2.completed.chunks + InService'.chunks + len2
                         + st2.droppedBufferFull.chunks + st2.droppedLinkDown.chunks
    BY <1>1, <2>1, <2>2, <2>3, <2>4, <2>5
  <2>8. /\ service.waitingBytes <= service.maxWaitingBytes
        /\ service.maxWaitingBytes <= Config.capacity
        /\ len <= service.maxWaitingChunks
        /\ service.maxWaitingBytes \in Nat /\ service.maxWaitingChunks \in Nat
    BY TrafficFacts DEF len
  <2>9. /\ service'.waitingBytes <= service'.maxWaitingBytes
        /\ service'.maxWaitingBytes <= Config.capacity
        /\ len2 <= service'.maxWaitingChunks
    <3>1. service'.maxWaitingBytes = service.maxWaitingBytes
          /\ service'.maxWaitingChunks = service.maxWaitingChunks
      BY <1>6
    <3>2. service'.waitingBytes \in Nat /\ service'.waitingBytes <= service.waitingBytes
          /\ len2 \in Nat /\ len2 <= len /\ len \in Nat /\ service.waitingBytes \in Nat
      BY <1>1, <2>1, <2>5
    <3> QED BY <2>8, <3>1, <3>2
  <2> QED BY <2>5, <2>6, <2>7, <2>9 DEF TrafficConserved, st2, len2
<1> QED BY <1>6, <1>7, <1>8, <1>9, <1>10 DEF LinkInv, LinkTyped

(* Time passes for the serializer exactly as it passes for the clock.        *)
LEMMA TickKeeps ==
  ASSUME LinkInv, Tick
  PROVE  LinkInv'
<1>1. /\ service \in Service /\ now \in Nat /\ busyTicks \in Nat /\ reported \in Nat
      /\ None \notin Nat /\ service.busySince \in Nat \cup {None}
      /\ service.busySince = None <=> service.active = None
      /\ service.busySince # None => service.busySince <= now
      /\ service.statistics \in LinkStatistics /\ service.statistics.busyTime \in Nat
      /\ busyTicks = service.statistics.busyTime
              + IF service.busySince = None THEN 0 ELSE now - service.busySince
  BY LinkFacts DEF LinkInv, LinkTyped, LinkStatistics
<1>2. /\ now' = now + 1
      /\ busyTicks' = IF service.active = None THEN busyTicks ELSE busyTicks + 1
      /\ UNCHANGED <<service, up, nextEvent, scheduled, offered, reported, metered>>
      /\ \A e \in scheduled : e.at > now
  BY DEF Tick, CompletionsDone
<1>3. now' \in Nat /\ busyTicks' \in Nat
  BY <1>1, <1>2
<1>4. SerializerAgreesWithKernel'
  <2>1. CASE service.active = None
    BY <1>2, <2>1 DEF LinkInv, SerializerAgreesWithKernel
  <2>2. CASE service.active # None
    <3> DEFINE at == service.busySince + SerializationDelay(Config, service.active.bytes)
    <3>1. at \in Nat
      <4>1. service.active \in Chunk /\ service.busySince \in Nat
        BY <1>1, <2>2, LinkFacts
      <4>2. service.active.bytes \in Nat
        BY <4>1 DEF Chunk
      <4>3. SerializationDelay(Config, service.active.bytes) \in Nat
        BY <4>2, LinkFacts
      <4> QED BY <4>1, <4>3
    <3>2. scheduled = {[id |-> service.completion, at |-> at, chunk |-> service.active.id]}
          /\ up
      BY <2>2 DEF LinkInv, SerializerAgreesWithKernel
    <3> HIDE DEF at
    <3>3. at > now
      BY <1>2, <3>2
    <3>4. \A e \in scheduled : e.at >= now + 1
      BY <1>1, <3>1, <3>2, <3>3
    <3>5. service.busySince # None /\ service.busySince <= now + 1
      BY <1>1, <2>2
    <3> QED BY <1>2, <2>2, <3>2, <3>4, <3>5 DEF SerializerAgreesWithKernel, at
  <2> QED BY <2>1, <2>2
<1>5. BusyTimeExact'
  <2>1. /\ Statistics(service, now + 1).busyTime =
             service.statistics.busyTime
             + IF service.busySince = None THEN 0 ELSE now + 1 - service.busySince
    <3>1. now + 1 \in Nat /\ (service.busySince # None => service.busySince <= now + 1)
      BY <1>1
    <3> QED BY <1>1, <3>1, StatisticsRolled
  <2>2. Statistics(service, now + 1).busyTime = busyTicks'
    <3>1. CASE service.active = None
      BY <1>1, <1>2, <2>1, <3>1
    <3>2. CASE service.active # None
      BY <1>1, <1>2, <2>1, <3>2
    <3> QED BY <3>1, <3>2
  <2>3. reported <= busyTicks' /\ (service.active = None => reported = busyTicks')
    <3>1. reported <= busyTicks /\ (service.active = None => reported = busyTicks)
      BY DEF LinkInv, BusyTimeExact
    <3> QED BY <1>1, <1>2, <3>1
  <2>4. metered = Traffic(service.statistics)
    BY DEF LinkInv, BusyTimeExact
  <2> QED BY <1>2, <2>2, <2>3, <2>4 DEF BusyTimeExact
<1>6. TrafficConserved'
  BY <1>2 DEF LinkInv, TrafficConserved, InService
<1> QED BY <1>1, <1>2, <1>3, <1>4, <1>5, <1>6 DEF LinkInv, LinkTyped

(* The link's invariant is inductive: it holds in every reachable state, for *)
(* every configuration, every set of chunk sizes, and every interleaving of  *)
(* arrivals, completions, failures and recoveries.                           *)
THEOREM LinkInvariant == Spec => []LinkInv
<1>1. LinkInv /\ [Next]_vars => LinkInv'
  <2> SUFFICES ASSUME LinkInv, [Next]_vars PROVE LinkInv'
    OBVIOUS
  <2>1. ASSUME NEW bytes \in ChunkSizes, Arrive(bytes) PROVE LinkInv'
    BY <2>1, ArriveKeeps
  <2>2. ASSUME NEW bytes \in ChunkSizes, ArriveDown(bytes) PROVE LinkInv'
    BY <2>2, ArriveDownKeeps
  <2>3. ASSUME NEW e \in scheduled, Complete(e) PROVE LinkInv'
    BY <2>3, CompleteKeeps
  <2>4. CASE GoDown
    BY <2>4, GoDownKeeps
  <2>5. CASE GoUp
    BY <2>5 DEF GoUp, LinkInv, LinkTyped, SerializerAgreesWithKernel, TrafficConserved,
                InService, BusyTimeExact
  <2>6. CASE Tick
    BY <2>6, TickKeeps
  <2>7. CASE UNCHANGED vars
    BY <2>7 DEF vars, LinkInv, LinkTyped, SerializerAgreesWithKernel, TrafficConserved,
                InService, BusyTimeExact
  <2> QED BY <2>1, <2>2, <2>3, <2>4, <2>5, <2>6, <2>7 DEF Next
<1> QED BY <1>1, LinkInit, PTL DEF Spec

(* The serializer is work conserving and agrees with the kernel about the    *)
(* pending completion: the logic errors of handle_completion and             *)
(* reconcile_down cannot occur on any link.                                  *)
THEOREM SerializerAgrees == Spec => []SerializerAgreesWithKernel
BY LinkInvariant, PTL DEF LinkInv

(* No byte and no chunk is lost or counted twice, and the buffer never       *)
(* exceeds its capacity, so that no unsigned subtraction of admit() and      *)
(* complete_service() wraps.                                                 *)
THEOREM LinkConservesTraffic == Spec => []TrafficConserved
BY LinkInvariant, PTL DEF LinkInv

(* The busy time that statistics(now) reports is the time the serializer     *)
(* held a chunk, and telemetry never ran ahead of it.                        *)
THEOREM LinkBusyTimeExact == Spec => []BusyTimeExact
BY LinkInvariant, PTL DEF LinkInv

=============================================================================
