--------------------------- MODULE MgPoolProofs ---------------------------
(***************************************************************************)
(* Theorems about MgPool for every number of workers and connections and   *)
(* every length of the socket queue.                                       *)
(***************************************************************************)
EXTENDS MgPool, FiniteSetTheorems, TLAPS

LEMMA TypesInit == Init => TypeOK
<1> SUFFICES ASSUME Init PROVE TypeOK
  OBVIOUS
<1>1. backlog \in Seq(Sockets) /\ queue \in [0..QLen-1 -> Sockets \cup {None}]
  BY DEF Init
<1>2. sq_tail \in 0..QLen /\ sq_head \in sq_tail..sq_tail + QLen
  BY MgPoolAssumption DEF Init
<1> QED BY <1>1, <1>2 DEF Init, TypeOK, WorkerStates


\* The steps of mg_start and mg_stop keep the types.
LEMMA OwnerTypes == TypeOK /\ (Owner \/ Stop) => TypeOK'
<1> USE DEF TypeOK, net, ring, master, worker, WorkerStates
<1> SUFFICES ASSUME TypeOK, Owner \/ Stop PROVE TypeOK'
  OBVIOUS
<1>1. CASE StartMaster
  BY <1>1 DEF StartMaster
<1>2. CASE StartWorker
  BY <1>2 DEF StartWorker
<1>3. CASE CountRead
  BY <1>3 DEF CountRead
<1>4. CASE CountWrite
  BY <1>4 DEF CountWrite
<1>5. CASE Started
  BY <1>5 DEF Started
<1>6. CASE StopReturn
  BY <1>6 DEF StopReturn
<1>7. CASE Stop
  BY <1>7 DEF Stop
<1> QED BY <1>1, <1>2, <1>3, <1>4, <1>5, <1>6, <1>7 DEF Owner

\* An index into the ring.
LEMMA RingIndex == \A n \in Nat : n % QLen \in 0..QLen-1
  BY MgPoolAssumption

\* The steps of the master keep the types.
LEMMA MasterTypes == TypeOK /\ Master => TypeOK'
<1> USE MgPoolAssumption DEF TypeOK, net, ring, worker, owner, WorkerStates
<1> SUFFICES ASSUME TypeOK, Master PROVE TypeOK'
  OBVIOUS
<1>1. CASE Accept
  <2>1. Head(backlog) \in Sockets /\ backlog' \in Seq(Sockets)
    BY <1>1 DEF Accept
  <2> QED BY <1>1, <2>1 DEF Accept
<1>2. CASE LeaveLoop
  <2>1. sock' \in [Sockets -> {"none", "backlog", "open"}]
    BY <1>2 DEF LeaveLoop
  <2> QED BY <1>2, <2>1 DEF LeaveLoop
<1>3. CASE ProduceLock
  BY <1>3 DEF ProduceLock
<1>4. CASE ProduceFull
  BY <1>4 DEF ProduceFull
<1>5. CASE ProduceWait
  BY <1>5 DEF ProduceWait
<1>6. CASE Enqueue
  <2>1. queue' \in [0..QLen-1 -> Sockets \cup {None}]
    BY <1>6 DEF Enqueue
  <2>2. sq_tail' \in 0..QLen /\ sq_head' \in sq_tail'..sq_tail' + QLen
    BY <1>6 DEF Enqueue, IsFull
  <2>3. wpc' \in [Workers -> WorkerStates]
    BY <1>6 DEF Enqueue, WakeOne
  <2> QED BY <1>6, <2>1, <2>2, <2>3 DEF Enqueue
<1>7. CASE Broadcast
  <2>1. wpc' \in [Workers -> WorkerStates]
    BY <1>7 DEF Broadcast
  <2> QED BY <1>7, <2>1 DEF Broadcast
<1>8. CASE Join
  BY <1>8 DEF Join
<1>9. CASE MasterExit
  BY <1>9 DEF MasterExit
<1> QED BY <1>1, <1>2, <1>3, <1>4, <1>5, <1>6, <1>7, <1>8, <1>9 DEF Master

\* The steps of a worker keep the types.
LEMMA WorkerTypes == ASSUME NEW w \in Workers, TypeOK, Worker(w) PROVE TypeOK'
<1> USE MgPoolAssumption DEF TypeOK, net, ring, master, owner, WorkerStates, Go
<1>1. CASE Begin(w)
  BY <1>1 DEF Begin
<1>2. CASE NoHandler(w) \/ Abort(w) \/ AssertFails(w)
  BY <1>2 DEF NoHandler, Abort, AssertFails, Die
<1>3. CASE ConsumeLock(w)
  BY <1>3 DEF ConsumeLock
<1>4. CASE ConsumeEmpty(w)
  BY <1>4 DEF ConsumeEmpty
<1>5. CASE ConsumeWait(w)
  BY <1>5 DEF ConsumeWait
<1>6. CASE Dequeue(w)
  <2>1. wsock' \in [Workers -> Sockets \cup {None}]
    <3>1. sq_tail % QLen \in 0..QLen-1
      OBVIOUS
    <3>2. \/ UNCHANGED wsock
          \/ wsock' = [wsock EXCEPT ![w] = queue[sq_tail % QLen]]
      BY <1>6 DEF Dequeue
    <3> QED BY <3>1, <3>2
  <2>2. sq_tail' \in 0..QLen /\ sq_head' \in sq_tail'..sq_tail' + QLen
    BY <1>6 DEF Dequeue, Wrapped
  <2>3. mpc' \in {mpc, "produce"}
    BY <1>6 DEF Dequeue, WakeMaster
  <2> QED BY <1>6, <2>1, <2>2, <2>3 DEF Dequeue
<1>7. CASE Consumed(w)
  BY <1>7 DEF Consumed
<1>8. CASE Serve(w)
  <2>1. sock' \in [Sockets -> {"none", "backlog", "open"}]
    BY <1>8 DEF Serve
  <2> QED BY <1>8, <2>1 DEF Serve
<1>9. CASE ThreadStop(w)
  BY <1>9 DEF ThreadStop
<1>10. CASE Leave(w)
  BY <1>10 DEF Leave
<1>11. CASE Left(w)
  BY <1>11 DEF Left, WakeMaster
<1>12. CASE Unlock(w)
  BY <1>12 DEF Unlock
<1> QED BY <1>1, <1>2, <1>3, <1>4, <1>5, <1>6, <1>7, <1>8, <1>9, <1>10, <1>11, <1>12 DEF Worker

\* Every step keeps the types of the variables.
LEMMA TypesStep == TypeOK /\ [Next]_vars => TypeOK'
<1> SUFFICES ASSUME TypeOK, [Next]_vars PROVE TypeOK'
  OBVIOUS
<1>1. ASSUME NEW s \in Sockets, Connect(s) PROVE TypeOK'
  BY <1>1 DEF TypeOK, Connect, ring, master, worker, owner
<1>2. CASE UNCHANGED vars
  BY <1>2 DEF TypeOK, vars, ring, net, master, worker, owner
<1> QED BY <1>1, <1>2, OwnerTypes, MasterTypes, WorkerTypes DEF Next

\* Every variable of the pool has its type, and the pointers of the ring stay
\* within one size of the ring of each other and of zero.
THEOREM TypeCorrect == Spec => []TypeOK
  BY TypesInit, TypesStep, PTL DEF Spec

-----------------------------------------------------------------------------
(* ContextOutlivesThreads, when no worker is out of memory.  That mg_stop     *)
(* returns after the last worker rests on num_threads, which mg_start and the *)
(* workers change without a common mutex: the count is right because mg_stop  *)
(* cannot be called before mg_start is over, and no worker leaves before.     *)

\* The workers that num_threads should count: a worker that has left is not among
\* them while it still has the mutex.
Live == {w \in Workers : wpc[w] \notin {"unborn", "left", "gone", "dead"}}

\* mg_start has created a worker and not counted it yet.
Uncounted == IF spc \in {"count", "counting"} THEN 1 ELSE 0

CountOK == /\ spc # "dead" => num_threads = Cardinality(Live) - Uncounted
           /\ spc = "counting" => sread = num_threads
           /\ \A w \in Workers : wpc[w] = "leaving" => wread[w] = num_threads

\* From a leaving worker's read of num_threads to its assertion no other thread can
\* have the mutex.
MutexOK == /\ mpc \in {"full?", "full"} => lock = "master"
           /\ \A w \in Workers : wpc[w] \in {"empty?", "empty", "leaving", "left"} => lock = w

\* The order in which the threads go.
StopOK ==
  /\ stop_flag # 0 => spc \in {"stopping", "stopped", "dead"}
  /\ stop_flag = 2 => mpc \in {"gone", "dead"}
  /\ mpc \in {"joined", "gone"} => Live = {} /\ \A w \in Workers : wpc[w] # "left"
  /\ mpc \in {"broadcast", "join", "joinsleep", "joined", "gone"} => stop_flag # 0
  /\ spc = "stopped" => mpc = "gone"
  /\ mpc = "dead" <=> spc = "dead"
  /\ \A w \in Workers :
       /\ wpc[w] \in {"stopping", "leave", "leaving", "left", "gone"} => stop_flag # 0
       /\ wpc[w] = "dead" <=> spc = "dead"

CountInv == TypeOK /\ MutexOK /\ CountOK /\ StopOK

LEMMA CountInit == Init => CountInv
<1> SUFFICES ASSUME Init PROVE CountInv
  OBVIOUS
<1>1. Live = {} /\ Uncounted = 0
  BY DEF Init, Live, Uncounted
<1>2. Cardinality(Live) = 0
  BY <1>1, FS_EmptySet
<1> QED BY <1>1, <1>2, TypesInit DEF Init, CountInv, MutexOK, CountOK, StopOK

\* The steps of mg_start and mg_stop keep CountInv.
LEMMA CountOwner ==
  ASSUME IsFiniteSet(Workers), CountInv, Owner \/ Stop
  PROVE  MutexOK' /\ CountOK' /\ StopOK'
<1> USE DEF CountInv, TypeOK, MutexOK, CountOK, StopOK, net, ring, master, worker
<1>1. CASE StartMaster
  BY <1>1 DEF StartMaster, Live, Uncounted
<1>2. CASE StartWorker
  <2>1. PICK w \in Workers : wpc[w] = "unborn" /\ wpc' = [wpc EXCEPT ![w] = "born"]
    BY <1>2 DEF StartWorker
  <2>2. w \notin Live /\ Live' = Live \cup {w}
    BY <2>1 DEF Live
  <2>3. IsFiniteSet(Live)
    BY FS_Subset DEF Live
  <2>4. Cardinality(Live') = Cardinality(Live) + 1 /\ Cardinality(Live) \in Nat
    BY <2>2, <2>3, FS_AddElement, FS_CardinalityType
  <2>5. Uncounted = 0 /\ Uncounted' = 1
    BY <1>2 DEF StartWorker, Uncounted
  <2>6. CountOK'
    BY <1>2, <2>1, <2>4, <2>5 DEF StartWorker
  <2>7. mpc \notin {"joined", "gone"}
    BY <1>2 DEF StartWorker
  <2> QED BY <1>2, <2>1, <2>6, <2>7 DEF StartWorker
<1>3. CASE CountRead
  BY <1>3 DEF CountRead, Live, Uncounted
<1>4. CASE CountWrite
  <2>1. Live' = Live /\ Uncounted = 1 /\ Uncounted' = 0
    BY <1>4 DEF CountWrite, Live, Uncounted
  <2>2. Cardinality(Live) \in Nat
    BY FS_Subset, FS_CardinalityType DEF Live
  <2>3. num_threads' = Cardinality(Live')
    BY <1>4, <2>1, <2>2 DEF CountWrite
  <2>4. \A w \in Workers : wpc[w] # "leaving"
    BY <1>4 DEF CountWrite
  <2> QED BY <1>4, <2>1, <2>2, <2>3, <2>4 DEF CountWrite
<1>5. CASE Started
  BY <1>5 DEF Started, Live, Uncounted
<1>6. CASE StopReturn
  BY <1>6 DEF StopReturn, Live, Uncounted
<1>7. CASE Stop
  BY <1>7 DEF Stop, Live, Uncounted
<1> QED BY <1>1, <1>2, <1>3, <1>4, <1>5, <1>6, <1>7 DEF Owner

\* The steps of the master keep CountInv: it joins when no worker is left.
LEMMA CountMaster ==
  ASSUME IsFiniteSet(Workers), CountInv, Master
  PROVE  MutexOK' /\ CountOK' /\ StopOK'
<1> USE MgPoolAssumption
        DEF CountInv, TypeOK, MutexOK, CountOK, StopOK, net, ring, worker, owner, Live, Uncounted
<1>1. CASE Accept
  BY <1>1 DEF Accept
<1>2. CASE LeaveLoop
  BY <1>2 DEF LeaveLoop
<1>3. CASE ProduceLock
  BY <1>3 DEF ProduceLock
<1>4. CASE ProduceFull
  BY <1>4 DEF ProduceFull
<1>5. CASE ProduceWait
  BY <1>5 DEF ProduceWait
<1>6. CASE Enqueue
  <2>1. \A w \in Workers : \/ wpc'[w] = wpc[w]
                           \/ wpc[w] = "asleep" /\ wpc'[w] = "lock"
    BY <1>6 DEF Enqueue, WakeOne, Asleep
  <2>2. Live' = Live
    BY <2>1
  <2>3. /\ mpc = "full?" /\ mpc' = "poll" /\ lock = "master" /\ lock' = None
        /\ UNCHANGED <<stop_flag, num_threads, wread, spc, sread>>
    BY <1>6 DEF Enqueue
  <2>4. MutexOK'
    BY <2>1, <2>3
  <2>5. CountOK'
    BY <2>1, <2>2, <2>3
  <2>6. StopOK'
    BY <2>1, <2>3
  <2> QED BY <2>4, <2>5, <2>6
<1>7. CASE Broadcast
  <2>1. \A w \in Workers : \/ wpc'[w] = wpc[w]
                           \/ wpc[w] = "asleep" /\ wpc'[w] = "lock"
    BY <1>7 DEF Broadcast, Asleep
  <2>2. Live' = Live
    BY <2>1
  <2> QED BY <1>7, <2>1, <2>2 DEF Broadcast
<1>8. CASE Join
  <2>1. CASE num_threads > 0
    BY <1>8, <2>1 DEF Join
  <2>2. CASE ~(num_threads > 0)
    <3> HIDE DEF Live
    <3>0. IsFiniteSet(Live) /\ Cardinality(Live) \in Nat
      BY FS_Subset, FS_CardinalityType DEF Live
    <3>1. Cardinality(Live) = 0
      BY <1>8, <2>2, <3>0 DEF Join
    <3>2. Live = {}
      BY <3>0, <3>1, FS_EmptySet
    <3> QED BY <1>8, <2>2, <3>2 DEF Join, Live
  <2> QED BY <2>1, <2>2
<1>9. CASE MasterExit
  BY <1>9 DEF MasterExit
<1> QED BY <1>1, <1>2, <1>3, <1>4, <1>5, <1>6, <1>7, <1>8, <1>9 DEF Master

\* The steps of a worker keep CountInv.
LEMMA CountWorker ==
  ASSUME IsFiniteSet(Workers), ~MayFail, CountInv, NEW w \in Workers, Worker(w)
  PROVE  MutexOK' /\ CountOK' /\ StopOK'
<1> USE MgPoolAssumption
        DEF CountInv, TypeOK, MutexOK, CountOK, StopOK, net, ring, master, owner, Live, Uncounted,
            Go
<1>1. CASE Begin(w)
  <2>1. \A v \in Workers : \/ wpc'[v] = wpc[v]
                           \/ wpc[v] = "born" /\ wpc'[v] = "lock"
    BY <1>1 DEF Begin
  <2>2. Live' = Live
    BY <2>1
  <2> QED BY <1>1, <2>1, <2>2 DEF Begin
<1>2. CASE NoHandler(w) \/ Abort(w) \/ AssertFails(w)
  BY <1>2 DEF NoHandler, Abort, AssertFails, Die
<1>3. CASE ConsumeLock(w)
  BY <1>3 DEF ConsumeLock
<1>4. CASE ConsumeEmpty(w)
  BY <1>4 DEF ConsumeEmpty
<1>5. CASE ConsumeWait(w)
  BY <1>5 DEF ConsumeWait
<1>6. CASE Dequeue(w)
  BY <1>6 DEF Dequeue, WakeMaster
<1>7. CASE Consumed(w)
  BY <1>7 DEF Consumed
<1>8. CASE Serve(w)
  BY <1>8 DEF Serve
<1>9. CASE ThreadStop(w)
  BY <1>9 DEF ThreadStop
<1>10. CASE Leave(w)
  BY <1>10 DEF Leave
<1>11. CASE Left(w)
  <2> HIDE DEF Live
  <2>1. w \in Live /\ Live' = Live \ {w}
    BY <1>11 DEF Left, Live
  <2>2. IsFiniteSet(Live)
    BY FS_Subset DEF Live
  <2>3. Cardinality(Live') = Cardinality(Live) - 1 /\ Cardinality(Live) \in Nat
    BY <2>1, <2>2, FS_RemoveElement, FS_CardinalityType
  <2>4. spc \in {"stopping", "stopped", "dead"} /\ spc' = spc /\ Uncounted = 0 /\ Uncounted' = 0
    BY <1>11 DEF Left
  <2>5. \A v \in Workers : wpc'[v] # "leaving"
    BY <1>11 DEF Left
  <2>6. num_threads' = num_threads - 1
    BY <1>11 DEF Left
  <2>7. CountOK'
    BY <2>3, <2>4, <2>5, <2>6
  <2>8. MutexOK'
    BY <1>11 DEF Left, WakeMaster
  <2>9. StopOK'
    BY <1>11, <2>1 DEF Live, Left, WakeMaster
  <2> QED BY <2>7, <2>8, <2>9
<1>12. CASE Unlock(w)
  <2>1. Live' = Live
    BY <1>12 DEF Unlock
  <2> QED BY <1>12, <2>1 DEF Unlock
<1> QED BY <1>1, <1>2, <1>3, <1>4, <1>5, <1>6, <1>7, <1>8, <1>9, <1>10, <1>11, <1>12 DEF Worker

LEMMA CountStep ==
  ASSUME IsFiniteSet(Workers), ~MayFail
  PROVE  CountInv /\ [Next]_vars => CountInv'
<1> SUFFICES ASSUME CountInv, [Next]_vars PROVE MutexOK' /\ CountOK' /\ StopOK'
  BY TypesStep DEF CountInv
<1> USE DEF CountInv, MutexOK, CountOK, StopOK, Live, Uncounted
<1>1. ASSUME NEW s \in Sockets, Connect(s) PROVE MutexOK' /\ CountOK' /\ StopOK'
  BY <1>1 DEF Connect, ring, master, worker, owner
<1>2. CASE UNCHANGED vars
  BY <1>2 DEF vars, ring, net, master, worker, owner
<1> QED BY <1>1, <1>2, CountOwner, CountMaster, CountWorker DEF Next

\* When mg_stop returns and the context is freed, the master and every worker
\* that was ever created have ended, however many there are: if no worker is out
\* of memory when it starts (one that is may leave while mg_start counts it).
THEOREM StopWaitsForAll ==
  ASSUME IsFiniteSet(Workers), ~MayFail
  PROVE  Spec => []ContextOutlivesThreads
<1>1. CountInv => ContextOutlivesThreads
  BY DEF CountInv, StopOK, ContextOutlivesThreads, Live
<1> QED BY <1>1, CountInit, CountStep, PTL DEF Spec

-----------------------------------------------------------------------------
(* FifoSpec: the ring buffer implements the queue.  A step maps to a step of  *)
(* SocketFifo only because a socket is in one place at a time, the backlog,   *)
(* the master's hand, one slot of the ring or one worker's hand.              *)

\* The master's and the workers' sockets, by place.
BacklogOK == /\ \A i \in DOMAIN backlog : sock[backlog[i]] = "backlog"
             /\ \A i, j \in DOMAIN backlog : backlog[i] = backlog[j] => i = j

MasterOK == /\ mpc \in {"produce", "full?", "full", "fullsleep"} => msock # None
            /\ msock # None => sock[msock] = "open"

WaitingOK == \A i \in 1..(sq_head - sq_tail) :
  /\ Waiting[i] \in Sockets /\ sock[Waiting[i]] = "open" /\ Waiting[i] # msock
  /\ \A j \in 1..(sq_head - sq_tail) : Waiting[i] = Waiting[j] => i = j

HandsOK ==
  \A w \in Workers :
    /\ wpc[w] \in {"unborn", "born", "lock", "empty?", "empty", "asleep"} => wsock[w] = None
    /\ wsock[w] # None =>
         /\ sock[wsock[w]] = "open" /\ wsock[w] # msock
         /\ \A i \in 1..(sq_head - sq_tail) : Waiting[i] # wsock[w]
         /\ \A v \in Workers : wsock[v] = wsock[w] => v = w

PlacesInv == TypeOK /\ BacklogOK /\ MasterOK /\ WaitingOK /\ HandsOK

\* The pointers run over at most two sizes of the ring.
LEMMA RingSlot == \A n \in 0..2*QLen-1 : n % QLen = IF n < QLen THEN n ELSE n - QLen
  BY MgPoolAssumption

\* Less than one size of the ring apart, two positions have different slots.
LEMMA RingApart ==
  ASSUME NEW a \in 0..2*QLen-1, NEW b \in 0..2*QLen-1, a < b, b < a + QLen
  PROVE  a % QLen # b % QLen
  BY RingSlot, MgPoolAssumption

\* One size of the ring apart, they have the same.
LEMMA RingShift == \A n \in 0..QLen-1 : (n + QLen) % QLen = n % QLen
  BY MgPoolAssumption

\* Sequences are equal when their elements are.
LEMMA SameSeq ==
  ASSUME NEW s \in Seq(Sockets), NEW t \in Seq(Sockets), Len(s) = Len(t),
         \A i \in 1..Len(s) : s[i] = t[i]
  PROVE  s = t
  OBVIOUS

LEMMA AppendFacts ==
  ASSUME NEW s \in Seq(Sockets), NEW e \in Sockets
  PROVE  /\ Append(s, e) \in Seq(Sockets) /\ Len(Append(s, e)) = Len(s) + 1
         /\ Append(s, e)[Len(s) + 1] = e
         /\ \A i \in 1..Len(s) : Append(s, e)[i] = s[i]
  OBVIOUS

LEMMA TailFacts ==
  ASSUME NEW s \in Seq(Sockets), s # <<>>
  PROVE  /\ Tail(s) \in Seq(Sockets) /\ Len(Tail(s)) = Len(s) - 1
         /\ Head(s) = s[1] /\ Head(s) \in Sockets
         /\ \A i \in 1..(Len(s) - 1) : Tail(s)[i] = s[i + 1]
  OBVIOUS

\* The waiting sockets as a sequence.
LEMMA WaitingSeq ==
  ASSUME TypeOK, WaitingOK
  PROVE  /\ Waiting \in Seq(Sockets) /\ Len(Waiting) = sq_head - sq_tail
         /\ sq_head - sq_tail \in 0..QLen
         /\ \A i \in 1..(sq_head - sq_tail) : Waiting[i] = queue[(sq_tail + i - 1) % QLen]
<1>1. sq_head - sq_tail \in 0..QLen
  BY MgPoolAssumption DEF TypeOK
<1>2. \A i \in 1..(sq_head - sq_tail) : Waiting[i] = queue[(sq_tail + i - 1) % QLen]
  BY DEF Waiting
<1> QED BY <1>1, <1>2 DEF Waiting, WaitingOK

\* Enqueue with room puts the master's socket at the end.
LEMMA EnqueueAppends ==
  ASSUME TypeOK, WaitingOK, msock \in Sockets, Enqueue, ~IsFull
  PROVE  Waiting' = Append(Waiting, msock)
<1> DEFINE n == sq_head - sq_tail
<1>1. /\ n \in 0..QLen-1 /\ sq_head \in 0..2*QLen-1 /\ sq_head \in Nat
      /\ sq_head' = sq_head + 1 /\ sq_tail' = sq_tail
  BY MgPoolAssumption DEF TypeOK, Enqueue, IsFull
<1>2. /\ queue' = [queue EXCEPT ![sq_head % QLen] = msock]
      /\ queue \in [0..QLen-1 -> Sockets \cup {None}]
      /\ sq_head % QLen \in 0..QLen-1
  BY <1>1, RingIndex DEF TypeOK, Enqueue
<1>3. Waiting \in Seq(Sockets) /\ Len(Waiting) = n
  BY WaitingSeq
<1>4. Waiting' = [i \in 1..(n + 1) |-> queue'[(sq_tail + i - 1) % QLen]]
  <2>1. sq_head' - sq_tail' = n + 1
    BY <1>1 DEF TypeOK
  <2> QED BY <1>1, <2>1 DEF Waiting
<1>5. ASSUME NEW i \in 1..n PROVE Waiting'[i] = Waiting[i]
  <2>1. PICK a \in Nat : a = sq_tail + i - 1
    BY <1>1 DEF TypeOK
  <2>2. a \in 0..2*QLen-1 /\ a < sq_head /\ sq_head < a + QLen
    BY <1>1, <2>1, MgPoolAssumption DEF TypeOK
  <2>3. a % QLen \in 0..QLen-1 /\ a % QLen # sq_head % QLen
    BY <1>1, <2>2, RingIndex, RingApart
  <2>4. queue'[a % QLen] = queue[a % QLen]
    BY <1>2, <2>3
  <2>5. Waiting[i] = queue[a % QLen]
    BY <2>1, WaitingSeq
  <2>6. Waiting'[i] = queue'[a % QLen]
    BY <1>1, <1>4, <2>1
  <2> QED BY <2>4, <2>5, <2>6
<1>6. Waiting'[n + 1] = msock
  <2>1. sq_tail + (n + 1) - 1 = sq_head
    BY <1>1 DEF TypeOK
  <2>2. Waiting'[n + 1] = queue'[sq_head % QLen]
    BY <1>1, <1>4, <2>1
  <2> QED BY <1>2, <2>2
<1>7. Waiting' \in Seq(Sockets) /\ Len(Waiting') = n + 1
  <2>1. \A i \in 1..(n + 1) : Waiting'[i] \in Sockets
    BY <1>1, <1>3, <1>5, <1>6
  <2> QED BY <1>1, <1>4, <2>1
<1> QED BY <1>1, <1>3, <1>5, <1>6, <1>7, AppendFacts, SameSeq

\* Dequeue from a queue that is not empty takes the first socket.
LEMMA DequeueTakes ==
  ASSUME TypeOK, WaitingOK, NEW w \in Workers, Dequeue(w), sq_head > sq_tail
  PROVE  /\ Waiting # <<>>
         /\ Waiting' = Tail(Waiting)
         /\ wsock' = [wsock EXCEPT ![w] = Head(Waiting)]
<1> DEFINE n == sq_head - sq_tail
<1>1. Waiting \in Seq(Sockets) /\ Len(Waiting) = n /\ n \in 1..QLen /\ Waiting # <<>>
  BY WaitingSeq DEF TypeOK
<1>2. Head(Waiting) = queue[sq_tail % QLen]
  <2>1. Head(Waiting) = Waiting[1] /\ sq_tail + 1 - 1 = sq_tail
    BY <1>1, TailFacts DEF TypeOK
  <2>2. Waiting[1] = queue[(sq_tail + 1 - 1) % QLen]
    BY <1>1, WaitingSeq
  <2> QED BY <2>1, <2>2
<1>3. sq_head' - sq_tail' = n - 1 /\ queue' = queue
  BY MgPoolAssumption DEF Dequeue, Wrapped, TypeOK
<1>4. Waiting' = [i \in 1..(n - 1) |-> queue[(sq_tail' + i - 1) % QLen]]
  BY <1>3 DEF Waiting
<1>5. ASSUME NEW i \in 1..(n - 1) PROVE Waiting'[i] = Waiting[i + 1]
  <2>1. i + 1 \in 1..n /\ i \in 0..QLen-1
    BY <1>1, MgPoolAssumption DEF TypeOK
  <2>2. (sq_tail' + i - 1) % QLen = (sq_tail + (i + 1) - 1) % QLen
    <3>1. CASE sq_tail = QLen
      <4>1. sq_tail' = 1
        BY <3>1, MgPoolAssumption DEF Dequeue, Wrapped, TypeOK
      <4>2. sq_tail' + i - 1 = i /\ sq_tail + (i + 1) - 1 = i + QLen
        BY <2>1, <3>1, <4>1, MgPoolAssumption
      <4> QED BY <2>1, <4>2, RingShift
    <3>2. CASE sq_tail # QLen
      <4>1. sq_tail' = sq_tail + 1
        BY <3>2, MgPoolAssumption DEF Dequeue, Wrapped, TypeOK
      <4>2. sq_tail' + i - 1 = sq_tail + (i + 1) - 1
        BY <2>1, <4>1 DEF TypeOK
      <4> QED BY <4>2
    <3> QED BY <3>1, <3>2
  <2>3. Waiting[i + 1] = queue[(sq_tail + (i + 1) - 1) % QLen]
    BY <2>1, WaitingSeq
  <2> QED BY <1>4, <2>2, <2>3
<1>6. Waiting' \in Seq(Sockets) /\ Len(Waiting') = n - 1
  <2>1. \A i \in 1..(n - 1) : Waiting'[i] \in Sockets
    BY <1>1, <1>5
  <2> QED BY <1>1, <1>4, <2>1
<1>7. Waiting' = Tail(Waiting)
  <2>1. /\ Tail(Waiting) \in Seq(Sockets) /\ Len(Tail(Waiting)) = n - 1
        /\ \A i \in 1..(n - 1) : Tail(Waiting)[i] = Waiting[i + 1]
    BY <1>1, TailFacts
  <2> QED BY <1>5, <1>6, <2>1, SameSeq
<1> QED BY <1>1, <1>2, <1>7 DEF Dequeue

LEMMA LastIndex == \A n \in Nat : \A i \in 1..(n + 1) : i = n + 1 \/ i \in 1..n
  OBVIOUS

LEMMA SameWaiting == UNCHANGED ring => Waiting' = Waiting /\ (sq_head - sq_tail)' = sq_head - sq_tail
  BY DEF ring, Waiting

LEMMA PlacesInit == Init => PlacesInv
<1> SUFFICES ASSUME Init PROVE BacklogOK /\ MasterOK /\ WaitingOK /\ HandsOK
  BY TypesInit DEF PlacesInv
<1>1. DOMAIN backlog = {} /\ 1..(sq_head - sq_tail) = {}
  BY DEF Init
<1>2. BacklogOK /\ MasterOK /\ WaitingOK
  BY <1>1 DEF Init, BacklogOK, MasterOK, WaitingOK
<1>3. HandsOK
  BY DEF Init, HandsOK
<1> QED BY <1>2, <1>3

\* A step that moves no socket keeps every socket in its place.
LEMMA Stay ==
  ASSUME PlacesInv, UNCHANGED <<ring, net, msock, wsock>>,
         mpc' \in {"produce", "full?", "full", "fullsleep"}
           => mpc \in {"produce", "full?", "full", "fullsleep"},
         \A w \in Workers :
           wpc'[w] \in {"unborn", "born", "lock", "empty?", "empty", "asleep"}
             => wpc[w] \in {"unborn", "born", "lock", "empty?", "empty", "asleep"}
  PROVE  BacklogOK' /\ MasterOK' /\ WaitingOK' /\ HandsOK'
<1> USE SameWaiting DEF PlacesInv, net
<1>1. BacklogOK'
  BY DEF BacklogOK
<1>2. MasterOK'
  BY DEF MasterOK
<1>3. WaitingOK'
  BY DEF WaitingOK
<1>4. HandsOK'
  BY DEF HandsOK
<1> QED BY <1>1, <1>2, <1>3, <1>4

\* A client's new connection is in the backlog only.
LEMMA ConnectPlaces ==
  ASSUME PlacesInv, NEW s \in Sockets, Connect(s)
  PROVE  BacklogOK' /\ MasterOK' /\ WaitingOK' /\ HandsOK'
<1> USE DEF PlacesInv
<1>1. /\ sock' = [sock EXCEPT ![s] = "backlog"] /\ sock[s] = "none"
      /\ DOMAIN sock = Sockets
      /\ UNCHANGED <<mpc, msock, wpc, wsock>> /\ UNCHANGED ring
  BY DEF Connect, master, worker, TypeOK
<1>2. BacklogOK'
  <2>1. backlog' = Append(backlog, s) /\ backlog \in Seq(Sockets)
    BY DEF Connect, TypeOK
  <2>2. DOMAIN backlog = 1..Len(backlog) /\ DOMAIN backlog' = 1..(Len(backlog) + 1)
    BY <2>1
  <2>3. backlog'[Len(backlog) + 1] = s /\ \A i \in 1..Len(backlog) : backlog'[i] = backlog[i]
    BY <2>1, AppendFacts
  <2>4. \A i \in 1..Len(backlog) : backlog[i] # s /\ backlog[i] \in Sockets
    BY <1>1, <2>1, <2>2 DEF BacklogOK
  <2>5. \A i \in 1..(Len(backlog) + 1) : i = Len(backlog) + 1 \/ i \in 1..Len(backlog)
    BY <2>1, LastIndex
  <2>6. \A i \in 1..Len(backlog) : sock[backlog[i]] = "backlog"
    BY <2>2 DEF BacklogOK
  <2>7. \A i \in 1..(Len(backlog) + 1) : sock'[backlog'[i]] = "backlog"
    BY <1>1, <2>3, <2>4, <2>5, <2>6
  <2>8. \A i, j \in 1..Len(backlog) : backlog[i] = backlog[j] => i = j
    BY <2>2 DEF BacklogOK
  <2>9. \A i, j \in 1..(Len(backlog) + 1) : backlog'[i] = backlog'[j] => i = j
    BY <2>3, <2>4, <2>5, <2>8
  <2> QED BY <2>2, <2>7, <2>9 DEF BacklogOK
<1>3. MasterOK'
  BY <1>1 DEF MasterOK, TypeOK
<1>4. WaitingOK'
  BY <1>1, SameWaiting DEF WaitingOK
<1>5. HandsOK'
  BY <1>1, SameWaiting DEF HandsOK, TypeOK
<1> QED BY <1>2, <1>3, <1>4, <1>5

\* The steps of the master keep every socket in one place.
LEMMA MasterPlaces ==
  ASSUME PlacesInv, Master
  PROVE  BacklogOK' /\ MasterOK' /\ WaitingOK' /\ HandsOK'
<1> USE DEF PlacesInv
<1>1. CASE Accept
  <2> DEFINE h == Head(backlog)
  <2>1. /\ backlog \in Seq(Sockets) /\ backlog # <<>> /\ backlog' = Tail(backlog)
        /\ sock' = [sock EXCEPT ![h] = "open"] /\ msock' = h
        /\ UNCHANGED <<wpc, wsock>> /\ UNCHANGED ring
    BY <1>1 DEF Accept, worker, TypeOK
  <2>2. /\ DOMAIN backlog = 1..Len(backlog) /\ DOMAIN backlog' = 1..(Len(backlog) - 1)
        /\ Len(backlog) \in Nat \ {0} /\ h = backlog[1] /\ h \in Sockets
        /\ \A i \in 1..(Len(backlog) - 1) : backlog'[i] = backlog[i + 1]
    BY <2>1, TailFacts
  <2>3. sock[backlog[1]] = "backlog" /\ sock \in [Sockets -> {"none", "backlog", "open"}]
    <3>1. 1 \in DOMAIN backlog
      BY <2>2
    <3> QED BY <3>1 DEF BacklogOK, TypeOK
  <2> HIDE DEF h
  <2>4. BacklogOK'
    <3>1. \A i \in 1..(Len(backlog) - 1) : i + 1 \in 1..Len(backlog) /\ i + 1 # 1
      BY <2>2
    <3>2. \A i \in 1..(Len(backlog) - 1) :
            backlog[i + 1] # h /\ backlog[i + 1] \in Sockets /\ sock[backlog[i + 1]] = "backlog"
      <4>1. \A i \in 1..Len(backlog) : /\ backlog[i] \in Sockets
                                       /\ sock[backlog[i]] = "backlog"
                                       /\ backlog[i] = backlog[1] => i = 1
        BY <2>1, <2>2 DEF BacklogOK
      <4> QED BY <2>2, <3>1, <4>1
    <3>3. \A i, j \in 1..(Len(backlog) - 1) : backlog[i + 1] = backlog[j + 1] => i + 1 = j + 1
      BY <2>2, <3>1 DEF BacklogOK
    <3>4. \A i \in 1..(Len(backlog) - 1) : sock'[backlog'[i]] = "backlog"
      BY <2>1, <2>2, <3>2
    <3>5. \A i, j \in 1..(Len(backlog) - 1) : backlog'[i] = backlog'[j] => i = j
      BY <2>2, <3>3
    <3> QED BY <2>2, <3>4, <3>5 DEF BacklogOK
  <2>5. MasterOK'
    BY <2>1, <2>2, <2>3, MgPoolAssumption DEF MasterOK
  <2>6. WaitingOK'
    BY <2>1, <2>2, <2>3, SameWaiting DEF WaitingOK
  <2>7. HandsOK'
    BY <2>1, <2>2, <2>3, SameWaiting DEF HandsOK
  <2> QED BY <2>4, <2>5, <2>6, <2>7
<1>2. CASE LeaveLoop
  <2>1. /\ \A s \in Sockets : sock[s] = "open" => sock'[s] = "open"
        /\ DOMAIN backlog' = {} /\ mpc' = "broadcast"
        /\ UNCHANGED <<msock, wpc, wsock>> /\ UNCHANGED ring
    BY <1>2 DEF LeaveLoop, worker, TypeOK
  <2>2. BacklogOK' /\ MasterOK'
    BY <2>1 DEF BacklogOK, MasterOK, TypeOK
  <2>3. WaitingOK'
    BY <2>1, SameWaiting DEF WaitingOK
  <2>4. HandsOK'
    BY <2>1, SameWaiting DEF HandsOK, TypeOK
  <2> QED BY <2>2, <2>3, <2>4
<1>3. CASE ProduceLock \/ ProduceFull \/ ProduceWait \/ Broadcast \/ Join \/ MasterExit
  <2>1. UNCHANGED <<ring, net, msock, wsock>>
    BY <1>3 DEF ProduceLock, ProduceFull, ProduceWait, Broadcast, Join, MasterExit, worker
  <2>2. mpc' \in {"produce", "full?", "full", "fullsleep"}
          => mpc \in {"produce", "full?", "full", "fullsleep"}
    BY <1>3 DEF ProduceLock, ProduceFull, ProduceWait, Broadcast, Join, MasterExit
  <2>3. \A w \in Workers : wpc'[w] = wpc[w] \/ (wpc[w] = "asleep" /\ wpc'[w] = "lock")
    BY <1>3 DEF ProduceLock, ProduceFull, ProduceWait, Broadcast, Join, MasterExit, worker,
                Asleep
  <2> QED BY <2>1, <2>2, <2>3, Stay
<1>4. CASE Enqueue
  <2>1. msock \in Sockets /\ sock[msock] = "open"
    BY <1>4 DEF Enqueue, MasterOK, TypeOK
  <2>2. /\ msock' = None /\ mpc' = "poll" /\ UNCHANGED <<wsock, sock, backlog>>
    BY <1>4 DEF Enqueue, net
  <2>3. \A w \in Workers : wpc'[w] = wpc[w] \/ (wpc[w] = "asleep" /\ wpc'[w] = "lock")
    BY <1>4 DEF Enqueue, WakeOne, Asleep, TypeOK
  <2>4. BacklogOK' /\ MasterOK'
    BY <2>2 DEF BacklogOK, MasterOK
  <2>5. CASE IsFull
    <3>1. UNCHANGED ring
      BY <1>4, <2>5 DEF Enqueue
    <3>2. WaitingOK'
      BY <2>2, <3>1, SameWaiting, MgPoolAssumption DEF WaitingOK
    <3>3. HandsOK'
      BY <2>2, <2>3, <3>1, SameWaiting DEF HandsOK
    <3> QED BY <2>4, <3>2, <3>3
  <2>6. CASE ~IsFull
    <3> DEFINE n == sq_head - sq_tail
    <3>1. Waiting' = Append(Waiting, msock) /\ Waiting \in Seq(Sockets) /\ Len(Waiting) = n
      BY <1>4, <2>1, <2>6, EnqueueAppends, WaitingSeq
    <3>2. n \in Nat /\ sq_head' - sq_tail' = n + 1
      BY <1>4, <2>6, MgPoolAssumption DEF Enqueue, TypeOK
    <3>3. Waiting'[n + 1] = msock /\ \A i \in 1..n : Waiting'[i] = Waiting[i]
      BY <2>1, <3>1, AppendFacts
    <3>4. \A i \in 1..(n + 1) : i = n + 1 \/ i \in 1..n
      BY <3>2, LastIndex
    <3>5. \A i \in 1..n : /\ Waiting[i] \in Sockets /\ sock[Waiting[i]] = "open"
                          /\ Waiting[i] # msock
                          /\ \A j \in 1..n : Waiting[i] = Waiting[j] => i = j
      BY DEF WaitingOK
    <3>6. WaitingOK'
      <4>1. \A i \in 1..(n + 1) :
              Waiting'[i] \in Sockets /\ sock'[Waiting'[i]] = "open" /\ Waiting'[i] # msock'
        <5>1. \A s \in Sockets : s # msock'
          BY <2>2, MgPoolAssumption
        <5> QED BY <2>1, <2>2, <3>3, <3>4, <3>5, <5>1
      <4>2. \A i, j \in 1..(n + 1) : Waiting'[i] = Waiting'[j] => i = j
        BY <3>3, <3>4, <3>5
      <4> QED BY <3>2, <4>1, <4>2 DEF WaitingOK
    <3>7. HandsOK'
      <4>1. \A w \in Workers : wsock[w] # None => wsock[w] # msock
                                  /\ \A i \in 1..n : Waiting[i] # wsock[w]
        BY DEF HandsOK
      <4>2. \A w \in Workers : wsock[w] # None => \A i \in 1..(n + 1) : Waiting'[i] # wsock[w]
        BY <3>3, <3>4, <4>1
      <4> QED BY <2>2, <2>3, <3>2, <4>2 DEF HandsOK
    <3> QED BY <2>4, <3>6, <3>7
  <2> QED BY <2>5, <2>6
<1> QED BY <1>1, <1>2, <1>3, <1>4 DEF Master

\* The steps of a worker keep every socket in one place.
LEMMA WorkerPlaces ==
  ASSUME PlacesInv, NEW w \in Workers, Worker(w)
  PROVE  BacklogOK' /\ MasterOK' /\ WaitingOK' /\ HandsOK'
<1> USE DEF PlacesInv
<1>1. CASE NoHandler(w) \/ Abort(w) \/ AssertFails(w)
  BY <1>1, Stay DEF NoHandler, Abort, AssertFails, Die
<1>2. CASE \/ Begin(w) \/ ConsumeLock(w) \/ ConsumeEmpty(w) \/ ConsumeWait(w)
           \/ Consumed(w) \/ ThreadStop(w) \/ Leave(w) \/ Left(w) \/ Unlock(w)
  <2> USE DEF Begin, ConsumeLock, ConsumeEmpty, ConsumeWait, Consumed, ThreadStop, Leave, Left,
              Unlock, WakeMaster, Go, master
  <2>1. UNCHANGED <<ring, net, msock, wsock>>
    BY <1>2
  <2>2. mpc' = mpc \/ (mpc = "joinsleep" /\ mpc' = "join")
    BY <1>2
  <2>3. \A v \in Workers :
          \/ wpc'[v] = wpc[v]
          \/ wpc'[v] \in {"taken", "serve", "stopping", "leave", "leaving", "left", "gone"}
          \/ wpc[v] \in {"born", "lock", "empty?", "empty"}
    BY <1>2 DEF TypeOK
  <2> QED BY <2>1, <2>2, <2>3, Stay
<1>3. CASE Dequeue(w)
  <2>1. /\ wpc' = [wpc EXCEPT ![w] = "taken"] /\ wpc[w] = "empty?"
        /\ mpc' = mpc \/ (mpc = "fullsleep" /\ mpc' = "produce")
        /\ UNCHANGED <<sock, backlog, msock>>
    BY <1>3 DEF Dequeue, Go, WakeMaster, net
  <2>2. BacklogOK' /\ MasterOK'
    BY <2>1 DEF BacklogOK, MasterOK
  <2>3. CASE ~(sq_head > sq_tail)
    <3>1. UNCHANGED <<ring, net, msock, wsock>>
      BY <1>3, <2>1, <2>3 DEF Dequeue, ring, net
    <3>2. \A v \in Workers : wpc'[v] = wpc[v] \/ wpc'[v] = "taken"
      BY <2>1 DEF TypeOK
    <3> QED BY <2>1, <3>1, <3>2, Stay
  <2>4. CASE sq_head > sq_tail
    <3> DEFINE n == sq_head - sq_tail
    <3>1. /\ Waiting \in Seq(Sockets) /\ Waiting # <<>> /\ Len(Waiting) = n
          /\ Waiting' = Tail(Waiting) /\ wsock' = [wsock EXCEPT ![w] = Head(Waiting)]
      BY <1>3, <2>4, DequeueTakes, WaitingSeq
    <3>2. n \in Nat \ {0} /\ sq_head' - sq_tail' = n - 1
      BY <1>3, <2>4, MgPoolAssumption DEF Dequeue, Wrapped, TypeOK
    <3>3. /\ Head(Waiting) = Waiting[1]
          /\ \A i \in 1..(n - 1) : Waiting'[i] = Waiting[i + 1]
      BY <3>1, TailFacts
    <3>4. /\ 1 \in 1..n
          /\ \A i \in 1..(n - 1) : i + 1 \in 1..n /\ i + 1 # 1
          /\ \A i, j \in 1..(n - 1) : i + 1 = j + 1 => i = j
      BY <3>2
    <3>5. \A i \in 1..n : /\ Waiting[i] \in Sockets /\ sock[Waiting[i]] = "open"
                          /\ Waiting[i] # msock
                          /\ \A j \in 1..n : Waiting[i] = Waiting[j] => i = j
      BY DEF WaitingOK
    <3>6. WaitingOK'
      <4>1. \A i \in 1..(n - 1) :
              Waiting'[i] \in Sockets /\ sock'[Waiting'[i]] = "open" /\ Waiting'[i] # msock'
        BY <2>1, <3>3, <3>4, <3>5
      <4>2. \A i, j \in 1..(n - 1) : Waiting'[i] = Waiting'[j] => i = j
        BY <3>3, <3>4, <3>5
      <4> QED BY <3>2, <4>1, <4>2 DEF WaitingOK
    <3>7. HandsOK'
      <4> SUFFICES ASSUME NEW v \in Workers, wsock'[v] # None
                   PROVE  /\ sock'[wsock'[v]] = "open" /\ wsock'[v] # msock'
                          /\ \A i \in 1..(n - 1) : Waiting'[i] # wsock'[v]
                          /\ \A u \in Workers : wsock'[u] = wsock'[v] => u = v
        <5>1. \A v \in Workers : wpc'[v] = wpc[v] \/ (v = w /\ wpc'[v] = "taken")
          BY <2>1 DEF TypeOK
        <5>2. \A v \in Workers : v # w => wsock'[v] = wsock[v]
          BY <3>1 DEF TypeOK
        <5> QED BY <2>1, <3>2, <5>1, <5>2 DEF HandsOK, TypeOK
      <4>1. \A u \in Workers : u # w => wsock'[u] = wsock[u]
        BY <3>1 DEF TypeOK
      <4>2. wsock'[w] = Waiting[1]
        BY <3>1, <3>3 DEF TypeOK
      <4>3. \A u \in Workers \ {w} : wsock[u] # Waiting[1]
        <5>1. Waiting[1] # None
          BY <3>4, <3>5, MgPoolAssumption
        <5> QED BY <3>4, <5>1 DEF HandsOK
      <4>4. CASE v = w
        BY <2>1, <3>3, <3>4, <3>5, <4>1, <4>2, <4>3, <4>4
      <4>5. CASE v # w
        <5>1. /\ sock[wsock[v]] = "open" /\ wsock[v] # msock
              /\ \A i \in 1..n : Waiting[i] # wsock[v]
              /\ \A u \in Workers : wsock[u] = wsock[v] => u = v
          BY <4>1, <4>5 DEF HandsOK
        <5> QED BY <2>1, <3>3, <3>4, <4>1, <4>2, <4>3, <4>5, <5>1
      <4> QED BY <4>4, <4>5
    <3> QED BY <2>2, <3>6, <3>7
  <2> QED BY <2>3, <2>4
<1>4. CASE Serve(w)
  <2>1. /\ \A s \in Sockets : s # wsock[w] => sock'[s] = sock[s]
        /\ wsock' = [wsock EXCEPT ![w] = None] /\ wpc' = [wpc EXCEPT ![w] = "lock"]
        /\ UNCHANGED <<backlog, mpc, msock>> /\ UNCHANGED ring
    BY <1>4 DEF Serve, Go, master
  <2>2. BacklogOK'
    <3>1. \A i \in DOMAIN backlog : backlog[i] \in Sockets
      BY DEF TypeOK
    <3>2. \A i \in DOMAIN backlog : backlog[i] # wsock[w]
      BY <3>1, MgPoolAssumption DEF BacklogOK, HandsOK
    <3> QED BY <2>1, <3>1, <3>2 DEF BacklogOK
  <2>3. MasterOK'
    BY <2>1 DEF MasterOK, HandsOK, TypeOK
  <2>4. WaitingOK'
    <3>1. \A i \in 1..(sq_head - sq_tail) : Waiting[i] \in Sockets /\ Waiting[i] # wsock[w]
      BY MgPoolAssumption DEF WaitingOK, HandsOK
    <3> QED BY <2>1, <3>1, SameWaiting DEF WaitingOK
  <2>5. HandsOK'
    BY <2>1, SameWaiting, MgPoolAssumption DEF HandsOK, TypeOK
  <2> QED BY <2>2, <2>3, <2>4, <2>5
<1> QED BY <1>1, <1>2, <1>3, <1>4 DEF Worker

LEMMA PlacesStep == PlacesInv /\ [Next]_vars => PlacesInv'
<1> SUFFICES ASSUME PlacesInv, [Next]_vars
             PROVE  BacklogOK' /\ MasterOK' /\ WaitingOK' /\ HandsOK'
  BY TypesStep DEF PlacesInv
<1>1. CASE Owner \/ Stop
  <2>1. UNCHANGED <<ring, net, msock, wsock>>
    BY <1>1 DEF Owner, Stop, StartMaster, StartWorker, CountRead, CountWrite, Started, StopReturn,
                master, worker
  <2>2. mpc' = mpc \/ mpc' = "poll"
    BY <1>1 DEF Owner, Stop, StartMaster, StartWorker, CountRead, CountWrite, Started, StopReturn,
                master
  <2>3. \A w \in Workers : wpc'[w] = wpc[w] \/ wpc[w] = "unborn"
    BY <1>1 DEF Owner, Stop, StartMaster, StartWorker, CountRead, CountWrite, Started, StopReturn,
                worker, PlacesInv, TypeOK
  <2> QED BY <2>1, <2>2, <2>3, Stay
<1>2. CASE UNCHANGED vars
  <2>1. UNCHANGED <<ring, net, msock, wsock>> /\ UNCHANGED <<mpc, wpc>>
    BY <1>2 DEF vars, ring, net, master, worker
  <2> QED BY <2>1, Stay
<1> QED BY <1>1, <1>2, ConnectPlaces, MasterPlaces, WorkerPlaces DEF Next

\* A step that leaves the ring and the workers' sockets alone is a stutter of
\* the queue.
LEMMA Stutter ==
  ASSUME UNCHANGED <<ring, wsock>>
  PROVE  UNCHANGED Fifo!vars
  BY SameWaiting DEF Fifo!vars, InHand

\* Every step of the threads is a step of the queue or a stutter.
LEMMA FifoStep == PlacesInv /\ [Next]_vars => [Fifo!Next]_(Fifo!vars)
<1> SUFFICES ASSUME PlacesInv, [Next]_vars PROVE [Fifo!Next]_(Fifo!vars)
  OBVIOUS
<1> USE DEF PlacesInv
<1>1. CASE Enqueue
  <2>1. msock \in Sockets /\ UNCHANGED wsock
    BY <1>1 DEF Enqueue, MasterOK, TypeOK
  <2>2. CASE IsFull
    BY <1>1, <2>1, <2>2, Stutter DEF Enqueue
  <2>3. CASE ~IsFull
    <3>1. Waiting' = Append(Waiting, msock) /\ Len(Waiting) = sq_head - sq_tail
      BY <1>1, <2>1, <2>3, EnqueueAppends, WaitingSeq
    <3>2. Len(Waiting) < QLen
      BY <2>3, <3>1, MgPoolAssumption DEF IsFull, TypeOK
    <3>3. msock \notin InHand /\ InHand' = InHand
      BY <2>1 DEF InHand, HandsOK
    <3>4. \A i \in 1..Len(Waiting) : Waiting[i] # msock
      BY <3>1 DEF WaitingOK
    <3>5. Fifo!Put(msock)
      BY <3>1, <3>2, <3>3, <3>4 DEF Fifo!Put
    <3> QED BY <2>1, <3>5 DEF Fifo!Next
  <2> QED BY <2>2, <2>3
<1>2. ASSUME NEW w \in Workers, Dequeue(w) PROVE [Fifo!Next]_(Fifo!vars)
  <2>1. CASE sq_head > sq_tail
    <3>1. /\ Waiting \in Seq(Sockets) /\ Waiting # <<>> /\ Waiting' = Tail(Waiting)
          /\ wsock' = [wsock EXCEPT ![w] = Head(Waiting)]
      BY <1>2, <2>1, DequeueTakes, WaitingSeq
    <3>2. Head(Waiting) \in Sockets /\ wsock[w] = None
      BY <1>2, <3>1, TailFacts DEF Dequeue, HandsOK
    <3>3. InHand' = InHand \cup {Head(Waiting)}
      <4>1. /\ wsock'[w] = Head(Waiting) /\ Head(Waiting) # None
            /\ \A v \in Workers : v # w => wsock'[v] = wsock[v]
        BY <3>1, <3>2, MgPoolAssumption DEF TypeOK
      <4> QED BY <3>2, <4>1 DEF InHand
    <3>4. Fifo!Take
      BY <3>1, <3>3 DEF Fifo!Take
    <3> QED BY <3>4 DEF Fifo!Next
  <2>2. CASE ~(sq_head > sq_tail)
    BY <1>2, <2>2, Stutter DEF Dequeue, ring
  <2> QED BY <2>1, <2>2
<1>3. ASSUME NEW w \in Workers, Serve(w) PROVE [Fifo!Next]_(Fifo!vars)
  <2>1. Waiting' = Waiting /\ wsock' = [wsock EXCEPT ![w] = None]
    BY <1>3, SameWaiting DEF Serve
  <2>2. CASE wsock[w] = None
    <3>1. wsock' = wsock
      BY <2>1, <2>2 DEF TypeOK
    <3> QED BY <2>1, <3>1 DEF Fifo!vars, InHand
  <2>3. CASE wsock[w] # None
    <3>1. wsock[w] \in Sockets /\ wsock[w] \in InHand
      BY <2>3 DEF TypeOK, InHand
    <3>2. InHand' = InHand \ {wsock[w]}
      <4>1. /\ wsock'[w] = None /\ \A v \in Workers : v # w => wsock'[v] = wsock[v]
            /\ \A v \in Workers : wsock[v] = wsock[w] => v = w
        BY <2>1, <2>3 DEF TypeOK, HandsOK
      <4> QED BY <4>1 DEF InHand
    <3>3. Fifo!Drop(wsock[w])
      BY <2>1, <3>1, <3>2 DEF Fifo!Drop
    <3> QED BY <3>1, <3>3 DEF Fifo!Next
  <2> QED BY <2>2, <2>3
<1>4. CASE \/ Owner \/ Stop \/ \E s \in Sockets : Connect(s)
  BY <1>4, Stutter DEF Connect, Owner, Stop, StartMaster, StartWorker, CountRead, CountWrite,
                       Started, StopReturn, worker
<1>5. CASE \/ Accept \/ LeaveLoop \/ ProduceLock \/ ProduceFull \/ ProduceWait \/ Broadcast
           \/ Join \/ MasterExit
  BY <1>5, Stutter DEF Accept, LeaveLoop, ProduceLock, ProduceFull, ProduceWait, Broadcast, Join,
                       MasterExit, worker
<1>6. ASSUME NEW w \in Workers,
             \/ Begin(w) \/ NoHandler(w) \/ ConsumeLock(w) \/ ConsumeEmpty(w)
             \/ ConsumeWait(w) \/ Consumed(w) \/ ThreadStop(w) \/ Abort(w) \/ Leave(w)
             \/ Left(w) \/ Unlock(w) \/ AssertFails(w)
      PROVE  [Fifo!Next]_(Fifo!vars)
  BY <1>6, Stutter DEF Begin, NoHandler, ConsumeLock, ConsumeEmpty, ConsumeWait, Consumed,
                       ThreadStop, Abort, Leave, Left, Unlock, AssertFails, Die
<1>7. CASE UNCHANGED vars
  BY <1>7, Stutter DEF vars, worker
<1> QED BY <1>1, <1>2, <1>3, <1>4, <1>5, <1>6, <1>7 DEF Next, Master, Worker

\* However many workers there are and however long the ring is, the master and
\* the workers hand sockets over as through a bounded first-in first-out queue:
\* none is lost, doubled, overwritten or overtaken, while the pointers wrap and
\* while the server stops, and whichever worker cannot start.
THEOREM RingImplementsFifo == Spec => FifoSpec
<1>1. Init => Fifo!Init
  BY DEF Init, Fifo!Init, Waiting, InHand
<1> QED BY <1>1, PlacesInit, PlacesStep, FifoStep, PTL DEF Spec, FifoSpec, Fifo!Spec
=============================================================================
