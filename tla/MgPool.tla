------------------------------ MODULE MgPool ------------------------------
(***************************************************************************)
(* The threads of the embedded web server: mg_start creates one master     *)
(* thread, which accepts connections, and the worker threads, which serve  *)
(* them.  Accepted sockets pass through a ring buffer guarded by a mutex   *)
(* and two condition variables.  mg_stop raises a flag that every thread   *)
(* reads without the mutex and waits until the master has seen all the     *)
(* workers leave.                                                          *)
(*                                                                         *)
(* A section under the mutex is one step, except where it shares variables *)
(* with those who do not take it: stop_flag, which is read before a thread *)
(* decides to sleep, and num_threads, which mg_start increments.           *)
(***************************************************************************)
EXTENDS Naturals, Integers, Sequences

CONSTANTS Workers,   \* the worker threads (num_threads)
          Sockets,   \* the connections that clients open, again and again
          QLen,      \* MGSQLEN
          MayStop,   \* does somebody call mg_stop?
          MayFail,   \* may a worker run out of memory when it starts?
          None       \* no socket, no thread

ASSUME MgPoolAssumption ==
         /\ QLen \in Nat \ {0}
         /\ MayStop \in BOOLEAN /\ MayFail \in BOOLEAN
         /\ None \notin Workers \cup Sockets \cup {"master"}
         /\ "master" \notin Workers

VARIABLES
  stop_flag,    \* 0 | 1: mg_stop was called | 2: the master is done
  num_threads,  \* the workers that exist, says the context
  lock,         \* the owner of ctx->mutex
  queue, sq_head, sq_tail,
  sock,         \* sock[s]: "none" | "backlog" | "open"
  backlog,      \* connections to accept, in the order they arrived
  mpc, msock,   \* the master, the socket it just accepted
  wpc, wsock,   \* the workers, conn->client of each
  wread,        \* the num_threads a leaving worker has read
  spc, sread    \* the thread in mg_start and mg_stop, the num_threads it read

net    == <<sock, backlog>>
ring   == <<queue, sq_head, sq_tail>>
master == <<mpc, msock>>
worker == <<wpc, wsock, wread>>
owner  == <<spc, sread>>
vars   == <<stop_flag, num_threads, lock, ring, net, master, worker, owner>>

-----------------------------------------------------------------------------
IsFull   == sq_head - sq_tail >= QLen
IsEmpty  == sq_head = sq_tail

Asleep == {w \in Workers : wpc[w] = "asleep"}  \* waiting on sq_full

\* pthread_cond_signal(&sq_full), on top of worker states pc.
WakeOne(pc) == \/ Asleep = {} /\ wpc' = pc
               \/ \E w \in Asleep : wpc' = [pc EXCEPT ![w] = "lock"]

\* pthread_cond_signal on a condition that only the master waits on.
WakeMaster(at, to) == mpc' = IF mpc = at THEN to ELSE mpc

Init == /\ stop_flag = 0 /\ num_threads = 0 /\ lock = None
        /\ queue = [i \in 0..QLen-1 |-> None] /\ sq_head = 0 /\ sq_tail = 0
        /\ sock = [s \in Sockets |-> "none"] /\ backlog = <<>>
        /\ mpc = "unborn" /\ msock = None
        /\ wpc = [w \in Workers |-> "unborn"]
        /\ wsock = [w \in Workers |-> None]
        /\ wread = [w \in Workers |-> 0]
        /\ spc = "start" /\ sread = 0

\* A client connects; the kernel queues the connection.
Connect(s) == /\ sock[s] = "none"
              /\ mpc \notin {"unborn", "broadcast", "join", "joinsleep", "joined", "gone",
                            "dead"}
              /\ sock' = [sock EXCEPT ![s] = "backlog"]
              /\ backlog' = Append(backlog, s)
              /\ UNCHANGED <<stop_flag, num_threads, lock, ring, master, worker, owner>>

-----------------------------------------------------------------------------
(* mg_start and mg_stop, called by the main thread *)

StartMaster == /\ spc = "start" /\ mpc = "unborn"
               /\ mpc' = "poll"
               /\ spc' = "spawn"
               /\ UNCHANGED <<stop_flag, num_threads, lock, ring, net, msock, worker, sread>>

StartWorker == /\ spc = "spawn"
               /\ \E w \in Workers : /\ wpc[w] = "unborn"
                                     /\ wpc' = [wpc EXCEPT ![w] = "born"]
               /\ spc' = "count"
               /\ UNCHANGED <<stop_flag, num_threads, lock, ring, net, master, wsock,
                              wread, sread>>

\* ctx->num_threads++ without the mutex: a read and a write.
CountRead  == /\ spc = "count"
              /\ sread' = num_threads
              /\ spc' = "counting"
              /\ UNCHANGED <<stop_flag, num_threads, lock, ring, net, master, worker>>

CountWrite == /\ spc = "counting"
              /\ num_threads' = sread + 1
              /\ sread' = 0
              /\ spc' = "spawn"
              /\ UNCHANGED <<stop_flag, lock, ring, net, master, worker>>

Started == /\ spc = "spawn"
           /\ \A w \in Workers : wpc[w] # "unborn"
           /\ spc' = "running"
           /\ UNCHANGED <<stop_flag, num_threads, lock, ring, net, master, worker, sread>>

Stop == /\ MayStop
        /\ spc = "running"
        /\ stop_flag' = 1
        /\ spc' = "stopping"
        /\ UNCHANGED <<num_threads, lock, ring, net, master, worker, sread>>

\* The master is done: free the context, mutex and queue included.
StopReturn == /\ spc = "stopping"
              /\ stop_flag = 2
              /\ spc' = "stopped"
              /\ UNCHANGED <<stop_flag, num_threads, lock, ring, net, master, worker, sread>>

-----------------------------------------------------------------------------
(* The master thread *)

Accept == /\ mpc = "poll" /\ stop_flag = 0
          /\ backlog # <<>>
          /\ backlog' = Tail(backlog)
          /\ sock' = [sock EXCEPT ![Head(backlog)] = "open"]
          /\ msock' = Head(backlog)
          /\ mpc' = "produce"
          /\ UNCHANGED <<stop_flag, num_threads, lock, ring, worker, owner>>

\* The loop ends; the listening sockets are closed and with them the backlog.
LeaveLoop == /\ mpc = "poll" /\ stop_flag # 0
             /\ mpc' = "broadcast"
             /\ sock' = [s \in Sockets |-> IF sock[s] = "backlog" THEN "none" ELSE sock[s]]
             /\ backlog' = <<>>
             /\ UNCHANGED <<stop_flag, num_threads, lock, ring, msock, worker, owner>>

ProduceLock == /\ mpc = "produce" /\ lock = None
               /\ lock' = "master"
               /\ mpc' = "full?"
               /\ UNCHANGED <<stop_flag, num_threads, ring, net, msock, worker, owner>>

ProduceFull == /\ mpc = "full?"
               /\ stop_flag = 0 /\ IsFull
               /\ mpc' = "full"
               /\ UNCHANGED <<stop_flag, num_threads, lock, ring, net, msock, worker, owner>>

\* pthread_cond_wait(&sq_empty): release the mutex and sleep.
ProduceWait == /\ mpc = "full"
               /\ mpc' = "fullsleep"
               /\ lock' = None
               /\ UNCHANGED <<stop_flag, num_threads, ring, net, msock, worker, owner>>

\* Mutant of Enqueue: the test for a full queue is off by one.
EnqueueOver == /\ mpc = "full?"
               /\ IF sq_head - sq_tail > QLen THEN UNCHANGED ring
                  ELSE /\ queue' = [queue EXCEPT ![sq_head % QLen] = msock]
                       /\ sq_head' = sq_head + 1
                       /\ UNCHANGED sq_tail
               /\ WakeOne(wpc)
               /\ lock' = None
               /\ mpc' = "poll" /\ msock' = None
               /\ UNCHANGED <<stop_flag, num_threads, net, wsock, wread, owner>>

\* Queue the socket if there is room (there may be none when stopping), signal
\* sq_full, unlock.
Enqueue == /\ mpc = "full?"
           /\ stop_flag # 0 \/ ~IsFull
           /\ IF IsFull THEN UNCHANGED ring
              ELSE /\ queue' = [queue EXCEPT ![sq_head % QLen] = msock]
                   /\ sq_head' = sq_head + 1
                   /\ UNCHANGED sq_tail
           /\ WakeOne(wpc)
           /\ lock' = None
           /\ mpc' = "poll" /\ msock' = None
           /\ UNCHANGED <<stop_flag, num_threads, net, wsock, wread, owner>>

\* pthread_cond_broadcast(&sq_full), without the mutex.
Broadcast == /\ mpc = "broadcast"
             /\ wpc' = [w \in Workers |-> IF w \in Asleep THEN "lock" ELSE wpc[w]]
             /\ mpc' = "join"
             /\ UNCHANGED <<stop_flag, num_threads, lock, ring, net, msock, wsock, wread, owner>>

\* Mutant of Join: while (ctx->num_threads > 1).
JoinEarly == /\ mpc = "join" /\ lock = None
             /\ mpc' = IF num_threads > 1 THEN "joinsleep" ELSE "joined"
             /\ UNCHANGED <<stop_flag, num_threads, lock, ring, net, msock, worker, owner>>

\* Wait on ctx->cond until num_threads is not positive.
Join == /\ mpc = "join" /\ lock = None
        /\ mpc' = IF num_threads > 0 THEN "joinsleep" ELSE "joined"
        /\ UNCHANGED <<stop_flag, num_threads, lock, ring, net, msock, worker, owner>>

\* Destroy the mutex and the conditions, tell mg_stop.
MasterExit == /\ mpc = "joined"
              /\ mpc' = "gone"
              /\ stop_flag' = 2
              /\ UNCHANGED <<num_threads, lock, ring, net, msock, worker, owner>>

Master == \/ Accept \/ LeaveLoop \/ ProduceLock \/ ProduceFull \/ ProduceWait \/ Enqueue
          \/ Broadcast \/ Join \/ MasterExit

-----------------------------------------------------------------------------
(* A worker thread *)

Go(w, pc) == wpc' = [wpc EXCEPT ![w] = pc]

\* calloc of the connection, which may fail, and the callback that creates the handler.
Begin(w) == /\ wpc[w] = "born"
            /\ Go(w, "lock") \/ (MayFail /\ Go(w, "leave"))
            /\ UNCHANGED <<stop_flag, num_threads, lock, ring, net, master, wsock, wread,
                           owner>>

\* exit(1), or an abort: every thread is gone.
Die == /\ wpc' = [v \in Workers |-> "dead"]
       /\ mpc' = "dead" /\ spc' = "dead"
       /\ UNCHANGED <<stop_flag, num_threads, lock, ring, net, msock, wsock, wread,
                      sread>>

\* thread_start cannot allocate the handler.
NoHandler(w) == /\ wpc[w] = "born" /\ MayFail
                /\ Die

ConsumeLock(w) == /\ wpc[w] = "lock" /\ lock = None
                  /\ lock' = w
                  /\ Go(w, "empty?")
                  /\ UNCHANGED <<stop_flag, num_threads, ring, net, master, wsock, wread, owner>>

ConsumeEmpty(w) == /\ wpc[w] = "empty?"
                   /\ IsEmpty /\ stop_flag = 0
                   /\ Go(w, "empty")
                   /\ UNCHANGED <<stop_flag, num_threads, lock, ring, net, master, wsock,
                                  wread, owner>>

\* pthread_cond_wait(&sq_full): release the mutex and sleep.
ConsumeWait(w) == /\ wpc[w] = "empty"
                  /\ Go(w, "asleep")
                  /\ lock' = None
                  /\ UNCHANGED <<stop_flag, num_threads, ring, net, master, wsock, wread, owner>>

\* Mutant of Wrapped: the tail is taken back to 0 instead of by the size of the ring.
WrappedToZero(t) == IF t > QLen THEN t ELSE 0

\* "Wrap pointers if needed", after the tail has moved to t.
Wrapped(t) == IF t > QLen THEN QLen ELSE 0

\* Mutant of Dequeue: the master is not told that there is room again.
DequeueSilent(w) == /\ wpc[w] = "empty?"
                    /\ ~IsEmpty \/ stop_flag # 0
                    /\ IF sq_head > sq_tail
                       THEN /\ wsock' = [wsock EXCEPT ![w] = queue[sq_tail % QLen]]
                            /\ sq_tail' = sq_tail + 1 - Wrapped(sq_tail + 1)
                            /\ sq_head' = sq_head - Wrapped(sq_tail + 1)
                       ELSE UNCHANGED <<wsock, sq_tail, sq_head>>
                    /\ lock' = None
                    /\ Go(w, "taken")
                    /\ UNCHANGED <<stop_flag, num_threads, queue, net, mpc, msock, wread, owner>>

\* Take the oldest socket if there is one, signal sq_empty, unlock.
Dequeue(w) == /\ wpc[w] = "empty?"
              /\ ~IsEmpty \/ stop_flag # 0
              /\ IF sq_head > sq_tail
                 THEN /\ wsock' = [wsock EXCEPT ![w] = queue[sq_tail % QLen]]
                      /\ sq_tail' = sq_tail + 1 - Wrapped(sq_tail + 1)
                      /\ sq_head' = sq_head - Wrapped(sq_tail + 1)
                 ELSE UNCHANGED <<wsock, sq_tail, sq_head>>
              /\ WakeMaster("fullsleep", "produce")
              /\ lock' = None
              /\ Go(w, "taken")
              /\ UNCHANGED <<stop_flag, num_threads, queue, net, msock, wread,
                             owner>>

\* return !ctx->stop_flag, read after the mutex was released.
Consumed(w) == /\ wpc[w] = "taken"
               /\ Go(w, IF stop_flag = 0 THEN "serve" ELSE "stopping")
               /\ UNCHANGED <<stop_flag, num_threads, lock, ring, net, master, wsock, wread, owner>>

\* process_new_connection and close_connection.
Serve(w) == /\ wpc[w] = "serve"
            /\ sock' = [s \in Sockets |-> IF s = wsock[w] THEN "none" ELSE sock[s]]
            /\ wsock' = [wsock EXCEPT ![w] = None]
            /\ Go(w, "lock")
            /\ UNCHANGED <<stop_flag, num_threads, lock, ring, backlog, master, wread, owner>>

\* The thread_stop callback deletes not the handler but the field of the
\* connection that points to it.  Either nothing comes of it, and the handler
\* stays where it is,
ThreadStop(w) == /\ wpc[w] = "stopping"
                 /\ Go(w, "leave")
                 /\ UNCHANGED <<stop_flag, num_threads, lock, ring, net, master, wsock,
                                wread, owner>>

\* or free() notices and aborts the process.
Abort(w) == /\ wpc[w] = "stopping"
            /\ Die

\* ctx->num_threads-- under the mutex, which mg_start does not take.
Leave(w) == /\ wpc[w] = "leave" /\ lock = None
            /\ lock' = w
            /\ wread' = [wread EXCEPT ![w] = num_threads]
            /\ Go(w, "leaving")
            /\ UNCHANGED <<stop_flag, num_threads, ring, net, master, wsock,
                           owner>>

Left(w) == /\ wpc[w] = "leaving"
           /\ num_threads' = wread[w] - 1
           /\ WakeMaster("joinsleep", "join")
           /\ wread' = [wread EXCEPT ![w] = 0]
           /\ Go(w, "left")
           /\ UNCHANGED <<stop_flag, lock, ring, net, msock, wsock, owner>>

\* assert(ctx->num_threads >= 0), which this build keeps: unlock,
Unlock(w) == /\ wpc[w] = "left" /\ num_threads >= 0
             /\ lock' = None
             /\ Go(w, "gone")
             /\ UNCHANGED <<stop_flag, num_threads, ring, net, master, wsock, wread, owner>>

\* or abort.
AssertFails(w) == /\ wpc[w] = "left" /\ num_threads < 0
                  /\ Die

Worker(w) == \/ Begin(w) \/ NoHandler(w) \/ ConsumeLock(w) \/ ConsumeEmpty(w) \/ ConsumeWait(w)
             \/ Dequeue(w) \/ Consumed(w) \/ Serve(w) \/ ThreadStop(w) \/ Abort(w)
             \/ Leave(w) \/ Left(w) \/ Unlock(w) \/ AssertFails(w)

-----------------------------------------------------------------------------
Owner == StartMaster \/ StartWorker \/ CountRead \/ CountWrite \/ Started \/ StopReturn

Next == \/ \E s \in Sockets : Connect(s)
        \/ Owner
        \/ Stop
        \/ Master
        \/ \E w \in Workers : Worker(w)

Spec == Init /\ [][Next]_vars

\* The kernel runs every thread; a thread that waits for the mutex gets it if
\* the mutex is free again and again; a request is served in bounded time
\* (set_sock_timeout and the two bounded buffers).  Nobody has to connect, or to
\* call mg_stop.
Fairness == /\ WF_vars(Owner)
            /\ WF_vars(Master) /\ SF_vars(ProduceLock) /\ SF_vars(Join)
            /\ \A w \in Workers : /\ WF_vars(Worker(w))
                                  /\ SF_vars(ConsumeLock(w)) /\ SF_vars(Leave(w))

FairSpec == Spec /\ Fairness

-----------------------------------------------------------------------------
(* Properties *)

WorkerStates == {"unborn", "born", "lock", "empty?", "empty", "asleep", "taken", "serve",
                 "stopping", "leave", "leaving", "left", "gone", "dead"}

\* The types of the variables; the pointers of the ring stay small.
TypeOK ==
  /\ stop_flag \in 0..2 /\ num_threads \in Int
  /\ lock \in Workers \cup {"master", None}
  /\ queue \in [0..QLen-1 -> Sockets \cup {None}]
  /\ sq_tail \in 0..QLen /\ sq_head \in sq_tail..sq_tail + QLen
  /\ sock \in [Sockets -> {"none", "backlog", "open"}] /\ backlog \in Seq(Sockets)
  /\ mpc \in {"unborn", "poll", "produce", "full?", "full", "fullsleep", "broadcast",
              "join", "joinsleep", "joined", "gone", "dead"}
  /\ msock \in Sockets \cup {None}
  /\ wpc \in [Workers -> WorkerStates]
  /\ wsock \in [Workers -> Sockets \cup {None}]
  /\ wread \in [Workers -> Int]
  /\ spc \in {"start", "spawn", "count", "counting", "running", "stopping", "stopped", "dead"}
  /\ sread \in Int

\* The ring buffer and its wrapping pointers are a first-in first-out queue of
\* QLen sockets: none is lost, duplicated, overwritten or overtaken on its way
\* from the master to a worker.
Waiting == [i \in 1..(sq_head - sq_tail) |-> queue[(sq_tail + i - 1) % QLen]]
InHand  == {wsock[w] : w \in Workers} \ {None}

Fifo == INSTANCE SocketFifo WITH Capacity <- QLen, waiting <- Waiting, taken <- InHand
FifoSpec == Fifo!Spec

\* While nobody stops the server and some worker is left, every connection that is
\* waiting is served and closed: no wake-up is lost on the way, neither the master's
\* nor a worker's, whichever workers are out of memory.
NobodyServes == \A w \in Workers : wpc[w] \in {"leave", "leaving", "left", "gone", "dead"}

EveryConnectionServed ==
  \A s \in Sockets : sock[s] # "none" ~> sock[s] = "none" \/ NobodyServes

\* "This function blocks until all Mongoose threads are stopped.  Context pointer
\* becomes invalid" (mg_stop): no thread runs with a context that was freed.
ContextOutlivesThreads ==
  spc = "stopped" => mpc = "gone" /\ \A w \in Workers : wpc[w] \in {"unborn", "gone"}

\* mg_stop blocks until the threads are stopped, and they do stop.
StopReturns == spc = "stopping" ~> spc \in {"stopped", "dead"}
=============================================================================
