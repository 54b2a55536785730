---------------------------- MODULE SocketFifo ----------------------------
(***************************************************************************)
(* What the master and the worker threads of the web server may rely on    *)
(* when they hand sockets over: a bounded first-in first-out queue.        *)
(* Implemented by the ring buffer of MgPool.                               *)
(***************************************************************************)
EXTENDS Naturals, Sequences

CONSTANTS Sockets, Capacity

VARIABLES waiting,   \* the accepted sockets no worker has taken yet, in order
          taken      \* the sockets being served

vars == <<waiting, taken>>

Init == waiting = <<>> /\ taken = {}

\* The master adds a socket that is neither waiting nor served.
Put(s) == /\ Len(waiting) < Capacity
          /\ s \notin taken /\ \A i \in 1..Len(waiting) : waiting[i] # s
          /\ waiting' = Append(waiting, s)
          /\ UNCHANGED taken

\* A worker takes the oldest one.
Take == /\ waiting # <<>>
        /\ taken' = taken \cup {Head(waiting)}
        /\ waiting' = Tail(waiting)

Drop(s) == /\ s \in taken
           /\ taken' = taken \ {s}
           /\ UNCHANGED waiting

Next == Take \/ \E s \in Sockets : Put(s) \/ Drop(s)

Spec == Init /\ [][Next]_vars
=============================================================================
