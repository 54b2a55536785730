------------------------ MODULE SharedMemoryProofs ------------------------
(***************************************************************************)
(* Theorems about SharedMemory for every number of workers, every length   *)
(* of the two sleeps and every number of rewrites.                         *)
(***************************************************************************)
EXTENDS SharedMemory, TLAPS

\* The memory a process loses, for the steps that end it.
LEMMA ExitTypes == TypeOK /\ Exit => TypeOK'
<1> SUFFICES ASSUME TypeOK, Exit PROVE TypeOK'
  OBVIOUS
<1>1. Empty \in Contents
  BY DEF Empty, Contents
<1>2. /\ buffer' \in [Kinds -> [Slots -> Contents]]
      /\ view' \in [Workers -> [Kinds -> Contents]]
      /\ ref' \in [Workers -> [Kinds -> Slots]]
  BY <1>1 DEF Exit, FreshBuffer, NoRef, NoView, Slots
<1>3. age' \in [Workers -> 0..Grace] /\ met' \in [Workers -> SUBSET (Contents \X Contents)]
  BY SharedMemoryAssumption DEF Exit
<1> QED BY <1>2, <1>3 DEF TypeOK, Exit, env, Kinds, Slots

\* What Return, the common end of two actions, does to the types.
LEMMA ReturnTypes ==
  ASSUME TypeOK, Return
  PROVE  /\ cur' \in Kinds /\ timer' \in Nat
         /\ upc' \in {"stat", "settle", "load", "loaded", "grace", "sleep"}
         /\ proc' \in {"booting", "serving", "dead"}
  BY SharedMemoryAssumption DEF TypeOK, Return, Kinds

\* The two slots of a kind, and what they are filled with.
LEMMA SlotTypes ==
  TypeOK => /\ cur \in Kinds /\ buffer \in [Kinds -> [Slots -> Contents]]
            /\ \A k \in Kinds : /\ flag[k] \in Slots /\ Other(flag[k]) \in Slots
                                /\ Other(flag[k]) # flag[k]
  BY DEF TypeOK, Slots, Other

\* Every step keeps the types of the variables.
LEMMA TypesStep == TypeOK /\ [Next]_vars => TypeOK'
<1> USE SharedMemoryAssumption
<1> SUFFICES ASSUME TypeOK, [Next]_vars PROVE TypeOK'
  OBVIOUS
<1>1. ASSUME NEW k \in Kinds, StartWrite(k) PROVE TypeOK'
  BY <1>1 DEF TypeOK, StartWrite, Files, memory, reqs, past
<1>2. ASSUME NEW k \in Kinds, FinishWrite(k) PROVE TypeOK'
  BY <1>2 DEF TypeOK, FinishWrite, Files, memory, frame, reqs, past
<1>3. CASE Tick
  <2>1. age' \in [Workers -> 0..Grace]
    BY <1>3 DEF TypeOK, Tick
  <2>2. clock' \in [Kinds -> Nat] /\ timer' \in Nat
    BY <1>3 DEF TypeOK, Tick
  <2> QED BY <1>3, <2>1, <2>2 DEF TypeOK, Tick, memory, past
<1>4. CASE Updater
  <2>1. CASE Skip
    BY <2>1, ReturnTypes DEF TypeOK, Skip, env, memory, reqs, past
  <2>2. CASE Stale
    BY <2>2 DEF TypeOK, Stale, env, memory, reqs, Files
  <2>3. CASE BeginLoad
    <3>1. buffer' \in [Kinds -> [Slots -> Contents]]
      BY <2>3 DEF TypeOK, BeginLoad, Contents, Loading
    <3> QED BY <2>3, <3>1 DEF TypeOK, BeginLoad, env, reqs, Files, past
  <2>4. CASE LoadOk
    <3>1. file[cur].gen \in Nat
      BY DEF TypeOK, Files
    <3>2. buffer' \in [Kinds -> [Slots -> Contents]]
      BY <2>4, <3>1 DEF TypeOK, LoadOk, Contents, Whole, Torn
    <3> QED BY <2>4, <3>2 DEF TypeOK, LoadOk, env, reqs, past
  <2>5. CASE LoadFail
    BY <2>5, ExitTypes DEF LoadFail
  <2>6. CASE Flip
    <3>1. Other(flag[cur]) \in Slots
      BY DEF TypeOK, Slots, Other
    <3>2. \A k \in Kinds : buffer[k][flag'[k]] \in Contents
      BY <2>6, <3>1 DEF TypeOK, Flip
    <3>3. met' \in [Workers -> SUBSET (Contents \X Contents)]
      BY <2>6, <3>2 DEF TypeOK, Flip, Meet, Kinds
    <3> QED BY <2>6, <3>1, <3>3 DEF TypeOK, Flip, env, reqs
  <2>7. CASE ClearOld
    <3>1. buffer' \in [Kinds -> [Slots -> Contents]]
      BY <2>7 DEF TypeOK, ClearOld, Contents, Empty
    <3> QED BY <2>7, <3>1, ReturnTypes DEF TypeOK, ClearOld, env, reqs
  <2>8. CASE WakeUp
    BY <2>8 DEF TypeOK, WakeUp, env, memory, reqs, past
  <2> QED BY <1>4, <2>1, <2>2, <2>3, <2>4, <2>5, <2>6, <2>7, <2>8 DEF Updater
<1>5. ASSUME NEW w \in Workers, Worker(w) PROVE TypeOK'
  <2>1. ASSUME NEW k \in Kinds, Point(w, k)
        PROVE  /\ ref' \in [Workers -> [Kinds -> Slots]]
               /\ view' \in [Workers -> [Kinds -> Contents]]
    BY <2>1 DEF TypeOK, Point, Active
  <2>2. "index" \in Kinds /\ "param" \in Kinds
    BY DEF Kinds
  <2>3. CASE TakeIndex(w)
    <3>1. \A k \in Kinds : Active(k) \in Contents
      BY DEF TypeOK, Active
    <3>2. met' \in [Workers -> SUBSET (Contents \X Contents)]
      BY <2>2, <2>3, <3>1 DEF TypeOK, TakeIndex
    <3> QED BY <2>1, <2>2, <2>3, <3>2 DEF TypeOK, TakeIndex, env, memory, frame
  <2>4. CASE TakeParam(w)
    BY <2>1, <2>2, <2>4 DEF TypeOK, TakeParam, env, memory, frame, past
  <2>5. CASE NoMergeExit(w)
    BY <2>5, ExitTypes DEF NoMergeExit
  <2>6. CASE Finish(w)
    <3>1. NoRef \in [Kinds -> Slots] /\ NoView \in [Kinds -> Contents]
      BY DEF NoRef, NoView, Slots, Contents, Empty
    <3> QED BY <2>6, <3>1 DEF TypeOK, Finish, env, memory, frame
  <2>7. CASE Overrun(w)
    BY <2>7, ExitTypes DEF Overrun
  <2> QED BY <1>5, <2>3, <2>4, <2>5, <2>6, <2>7 DEF Worker
<1>6. CASE Restart
  BY <1>6 DEF TypeOK, Restart, env, memory, frame, reqs, past
<1>7. CASE UNCHANGED vars
  BY <1>7 DEF TypeOK, vars, memory, frame, reqs, past
<1> QED BY <1>1, <1>2, <1>3, <1>4, <1>5, <1>6, <1>7 DEF Next

LEMMA TypesInit == Init => TypeOK
<1> USE SharedMemoryAssumption
<1> SUFFICES ASSUME Init PROVE TypeOK
  OBVIOUS
<1>1. file \in [Kinds -> Files]
  BY DEF Init, FirstFile, Files
<1>2. /\ buffer \in [Kinds -> [Slots -> Contents]]
      /\ view \in [Workers -> [Kinds -> Contents]]
      /\ ref \in [Workers -> [Kinds -> Slots]]
  BY DEF Init, FreshBuffer, NoRef, NoView, Slots, Contents, Empty
<1>3. age \in [Workers -> 0..Grace] /\ met \in [Workers -> SUBSET (Contents \X Contents)]
  BY DEF Init
<1> QED BY <1>1, <1>2, <1>3 DEF Init, TypeOK, Kinds, Slots

\* Every state of the service has the declared types.
THEOREM TypeCorrect == Spec => []TypeOK
  BY TypesInit, TypesStep, PTL DEF Spec

-----------------------------------------------------------------------------
(* TimelyViewStable.  It is not inductive: that ClearOld is harmless needs    *)
(* the connection between the age of a request and the main thread's timer.   *)

\* The seconds that the main thread will still sleep before it clears the
\* inactive buffer of kind k; outside of that sleep the buffer is fair game.
Left(k) == IF upc = "grace" /\ cur = k THEN timer ELSE 0

\* A request that still refers to an inactive buffer will be older than Grace
\* when that buffer is touched.
LeaseInv ==
  \A w \in Workers, k \in Kinds :
    Holds(w, k) /\ ref[w][k] # flag[k] => age[w] + Left(k) >= Grace

StableInv == TypeOK /\ LeaseInv /\ TimelyViewStable

\* After Exit no request holds anything.
LEMMA ExitHolds == Exit => \A w \in Workers, k \in Kinds : ~Holds(w, k)'
  BY DEF Exit, Holds

\* Return leaves the updater outside of the grace period.
LEMMA ReturnLeft == Return => \A k \in Kinds : Left(k)' = 0
  BY DEF Return, Left

LEMMA StableInit == Init => StableInv
  BY TypesInit DEF Init, StableInv, LeaseInv, TimelyViewStable, Holds

\* A step of the main thread keeps the leases.
LEMMA UpdaterKeepsLeases == StableInv /\ Updater => LeaseInv' /\ TimelyViewStable'
<1> USE SharedMemoryAssumption
<1> SUFFICES ASSUME StableInv, Updater PROVE LeaseInv' /\ TimelyViewStable'
  OBVIOUS
<1> USE DEF StableInv
<1>0. \A w \in Workers, k \in Kinds : Left(k) \in Nat /\ age[w] \in Nat
  BY DEF TypeOK, Left
<1>1. CASE Skip
  <2>1. \A k \in Kinds : Left(k) = 0 /\ Left(k)' = 0
    BY <1>1, ReturnLeft DEF Skip, Left
  <2> QED BY <1>1, <2>1 DEF Skip, LeaseInv, TimelyViewStable, Holds, Timely, memory, reqs
<1>2. CASE Stale
  <2>1. \A k \in Kinds : Left(k) = 0 /\ Left(k)' = 0
    BY <1>2 DEF Stale, Left
  <2> QED BY <1>2, <2>1 DEF Stale, LeaseInv, TimelyViewStable, Holds, Timely, memory, reqs
<1>3. CASE \E c \in Contents :
             /\ upc # "grace" /\ upc' # "grace"
             /\ buffer' = [buffer EXCEPT ![cur][Other(flag[cur])] = c]
             /\ UNCHANGED <<flag, cur, reqs>>
  <2>1. \A k \in Kinds : Left(k) = 0 /\ Left(k)' = 0
    BY <1>3 DEF Left
  <2>2. LeaseInv'
    BY <1>3, <2>1 DEF LeaseInv, Holds, reqs
  <2>3. ASSUME NEW w \in Workers, NEW k \in Kinds, Holds(w, k)', Timely(w)'
        PROVE  buffer'[k][ref'[w][k]] = view'[w][k]
    <3>1. Holds(w, k) /\ age[w] < Grace /\ ref' = ref /\ view' = view
      BY <1>3, <2>3 DEF Holds, Timely, reqs
    <3>2. ref[w][k] = flag[k]
      BY <3>1, <2>1, <1>0 DEF LeaseInv
    <3>3. buffer'[k][ref[w][k]] = buffer[k][ref[w][k]]
      BY <1>3, <3>2 DEF TypeOK, Other, Slots
    <3> QED BY <3>1, <3>3 DEF TimelyViewStable, Timely
  <2> QED BY <2>2, <2>3 DEF TimelyViewStable
<1>4. CASE BeginLoad
  <2>1. Loading \in Contents
    BY DEF Loading, Contents
  <2> QED BY <1>3, <1>4, <2>1 DEF BeginLoad
<1>5. CASE LoadOk
  <2>1. Torn(file[cur].gen) \in Contents /\ Whole(file[cur].gen) \in Contents
    BY DEF TypeOK, Files, Torn, Whole, Contents
  <2> QED BY <1>3, <1>5, <2>1 DEF LoadOk
<1>6. CASE LoadFail
  BY <1>6, ExitHolds DEF LoadFail, LeaseInv, TimelyViewStable
<1>7. CASE Flip
  <2>1. /\ Left(cur)' = Grace
        /\ \A k \in Kinds : k # cur => Left(k)' = 0 /\ flag'[k] = flag[k]
        /\ \A k \in Kinds : Left(k) = 0
    BY <1>7 DEF Flip, Left, TypeOK
  <2>2. LeaseInv'
    BY <1>0, <1>7, <2>1 DEF Flip, LeaseInv, Holds, reqs
  <2> QED BY <1>7, <2>2 DEF Flip, TimelyViewStable, Holds, Timely, reqs
<1>8. CASE ClearOld
  <2>1. \A k \in Kinds : Left(k) = 0 /\ Left(k)' = 0
    BY <1>8, ReturnLeft DEF ClearOld, Left
  <2>2. LeaseInv'
    BY <1>8, <2>1 DEF ClearOld, LeaseInv, Holds, reqs
  <2>3. ASSUME NEW w \in Workers, NEW k \in Kinds, Holds(w, k)', Timely(w)'
        PROVE  buffer'[k][ref'[w][k]] = view'[w][k]
    <3>1. Holds(w, k) /\ age[w] < Grace /\ ref' = ref /\ view' = view
      BY <1>8, <2>3 DEF ClearOld, Holds, Timely, reqs
    <3>2. ref[w][k] = flag[k]
      BY <3>1, <2>1, <1>0 DEF LeaseInv
    <3>3. buffer'[k][ref[w][k]] = buffer[k][ref[w][k]]
      BY <1>8, <3>2 DEF ClearOld, TypeOK, Other, Slots
    <3> QED BY <3>1, <3>3 DEF TimelyViewStable, Timely
  <2> QED BY <2>2, <2>3 DEF TimelyViewStable
<1>9. CASE WakeUp
  <2>1. \A k \in Kinds : Left(k) = 0 /\ Left(k)' = 0
    BY <1>9 DEF WakeUp, Left
  <2> QED BY <1>9, <2>1 DEF WakeUp, LeaseInv, TimelyViewStable, Holds, Timely, memory, reqs
<1> QED BY <1>1, <1>2, <1>4, <1>5, <1>6, <1>7, <1>8, <1>9 DEF Updater

\* A step of a request keeps the leases of all of them.
LEMMA WorkerKeepsLeases ==
  ASSUME StableInv, NEW w \in Workers, Worker(w)
  PROVE  LeaseInv' /\ TimelyViewStable'
<1> USE SharedMemoryAssumption DEF StableInv
<1>1. ASSUME NEW k \in Kinds, Point(w, k), UNCHANGED <<memory, frame, age>>,
             \A j \in Kinds : j # k => Holds(w, j)' = Holds(w, j),
             \A v \in Workers : v # w => wpc'[v] = wpc[v]
      PROVE  LeaseInv' /\ TimelyViewStable'
  <2>1. \A v \in Workers, j \in Kinds :
          /\ <<v, j>> # <<w, k>> => /\ Holds(v, j)' = Holds(v, j)
                                    /\ ref'[v][j] = ref[v][j]
                                    /\ view'[v][j] = view[v][j]
          /\ <<v, j>> = <<w, k>> => /\ ref'[v][j] = flag[j]
                                    /\ view'[v][j] = buffer[j][flag[j]]
    BY <1>1 DEF Point, Active, TypeOK, Holds
  <2>2. UNCHANGED <<flag, buffer, age>> /\ \A j \in Kinds : Left(j)' = Left(j)
    BY <1>1 DEF memory, frame, Left
  <2> QED BY <2>1, <2>2 DEF LeaseInv, TimelyViewStable, Timely
<1>2. CASE TakeIndex(w)
  <2>1. \A v \in Workers : v # w => wpc'[v] = wpc[v]
    BY <1>2 DEF TakeIndex, TypeOK
  <2>2. \A j \in Kinds : j # "index" => Holds(w, j)' = Holds(w, j)
    BY <1>2 DEF TakeIndex, TypeOK, Holds, Kinds
  <2> QED BY <1>1, <1>2, <2>1, <2>2 DEF TakeIndex, Kinds
<1>3. CASE TakeParam(w)
  <2>1. \A v \in Workers : v # w => wpc'[v] = wpc[v]
    BY <1>3 DEF TakeParam, TypeOK
  <2>2. \A j \in Kinds : j # "param" => Holds(w, j)' = Holds(w, j)
    BY <1>3 DEF TakeParam, TypeOK, Holds, Kinds
  <2> QED BY <1>1, <1>3, <2>1, <2>2 DEF TakeParam, Kinds
<1>4. CASE NoMergeExit(w) \/ Overrun(w)
  BY <1>4, ExitHolds DEF NoMergeExit, Overrun, LeaseInv, TimelyViewStable
<1>5. CASE Finish(w)
  <2>1. \A k \in Kinds : ~Holds(w, k)' /\ Left(k)' = Left(k)
    BY <1>5 DEF Finish, Holds, TypeOK, Left, frame
  <2>2. \A v \in Workers : v # w => /\ wpc'[v] = wpc[v] /\ ref'[v] = ref[v]
                                    /\ view'[v] = view[v] /\ age'[v] = age[v]
    BY <1>5 DEF Finish, TypeOK
  <2> QED BY <1>5, <2>1, <2>2 DEF Finish, LeaseInv, TimelyViewStable, Holds, Timely, memory
<1> QED BY <1>2, <1>3, <1>4, <1>5 DEF Worker

LEMMA StableStep == StableInv /\ [Next]_vars => StableInv'
<1> USE SharedMemoryAssumption
<1> SUFFICES ASSUME StableInv, [Next]_vars PROVE LeaseInv' /\ TimelyViewStable'
  BY TypesStep DEF StableInv
<1>1. ASSUME UNCHANGED <<memory, reqs, upc, cur, timer>>
      PROVE  LeaseInv' /\ TimelyViewStable'
  BY <1>1 DEF StableInv, LeaseInv, TimelyViewStable, Holds, Timely, Left, memory, reqs
<1>2. ASSUME NEW k \in Kinds, StartWrite(k) \/ FinishWrite(k)
      PROVE  LeaseInv' /\ TimelyViewStable'
  BY <1>1, <1>2 DEF StartWrite, FinishWrite, frame
<1>3. CASE Tick
  <2>1. \A w \in Workers, k \in Kinds :
          /\ Holds(w, k)' = Holds(w, k)
          /\ Holds(w, k) /\ age[w] + Left(k) >= Grace => age'[w] + Left(k)' >= Grace
    BY <1>3 DEF Tick, Holds, Left, StableInv, TypeOK
  <2>2. \A w \in Workers, k \in Kinds : Holds(w, k) /\ Timely(w)' => Timely(w)
    BY <1>3 DEF Tick, Holds, Timely, StableInv, TypeOK
  <2> QED BY <1>3, <2>1, <2>2 DEF Tick, StableInv, LeaseInv, TimelyViewStable, memory
<1>4. CASE Updater
  BY <1>4, UpdaterKeepsLeases
<1>5. ASSUME NEW w \in Workers, Worker(w) PROVE LeaseInv' /\ TimelyViewStable'
  BY <1>5, WorkerKeepsLeases
<1>6. CASE Restart
  BY <1>1, <1>6 DEF Restart, frame
<1>7. CASE UNCHANGED vars
  BY <1>1, <1>7 DEF vars, frame
<1> QED BY <1>2, <1>3, <1>4, <1>5, <1>6, <1>7 DEF Next

\* A request younger than the second sleep of Update reads, through the
\* references it took without a lock, what was there when it took them.
THEOREM RequestsReadStableData == Spec => []TimelyViewStable
<1>1. StableInv => TimelyViewStable
  BY DEF StableInv
<1> QED BY <1>1, StableInit, StableStep, PTL DEF Spec

-----------------------------------------------------------------------------
(* NoMissedUpdate.  The argument is about seconds: everything the builder     *)
(* writes from the moment the load begins has a later mtime than the one that *)
(* Update recorded before its first sleep.                                    *)

\* Modification times are not in the future; a file that exists has one.
FileInv == \A k \in Kinds : /\ file[k].mtime <= clock[k]
                            /\ file[k].gen > 0 => file[k].mtime > 0

\* What Update read lies before the second in which the load begins.
MreadInv ==
  /\ upc = "settle" => \/ mread < clock[cur]
                       \/ timer > 0 /\ mread = clock[cur] /\ file[cur].mtime = clock[cur]
  /\ upc \in {"load", "loaded"} => mread < clock[cur]

\* What is known of the slot being filled: a rewrite that the recorded mtime
\* would hide has not touched it.
FillInv ==
  (~file[cur].writing /\ file[cur].mtime <= mread) =>
     /\ upc = "load" => ~dirty
     /\ upc = "loaded" /\ file[cur].gen > 0
          => buffer[cur][Other(flag[cur])] = Whole(file[cur].gen)

\* A dead process has no memory; a recorded mtime is in the past.
TsInv == /\ proc = "dead" => ts = [k \in Kinds |-> 0] /\ upc = "stat"
         /\ \A k \in Kinds : ts[k] < clock[k]

UpdateInv == TypeOK /\ FileInv /\ MreadInv /\ FillInv /\ TsInv /\ NoMissedUpdate

LEMMA UpdateInit == Init => UpdateInv
<1> SUFFICES ASSUME Init PROVE UpdateInv
  OBVIOUS
<1>1. \A k \in Kinds : /\ file[k].mtime \in {0, 1}
                       /\ file[k].gen > 0 => file[k].mtime = 1
  BY DEF Init, FirstFile
<1> QED BY <1>1, TypesInit
        DEF Init, UpdateInv, FileInv, MreadInv, FillInv, TsInv, NoMissedUpdate

LEMMA ExitUpdate == UpdateInv /\ Exit => UpdateInv'
<1> SUFFICES ASSUME UpdateInv, Exit PROVE UpdateInv'
  OBVIOUS
<1>1. TypeOK'
  BY ExitTypes DEF UpdateInv
<1>2. FileInv' /\ MreadInv' /\ FillInv' /\ NoMissedUpdate'
  BY DEF UpdateInv, Exit, env, FileInv, MreadInv, FillInv, NoMissedUpdate
<1>3. TsInv'
  <2>1. \A k \in Kinds : 0 <= ts[k] /\ ts[k] < clock[k]
    BY DEF UpdateInv, TypeOK, TsInv
  <2> QED BY <2>1 DEF UpdateInv, TypeOK, Exit, env, TsInv
<1> QED BY <1>1, <1>2, <1>3 DEF UpdateInv

LEMMA UpdateStep == UpdateInv /\ [Next]_vars => UpdateInv'
<1> USE SharedMemoryAssumption
<1> SUFFICES ASSUME UpdateInv, [Next]_vars
             PROVE  FileInv' /\ MreadInv' /\ FillInv' /\ TsInv' /\ NoMissedUpdate'
  BY TypesStep DEF UpdateInv
<1> DEFINE Goal == FileInv' /\ MreadInv' /\ FillInv' /\ TsInv' /\ NoMissedUpdate'
<1> USE DEF UpdateInv
<1>0. /\ \A k \in Kinds : clock[k] \in Nat
      /\ mread \in Nat /\ timer \in Nat /\ cur \in Kinds
      /\ \A k \in Kinds : /\ ts[k] \in Nat /\ file[k].mtime \in Nat /\ file[k].gen \in Nat
                          /\ file[k].writing \in BOOLEAN /\ flag[k] \in Slots
  BY DEF TypeOK, Files
<1>1. ASSUME UNCHANGED <<env, proc, memory, frame>> PROVE Goal
  BY <1>1 DEF FileInv, MreadInv, FillInv, TsInv, NoMissedUpdate, Active, env, memory, frame
<1>2. ASSUME NEW k \in Kinds, StartWrite(k) PROVE Goal
  <2>1. /\ file'[k].mtime = clock[k] /\ file'[k].writing /\ file'[k].gen = file[k].gen + 1
        /\ \A j \in Kinds : j # k => file'[j] = file[j]
    BY <1>2 DEF StartWrite, TypeOK
  <2>2. /\ UNCHANGED <<clock, proc, ts, flag, buffer, upc, cur, timer, mread>>
        /\ cur # k => (~dirty => ~dirty')
    BY <1>2 DEF StartWrite, memory
  <2>3. \A j \in Kinds : file[j].gen > 0 => clock[j] > 0
    BY <1>0 DEF FileInv
  <2>4. FileInv'
    BY <1>0, <2>1, <2>2, <2>3 DEF FileInv, TsInv
  <2>5. MreadInv'
    BY <1>0, <2>1, <2>2 DEF MreadInv
  <2>6. FillInv'
    BY <1>0, <2>1, <2>2 DEF FillInv
  <2>7. TsInv' /\ NoMissedUpdate'
    BY <1>0, <2>1, <2>2 DEF TsInv, NoMissedUpdate, Active
  <2> QED BY <2>4, <2>5, <2>6, <2>7
<1>3. ASSUME NEW k \in Kinds, FinishWrite(k) PROVE Goal
  <2>1. /\ file'[k].mtime = clock[k] /\ ~file'[k].writing /\ file'[k].gen = file[k].gen
        /\ \A j \in Kinds : j # k => file'[j] = file[j]
    BY <1>3 DEF FinishWrite, TypeOK
  <2>2. UNCHANGED <<clock, proc, ts, flag, buffer, upc, cur, timer, mread, dirty>>
    BY <1>3 DEF FinishWrite, memory, frame
  <2>4. FileInv'
    BY <1>0, <2>1, <2>2 DEF FileInv, TsInv
  <2>5. MreadInv'
    BY <1>0, <2>1, <2>2 DEF MreadInv
  <2>6. FillInv'
    BY <1>0, <2>1, <2>2 DEF FillInv, MreadInv
  <2>7. TsInv' /\ NoMissedUpdate'
    BY <1>0, <2>1, <2>2 DEF TsInv, NoMissedUpdate, Active
  <2> QED BY <2>4, <2>5, <2>6, <2>7
<1>4. CASE Tick
  <2>1. \A k \in Kinds : /\ clock'[k] \in Nat /\ clock[k] <= clock'[k]
                         /\ file[k].mtime = clock[k] => clock'[k] = clock[k] + 1
    BY <1>0, <1>4 DEF Tick
  <2>2. UNCHANGED <<file, proc, ts, flag, buffer, upc, cur, mread, dirty>>
    BY <1>4 DEF Tick, memory
  <2>3. FileInv' /\ FillInv' /\ TsInv' /\ NoMissedUpdate'
    BY <1>0, <2>1, <2>2 DEF FileInv, FillInv, TsInv, NoMissedUpdate, Active
  <2>4. MreadInv'
    BY <1>0, <2>1, <2>2 DEF MreadInv
  <2> QED BY <2>3, <2>4
<1>5. CASE Skip
  <2>1. upc' \in {"stat", "sleep"} /\ proc' # "dead" /\ UNCHANGED <<clock, file, ts, flag, buffer>>
    BY <1>5 DEF Skip, Return, env, memory
  <2>2. proc # "dead"
    BY <1>5 DEF Skip
  <2> QED BY <2>1, <2>2 DEF FileInv, MreadInv, FillInv, TsInv, NoMissedUpdate, Active
<1>6. CASE Stale
  <2>1. /\ upc' = "settle" /\ timer' > 0 /\ cur' = cur /\ mread' = file[cur].mtime
        /\ proc # "dead" /\ UNCHANGED <<clock, file, proc, ts, flag, buffer>>
    BY <1>6 DEF Stale, env, memory
  <2>2. MreadInv'
    BY <1>0, <2>1 DEF MreadInv, FileInv
  <2> QED BY <2>1, <2>2 DEF FileInv, FillInv, TsInv, NoMissedUpdate, Active
<1>7. CASE BeginLoad
  <2>1. /\ upc = "settle" /\ timer = 0 /\ upc' = "load" /\ dirty' = file[cur].writing
        /\ UNCHANGED <<clock, file, proc, ts, flag, cur, mread>>
    BY <1>7 DEF BeginLoad, env
  <2>2. \A k \in Kinds : Active(k)' = Active(k)
    BY SlotTypes, <1>7 DEF BeginLoad, Active
  <2>3. proc # "dead"
    BY <2>1 DEF TsInv
  <2> QED BY <2>1, <2>2, <2>3, <1>0 DEF FileInv, MreadInv, FillInv, TsInv, NoMissedUpdate
<1>8. CASE LoadOk
  <2>1. /\ upc = "load" /\ upc' = "loaded"
        /\ UNCHANGED <<clock, file, proc, ts, flag, cur, mread>>
    BY <1>8 DEF LoadOk, env
  <2>2. /\ \A k \in Kinds : Active(k)' = Active(k)
        /\ ~dirty => buffer'[cur][Other(flag[cur])] = Whole(file[cur].gen)
    BY SlotTypes, <1>8 DEF LoadOk, Active
  <2>3. proc # "dead"
    BY <2>1 DEF TsInv
  <2>4. FillInv'
    BY <2>1, <2>2 DEF FillInv
  <2> QED BY <2>1, <2>2, <2>3, <2>4, <1>0 DEF FileInv, MreadInv, TsInv, NoMissedUpdate
<1>9. CASE LoadFail
  BY <1>9, ExitUpdate DEF LoadFail
<1>10. CASE Flip
  <2>1. /\ upc = "loaded" /\ upc' = "grace" /\ UNCHANGED <<clock, file, proc, buffer, cur, mread>>
        /\ ts'[cur] = mread /\ \A k \in Kinds : k # cur => ts'[k] = ts[k]
        /\ Active(cur)' = buffer[cur][Other(flag[cur])]
        /\ \A k \in Kinds : k # cur => Active(k)' = Active(k)
    BY <1>10 DEF Flip, env, Active, TypeOK
  <2>2. proc # "dead"
    BY <2>1 DEF TsInv
  <2>3. TsInv'
    BY <2>1, <2>2, <1>0 DEF TsInv, MreadInv
  <2>4. NoMissedUpdate'
    BY <2>1, <1>0 DEF NoMissedUpdate, FillInv
  <2> QED BY <2>1, <2>3, <2>4 DEF FileInv, MreadInv, FillInv
<1>11. CASE ClearOld
  <2>1. upc' \in {"stat", "sleep"} /\ proc' # "dead" /\ UNCHANGED <<clock, file, ts, flag>>
    <3>1. proc # "dead"
      BY <1>11 DEF ClearOld, TsInv
    <3> QED BY <1>11, <3>1 DEF ClearOld, Return, env
  <2>2. \A k \in Kinds : Active(k)' = Active(k)
    BY SlotTypes, <1>11 DEF ClearOld, Active
  <2>3. proc # "dead"
    BY <1>11 DEF ClearOld, TsInv
  <2> QED BY <2>1, <2>2, <2>3 DEF FileInv, MreadInv, FillInv, TsInv, NoMissedUpdate
<1>12. CASE WakeUp
  <2>1. upc = "sleep" /\ upc' = "stat" /\ UNCHANGED <<clock, file, proc, ts, flag, buffer>>
    BY <1>12 DEF WakeUp, env, memory
  <2> QED BY <2>1 DEF FileInv, MreadInv, FillInv, TsInv, NoMissedUpdate, Active
<1>13. ASSUME NEW w \in Workers, Worker(w) PROVE Goal
  <2>1. CASE TakeIndex(w) \/ TakeParam(w) \/ Finish(w)
    BY <1>1, <2>1 DEF TakeIndex, TakeParam, Finish
  <2>2. CASE NoMergeExit(w) \/ Overrun(w)
    BY <2>2, ExitUpdate DEF NoMergeExit, Overrun
  <2> QED BY <1>13, <2>1, <2>2 DEF Worker
<1>14. CASE Restart
  <2>1. /\ proc = "dead" /\ UNCHANGED <<clock, file, ts, flag, buffer, upc, cur, mread, dirty, timer>>
        /\ proc' = "booting"
    BY <1>14 DEF Restart, env, memory, frame
  <2>2. \A k \in Kinds : ts[k] = 0
    BY <2>1 DEF TsInv
  <2>3. NoMissedUpdate'
    BY <1>0, <2>1, <2>2 DEF NoMissedUpdate, FileInv
  <2> QED BY <2>1, <2>3 DEF FileInv, MreadInv, FillInv, TsInv
<1>15. CASE UNCHANGED vars
  BY <1>1, <1>15 DEF vars, env
<1> QED BY <1>2, <1>3, <1>4, <1>5, <1>6, <1>7, <1>8, <1>9, <1>10, <1>11, <1>12,
           <1>13, <1>14, <1>15 DEF Next, Updater

\* A file that the next poll would skip is the version that is being served.
THEOREM NoUpdateIsMissed == Spec => []NoMissedUpdate
<1>1. UpdateInv => NoMissedUpdate
  BY DEF UpdateInv
<1> QED BY <1>1, UpdateInit, UpdateStep, PTL DEF Spec

-----------------------------------------------------------------------------
(* NeverServesPartialLoad, for a service whose files existed when it started. *)

Usable(c) == c.state \in {"whole", "torn"}

\* A recorded mtime is the sign that the active buffer came out of a load;
\* the server is started, and Update returns, only with such a sign.
CompleteInv ==
  /\ \A k \in Kinds : file[k].mtime > 0
  /\ \A k \in Kinds : clock[k] > 0
  /\ proc = "dead" => upc = "stat" /\ cur = "index"
  /\ upc \in {"settle", "load", "loaded"} => mread > 0
  /\ upc = "loaded" => Usable(buffer[cur][Other(flag[cur])])
  /\ \A k \in Kinds : ts[k] > 0 => Usable(Active(k))
  /\ proc = "serving" => \A k \in Kinds : ts[k] > 0
  /\ proc = "booting" /\ cur = "param" => ts["index"] > 0
  /\ upc = "grace" => ts[cur] > 0

LEMMA CompleteInit ==
  ASSUME MissingAtStart = {} PROVE Init => CompleteInv
  BY DEF Init, CompleteInv, FirstFile

\* Return only starts the server when both files have been loaded.
LEMMA ReturnComplete ==
  ASSUME CompleteInv, TypeOK, Return, ts[cur] > 0, proc # "dead",
         UNCHANGED <<clock, file, ts>>, \A k \in Kinds : Active(k)' = Active(k)
  PROVE  CompleteInv'
<1>1. \A k \in Kinds : proc' = "serving" => ts[k] > 0
  BY DEF CompleteInv, Return, TypeOK, Kinds
<1> QED BY <1>1 DEF CompleteInv, Return, TypeOK, Usable

LEMMA ExitComplete ==
  ASSUME CompleteInv, Exit PROVE CompleteInv'
  BY DEF CompleteInv, Exit, env

LEMMA CompleteStep == TypeOK /\ CompleteInv /\ [Next]_vars => CompleteInv'
<1> SUFFICES ASSUME TypeOK, CompleteInv, [Next]_vars PROVE CompleteInv'
  OBVIOUS
<1>0. /\ \A k \in Kinds : clock[k] \in Nat
      /\ mread \in Nat /\ cur \in Kinds
      /\ \A k \in Kinds : ts[k] \in Nat /\ file[k].mtime \in Nat /\ flag[k] \in Slots
  BY DEF TypeOK, Files
<1>1. ASSUME UNCHANGED <<proc, memory, upc, cur, mread>>,
             \A k \in Kinds : clock'[k] > 0 /\ file'[k].mtime > 0
      PROVE  CompleteInv'
  BY <1>1 DEF CompleteInv, Active, memory
<1>2. ASSUME NEW k \in Kinds, StartWrite(k) \/ FinishWrite(k) PROVE CompleteInv'
  <2>1. file'[k].mtime = clock[k] /\ \A j \in Kinds : j # k => file'[j] = file[j]
    <3>1. CASE StartWrite(k)
      BY <3>1 DEF StartWrite, TypeOK
    <3>2. CASE FinishWrite(k)
      BY <3>2 DEF FinishWrite, TypeOK
    <3> QED BY <1>2, <3>1, <3>2
  <2>2. UNCHANGED <<clock, proc, memory, upc, cur, mread>>
    BY <1>2 DEF StartWrite, FinishWrite, frame
  <2> QED BY <1>1, <2>1, <2>2 DEF CompleteInv
<1>3. CASE Tick
  <2>1. (\A k \in Kinds : clock'[k] > 0) /\ file' = file
    BY <1>0, <1>3 DEF Tick, CompleteInv
  <2>2. UNCHANGED <<proc, memory, upc, cur, mread>>
    BY <1>3 DEF Tick
  <2> QED BY <1>1, <2>1, <2>2 DEF CompleteInv
<1>4. CASE Updater
  <2>1. CASE Skip
    <3>1. ts[cur] > 0
      BY <1>0, <2>1 DEF Skip, CompleteInv
    <3> QED BY <2>1, <3>1, ReturnComplete DEF Skip, env, memory, Active
  <2>2. CASE Stale
    BY <1>0, <2>2 DEF Stale, env, memory, CompleteInv, Active
  <2>3. CASE BeginLoad
    <3>1. \A k \in Kinds : Active(k)' = Active(k)
      BY SlotTypes, <2>3 DEF BeginLoad, Active
    <3> QED BY <2>3, <3>1 DEF BeginLoad, env, CompleteInv
  <2>4. CASE LoadOk
    <3>1. \A k \in Kinds : Active(k)' = Active(k)
      BY SlotTypes, <2>4 DEF LoadOk, Active
    <3>2. Usable(buffer'[cur][Other(flag[cur])])
      <4>1. buffer'[cur][Other(flag[cur])] \in {Torn(file[cur].gen), Whole(file[cur].gen)}
        BY SlotTypes, <2>4 DEF LoadOk
      <4> QED BY <4>1 DEF Usable, Whole, Torn
    <3> QED BY <2>4, <3>1, <3>2 DEF LoadOk, env, CompleteInv
  <2>5. CASE LoadFail
    BY <2>5, ExitComplete DEF LoadFail
  <2>6. CASE Flip
    <3>1. /\ ts'[cur] = mread /\ Active(cur)' = buffer[cur][Other(flag[cur])]
          /\ \A k \in Kinds : k # cur => ts'[k] = ts[k] /\ Active(k)' = Active(k)
      BY <2>6 DEF Flip, Active, TypeOK
    <3>2. /\ proc # "dead" /\ upc' = "grace" /\ UNCHANGED <<clock, file, proc, cur>>
          /\ upc = "loaded"
      BY <2>6 DEF Flip, env, CompleteInv
    <3>3. \A k \in Kinds : /\ ts[k] > 0 => ts'[k] > 0
                           /\ ts'[k] > 0 => Usable(Active(k)')
      BY <3>1, <3>2 DEF CompleteInv
    <3> QED BY <3>1, <3>2, <3>3 DEF CompleteInv, Kinds
  <2>7. CASE ClearOld
    <3>1. \A k \in Kinds : Active(k)' = Active(k)
      BY SlotTypes, <2>7 DEF ClearOld, Active
    <3>2. ts[cur] > 0 /\ proc # "dead"
      BY <2>7 DEF ClearOld, CompleteInv
    <3> QED BY <2>7, <3>1, <3>2, ReturnComplete DEF ClearOld, env
  <2>8. CASE WakeUp
    BY <2>8 DEF WakeUp, env, memory, CompleteInv, Active
  <2> QED BY <1>4, <2>1, <2>2, <2>3, <2>4, <2>5, <2>6, <2>7, <2>8 DEF Updater
<1>5. ASSUME NEW w \in Workers, Worker(w) PROVE CompleteInv'
  <2>1. CASE TakeIndex(w) \/ TakeParam(w) \/ Finish(w)
    BY <1>1, <2>1 DEF TakeIndex, TakeParam, Finish, CompleteInv, env, frame
  <2>2. CASE NoMergeExit(w) \/ Overrun(w)
    BY <2>2, ExitComplete DEF NoMergeExit, Overrun
  <2> QED BY <1>5, <2>1, <2>2 DEF Worker
<1>6. CASE Restart
  BY <1>6 DEF Restart, CompleteInv, Active, env, memory, frame
<1>7. CASE UNCHANGED vars
  BY <1>1, <1>7 DEF vars, frame, CompleteInv
<1> QED BY <1>2, <1>3, <1>4, <1>5, <1>6, <1>7 DEF Next

\* A service that found its files at the start never answers from a buffer that
\* is empty or being filled: the exit in Process on a NULL merge bitmap cannot
\* be reached through it.
THEOREM OnlyCompleteLoadsServed ==
  ASSUME MissingAtStart = {} PROVE Spec => []NeverServesPartialLoad
<1>1. CompleteInv => NeverServesPartialLoad
  BY DEF CompleteInv, NeverServesPartialLoad, Usable
<1> QED BY <1>1, TypeCorrect, CompleteInit, CompleteStep, PTL DEF Spec

-----------------------------------------------------------------------------
(* The refinement.  Versions grow because the builder only writes newer ones;  *)
(* leases hold because of StableInv; an idle request has no age yet.          *)

GenInv ==
  /\ \A k \in Kinds, s \in Slots : buffer[k][s].gen <= file[k].gen
  /\ upc = "loaded" => /\ buffer[cur][Other(flag[cur])].gen >= Active(cur).gen
                       /\ Usable(buffer[cur][Other(flag[cur])])
  /\ proc = "dead" => upc = "stat" /\ \A k \in Kinds : Active(k) = Empty
  /\ \A w \in Workers : wpc[w] = "idle" => age[w] = 0

RefineInv == StableInv /\ GenInv

LEMMA RefineInit == Init => RefineInv
<1>1. Init => GenInv
  BY SharedMemoryAssumption, SMTT(30)
  DEF Init, GenInv, FreshBuffer, Empty, Active, Slots, Kinds, FirstFile
<1> QED BY <1>1, StableInit DEF RefineInv

LEMMA ExitGen == TypeOK /\ Exit => GenInv'
<1> SUFFICES ASSUME TypeOK, Exit PROVE GenInv'
  OBVIOUS
<1>1. /\ \A k \in Kinds, s \in Slots : buffer'[k][s] = Empty
      /\ \A k \in Kinds : flag'[k] \in Slots
  BY DEF Exit, FreshBuffer, Slots
<1>2. \A k \in Kinds : file'[k].gen \in Nat
  BY DEF Exit, env, TypeOK, Files
<1>3. Empty.gen = 0
  BY DEF Empty
<1>4. \A k \in Kinds, s \in Slots : buffer'[k][s].gen <= file'[k].gen
  <2> TAKE k \in Kinds, s \in Slots
  <2>1. buffer'[k][s].gen = 0
    BY <1>1, <1>3
  <2> QED BY <2>1, <1>2
<1>5. \A k \in Kinds : Active(k)' = Empty
  BY <1>1 DEF Active
<1> QED BY <1>4, <1>5 DEF Exit, GenInv

LEMMA GenStep == RefineInv /\ [Next]_vars => GenInv'
<1> USE SharedMemoryAssumption
<1> SUFFICES ASSUME RefineInv, [Next]_vars PROVE GenInv'
  OBVIOUS
<1> USE DEF RefineInv, StableInv
<1>0. /\ cur \in Kinds
      /\ \A k \in Kinds : flag[k] \in Slots /\ Other(flag[k]) \in Slots /\ file[k].gen \in Nat
      /\ \A k \in Kinds, s \in Slots : buffer[k][s].gen \in Nat
  BY DEF TypeOK, Files, Contents, Slots, Other
<1>1. ASSUME UNCHANGED <<proc, memory, upc, cur>>,
             \A k \in Kinds : file'[k].gen \in Nat /\ file'[k].gen >= file[k].gen,
             \A w \in Workers : wpc'[w] = "idle" => age'[w] = 0
      PROVE  GenInv'
  BY <1>0, <1>1 DEF GenInv, Active, memory
<1>2. ASSUME NEW k \in Kinds, StartWrite(k) PROVE GenInv'
  <2>1. \A j \in Kinds : file'[j].gen \in Nat /\ file'[j].gen >= file[j].gen
    BY <1>0, <1>2 DEF StartWrite, TypeOK
  <2> QED BY <1>1, <1>2, <2>1 DEF StartWrite, reqs, GenInv
<1>3. ASSUME NEW k \in Kinds, FinishWrite(k) PROVE GenInv'
  <2>1. \A j \in Kinds : file'[j].gen \in Nat /\ file'[j].gen >= file[j].gen
    BY <1>0, <1>3 DEF FinishWrite, TypeOK
  <2> QED BY <1>1, <1>3, <2>1 DEF FinishWrite, frame, reqs, GenInv
<1>4. CASE Tick
  <2>1. \A w \in Workers : wpc'[w] = "idle" => age'[w] = 0
    BY <1>4 DEF Tick, GenInv
  <2>2. UNCHANGED <<file, proc, memory, upc, cur>>
    BY <1>4 DEF Tick
  <2> QED BY <1>0, <1>1, <2>1, <2>2
<1>5. CASE Updater
  <2>1. ASSUME UNCHANGED <<file, flag, reqs>>, upc' # "loaded", proc' # "dead",
               NEW c \in Contents, c.gen = 0,
               \/ UNCHANGED buffer
               \/ buffer' = [buffer EXCEPT ![cur][Other(flag[cur])] = c]
        PROVE  GenInv'
    <3>1. \A k \in Kinds, s \in Slots : buffer'[k][s] = buffer[k][s] \/ buffer'[k][s] = c
      <4>1. buffer \in [Kinds -> [Slots -> Contents]]
        BY DEF TypeOK
      <4>2. CASE UNCHANGED buffer
        BY <4>2
      <4>3. CASE buffer' = [buffer EXCEPT ![cur][Other(flag[cur])] = c]
        BY <4>1, <4>3, <1>0
      <4> QED BY <4>2, <4>3, <2>1
    <3>2. \A k \in Kinds, s \in Slots : buffer'[k][s].gen <= file[k].gen
      BY <1>0, <2>1, <3>1 DEF GenInv
    <3> QED BY <2>1, <3>2 DEF GenInv, reqs
  <2>2. Empty \in Contents /\ Loading \in Contents /\ Empty.gen = 0 /\ Loading.gen = 0
    BY DEF Empty, Loading, Contents
  <2>3. CASE Skip
    <3>1. upc' # "loaded" /\ proc' # "dead" /\ UNCHANGED <<file, flag, reqs, buffer>>
      BY <2>3 DEF Skip, Return, env, memory
    <3> QED BY <2>1, <2>2, <3>1
  <2>4. CASE Stale
    BY <2>1, <2>2, <2>4 DEF Stale, env, memory
  <2>5. CASE BeginLoad
    <3>1. proc # "dead"
      BY <2>5 DEF BeginLoad, GenInv
    <3> QED BY <2>1, <2>2, <2>5, <3>1 DEF BeginLoad, env
  <2>6. CASE LoadOk
    <3> DEFINE c == buffer'[cur][Other(flag[cur])]
    <3>1. c \in {Torn(file[cur].gen), Whole(file[cur].gen)}
      BY <1>0, <2>6 DEF LoadOk, TypeOK
    <3>2. c.gen = file[cur].gen /\ Usable(c)
      BY <3>1 DEF Torn, Whole, Usable
    <3>3. \A k \in Kinds, s \in Slots :
            k # cur \/ s # Other(flag[cur]) => buffer'[k][s] = buffer[k][s]
      BY <1>0, <2>6 DEF LoadOk, TypeOK
    <3>4. Active(cur)' = Active(cur)
      BY <1>0, <2>6, <3>3 DEF LoadOk, Active, Slots, Other
    <3>5. \A k \in Kinds, s \in Slots : buffer'[k][s].gen <= file[k].gen
      BY <1>0, <3>2, <3>3 DEF GenInv
    <3>6. proc' # "dead" /\ UNCHANGED <<file, flag, cur, reqs>>
      BY <2>6 DEF LoadOk, GenInv, env
    <3>7. c.gen >= Active(cur).gen
      BY <1>0, <3>2 DEF GenInv, Active
    <3> QED BY <3>2, <3>4, <3>5, <3>6, <3>7 DEF GenInv, reqs
  <2>7. CASE LoadFail
    BY <2>7, ExitGen DEF LoadFail
  <2>8. CASE Flip
    <3>1. proc' # "dead" /\ upc' = "grace" /\ UNCHANGED <<file, buffer, reqs>>
      BY <2>8 DEF Flip, GenInv, env
    <3> QED BY <3>1 DEF GenInv, reqs
  <2>9. CASE ClearOld
    <3>1. upc' # "loaded" /\ proc' # "dead" /\ UNCHANGED <<file, flag, reqs>>
      BY <2>9 DEF ClearOld, Return, env, GenInv
    <3> QED BY <2>1, <2>2, <2>9, <3>1 DEF ClearOld
  <2>10. CASE WakeUp
    <3>1. upc' # "loaded" /\ proc' # "dead" /\ UNCHANGED <<file, flag, reqs, buffer>>
      BY <2>10 DEF WakeUp, env, memory, GenInv
    <3> QED BY <2>1, <2>2, <3>1
  <2> QED BY <1>5, <2>3, <2>4, <2>5, <2>6, <2>7, <2>8, <2>9, <2>10 DEF Updater
<1>6. ASSUME NEW w \in Workers, Worker(w) PROVE GenInv'
  <2>1. CASE TakeIndex(w) \/ TakeParam(w) \/ Finish(w)
    <3>1. UNCHANGED <<file, proc, memory, upc, cur>>
      BY <2>1 DEF TakeIndex, TakeParam, Finish, env, frame
    <3>2. \A v \in Workers : wpc'[v] = "idle" => age'[v] = 0
      BY <2>1 DEF TakeIndex, TakeParam, Finish, TypeOK, GenInv
    <3> QED BY <1>0, <1>1, <3>1, <3>2
  <2>2. CASE NoMergeExit(w) \/ Overrun(w)
    BY <2>2, ExitGen DEF NoMergeExit, Overrun
  <2> QED BY <1>6, <2>1, <2>2 DEF Worker
<1>7. CASE Restart
  BY <1>7 DEF Restart, GenInv, Active, env, memory, frame, reqs
<1>8. CASE UNCHANGED vars
  BY <1>0, <1>1, <1>8 DEF vars, frame, reqs, GenInv
<1> QED BY <1>2, <1>3, <1>4, <1>5, <1>6, <1>7, <1>8 DEF Next

\* The state of the abstract store.
Cur  == [k \in Kinds |-> Active(k)]
Held == [w \in Workers |-> [k \in Kinds |-> Lease(w, k)]]

LEMMA StoreInit == Init => Store!Init
<1> SUFFICES ASSUME Init PROVE Store!Init
  OBVIOUS
<1>1. \A k \in Kinds : Active(k) = Store!Blank
  BY DEF Init, Active, FreshBuffer, Slots, Empty, Store!Blank
<1>2. \A w \in Workers, k \in Kinds : Lease(w, k) = Store!Nothing
  BY DEF Init, Lease, Holds, Store!Nothing
<1> QED BY <1>1, <1>2 DEF Store!Init

\* Exit empties the store.
LEMMA StoreCrash == RefineInv /\ Exit => Store!Crash
<1> SUFFICES ASSUME Exit PROVE Store!Crash
  OBVIOUS
<1>1. \A k \in Kinds : Active(k)' = Store!Blank
  BY DEF Exit, Active, FreshBuffer, Slots, Empty, Store!Blank
<1>2. \A w \in Workers, k \in Kinds : Lease(w, k)' = Store!Nothing
  BY DEF Exit, Lease, Holds, Store!Nothing
<1> QED BY <1>1, <1>2 DEF Store!Crash

\* A step that moves no request and no clock leaves the leases alone.
LEMMA LeasesKept ==
  ASSUME StableInv, StableInv', UNCHANGED reqs
  PROVE  Held' = Held
<1>1. ASSUME NEW w \in Workers, NEW k \in Kinds PROVE Lease(w, k)' = Lease(w, k)
  <2>1. CASE Timely(w) /\ Holds(w, k)
    <3>1. buffer[k][ref[w][k]] = view[w][k] /\ buffer'[k][ref'[w][k]] = view'[w][k]
      BY <2>1 DEF StableInv, TimelyViewStable, Timely, Holds, reqs
    <3> QED BY <2>1, <3>1 DEF Lease, Timely, Holds, reqs
  <2>2. CASE ~(Timely(w) /\ Holds(w, k))
    BY <2>2 DEF Lease, Timely, Holds, reqs
  <2> QED BY <2>1, <2>2
<1> QED BY <1>1 DEF Held

\* What new requests are given changes with Flip only, while the process lives.
LEMMA ActiveChange ==
  TypeOK /\ [Next]_vars /\ proc' # "dead" /\ ~Flip => \A k \in Kinds : Active(k)' = Active(k)
<1> SUFFICES ASSUME TypeOK, [Next]_vars, proc' # "dead", ~Flip, NEW k \in Kinds
             PROVE  Active(k)' = Active(k)
  OBVIOUS
<1>0. /\ cur \in Kinds
      /\ \A j \in Kinds : flag[j] \in Slots /\ Other(flag[j]) \in Slots
                          /\ Other(flag[j]) # flag[j]
  BY DEF TypeOK, Slots, Other
<1>1. ASSUME UNCHANGED flag, NEW c, buffer' = [buffer EXCEPT ![cur][Other(flag[cur])] = c]
      PROVE  Active(k)' = Active(k)
  BY <1>0, <1>1 DEF Active, TypeOK
<1>2. CASE BeginLoad
  BY <1>1, <1>2 DEF BeginLoad
<1>3. CASE LoadOk
  BY <1>1, <1>3 DEF LoadOk
<1>4. CASE ClearOld
  BY <1>1, <1>4 DEF ClearOld
<1>5. CASE UNCHANGED memory
  BY <1>5 DEF memory, Active
<1>6. ASSUME NEW w \in Workers, Worker(w) PROVE UNCHANGED memory
  BY <1>6 DEF Worker, TakeIndex, TakeParam, NoMergeExit, Finish, Overrun, Exit
<1>7. CASE UNCHANGED vars
  BY <1>5, <1>7 DEF vars
<1>8. CASE Tick \/ Skip \/ Stale \/ WakeUp \/ Restart \/ LoadFail
  BY <1>5, <1>8 DEF Tick, Skip, Stale, WakeUp, Restart, LoadFail, Exit
<1>9. ASSUME NEW j \in Kinds, StartWrite(j) \/ FinishWrite(j) PROVE UNCHANGED memory
  BY <1>9 DEF StartWrite, FinishWrite
<1> QED BY <1>2, <1>3, <1>4, <1>5, <1>6, <1>7, <1>8, <1>9 DEF Next, Updater

LEMMA StoreStep == RefineInv /\ RefineInv' /\ [Next]_vars => [Store!Next]_(Store!vars)
<1> USE SharedMemoryAssumption
<1> SUFFICES ASSUME RefineInv, RefineInv', [Next]_vars
             PROVE  Store!Next \/ (Cur' = Cur /\ Held' = Held)
  BY DEF Store!vars, Cur, Held
<1> USE DEF RefineInv
<1>0. /\ cur \in Kinds
      /\ \A k \in Kinds : flag[k] \in Slots /\ Other(flag[k]) \in Slots
                          /\ Other(flag[k]) # flag[k]
  BY DEF StableInv, TypeOK, Slots, Other
<1>1. ASSUME UNCHANGED <<reqs, flag, buffer>> PROVE Cur' = Cur /\ Held' = Held
  BY <1>1, LeasesKept DEF Cur, Active
<1>2. ASSUME NEW k \in Kinds, StartWrite(k) \/ FinishWrite(k) PROVE Cur' = Cur /\ Held' = Held
  BY <1>1, <1>2 DEF StartWrite, FinishWrite, memory
<1>3. CASE Tick
  <2> DEFINE R == {w \in Workers : wpc[w] # "idle" /\ ~Timely(w)'}
  <2>1. \A w \in Workers : age[w] < Grace => age'[w] \in {age[w], age[w] + 1}
    BY <1>3 DEF Tick, StableInv, TypeOK
  <2>2. ASSUME NEW w \in Workers, NEW k \in Kinds
        PROVE  Lease(w, k)' = IF w \in R THEN Store!Lapsed ELSE Lease(w, k)
    <3>1. CASE w \in R
      BY <1>3, <3>1 DEF Tick, Lease, Store!Lapsed
    <3>2. CASE w \notin R
      <4>1. Timely(w)' => Timely(w)
        BY <1>3 DEF Tick, Timely, StableInv, TypeOK
      <4> QED BY <1>3, <3>2, <4>1 DEF Tick, Lease, Holds, memory
    <3> QED BY <3>1, <3>2
  <2>3. Cur' = Cur
    BY <1>3 DEF Tick, memory, Cur, Active
  <2>4. Store!Lapse(R)
    BY <2>2, <2>3 DEF Store!Lapse, Cur
  <2>5. R \in SUBSET Workers
    OBVIOUS
  <2> QED BY <2>4, <2>5 DEF Store!Next
<1>4. CASE Updater
  <2>1. CASE Skip \/ Stale \/ WakeUp
    BY <1>1, <2>1 DEF Skip, Stale, WakeUp, memory
  <2>2. CASE BeginLoad \/ LoadOk \/ ClearOld
    <3>2. UNCHANGED reqs /\ ~Flip
      BY <2>2 DEF BeginLoad, LoadOk, ClearOld, Flip
    <3>3. proc' # "dead"
      BY <2>2 DEF BeginLoad, LoadOk, ClearOld, Return, RefineInv, GenInv
    <3> QED BY <3>2, <3>3, LeasesKept, ActiveChange DEF Cur, StableInv
  <2>3. CASE LoadFail
    BY <2>3, StoreCrash DEF LoadFail, Store!Next
  <2>4. CASE Flip
    <3> DEFINE c == buffer[cur][Other(flag[cur])]
    <3>1. Held' = Held
      BY <2>4, LeasesKept DEF Flip
    <3>2. \A k \in Kinds : Active(k)' = IF k = cur THEN c ELSE Active(k)
      BY <1>0, <2>4 DEF Flip, Active, StableInv, TypeOK
    <3>3. Usable(c) /\ c.gen >= Active(cur).gen /\ c \in Contents
      BY <1>0, <2>4 DEF Flip, GenInv, StableInv, TypeOK
    <3>4. Cur' = [Cur EXCEPT ![cur] = Cur'[cur]]
      BY <1>0, <3>2 DEF Cur
    <3>5. Cur'[cur] = c /\ Cur[cur] = Active(cur)
      BY <1>0, <3>2 DEF Cur
    <3>6. c \in Store!Snapshots /\ c.state \in {"whole", "torn"}
      BY <3>3 DEF Usable, Contents, Store!Snapshots
    <3>7. Store!Install(cur)
      BY <3>1, <3>3, <3>4, <3>5, <3>6 DEF Store!Install, Cur, Held
    <3> QED BY <1>0, <3>7 DEF Store!Next
  <2> QED BY <1>4, <2>1, <2>2, <2>3, <2>4 DEF Updater
<1>5. ASSUME NEW w \in Workers, Worker(w) PROVE Store!Next \/ (Cur' = Cur /\ Held' = Held)
  <2>1. ASSUME NEW k \in Kinds, Point(w, k), UNCHANGED <<memory, age>>, ~Holds(w, k), Holds(w, k)',
               wpc'[w] # "idle", wpc[w] = "idle" => Timely(w),
               \A j \in Kinds : j # k => Holds(w, j)' = Holds(w, j),
               \A v \in Workers : v # w => wpc'[v] = wpc[v]
        PROVE  Store!Next \/ (Cur' = Cur /\ Held' = Held)
    <3>1. Cur' = Cur
      BY <2>1 DEF memory, Cur, Active
    <3>2. \A v \in Workers, j \in Kinds :
            <<v, j>> # <<w, k>> => /\ Holds(v, j)' = Holds(v, j)
                                   /\ ref'[v][j] = ref[v][j]
      BY <2>1 DEF Point, StableInv, TypeOK, Holds
    <3>3. UNCHANGED <<flag, buffer, age>> /\ ref'[w][k] = flag[k]
      BY <2>1 DEF memory, Point, StableInv, TypeOK
    <3>4. CASE Timely(w)
      <4>1. \A v \in Workers, j \in Kinds : <<v, j>> # <<w, k>> => Lease(v, j)' = Lease(v, j)
        BY <2>1, <3>2, <3>3, <3>4 DEF Lease, Timely
      <4>2. Lease(w, k) = Store!Nothing /\ Lease(w, k)' = Active(k)
        BY <2>1, <3>3, <3>4 DEF Lease, Timely, Store!Nothing, Active
      <4>3. Held' = [Held EXCEPT ![w][k] = Cur[k]]
        BY <4>1, <4>2 DEF Held, Cur
      <4>4. Held[w][k] = Store!Nothing
        BY <4>2 DEF Held
      <4>5. Store!Take(w, k)
        BY <3>1, <4>3, <4>4 DEF Store!Take, Cur, Held
      <4> QED BY <4>5 DEF Store!Next
    <3>5. CASE ~Timely(w)
      <4>1. \A v \in Workers, j \in Kinds : Lease(v, j)' = Lease(v, j)
        BY <2>1, <3>2, <3>3, <3>5 DEF Lease, Timely
      <4> QED BY <3>1, <4>1 DEF Held
    <3> QED BY <3>4, <3>5
  <2>2. "index" \in Kinds /\ "param" \in Kinds
    BY DEF Kinds
  <2>3. CASE TakeIndex(w)
    <3>1. /\ ~Holds(w, "index") /\ Holds(w, "index")' /\ wpc'[w] # "idle"
          /\ \A j \in Kinds : j # "index" => Holds(w, j)' = Holds(w, j)
          /\ \A v \in Workers : v # w => wpc'[v] = wpc[v]
      BY <2>3 DEF TakeIndex, StableInv, TypeOK, Holds, Kinds
    <3>2. Timely(w) /\ Point(w, "index") /\ UNCHANGED <<memory, age>>
      BY <2>3 DEF TakeIndex, GenInv, Timely
    <3> QED BY <2>1, <2>2, <3>1, <3>2
  <2>4. CASE TakeParam(w)
    <3>1. /\ ~Holds(w, "param") /\ Holds(w, "param")' /\ wpc'[w] # "idle" /\ wpc[w] # "idle"
          /\ \A j \in Kinds : j # "param" => Holds(w, j)' = Holds(w, j)
          /\ \A v \in Workers : v # w => wpc'[v] = wpc[v]
      BY <2>4 DEF TakeParam, StableInv, TypeOK, Holds, Kinds
    <3>2. Point(w, "param") /\ UNCHANGED <<memory, age>>
      BY <2>4 DEF TakeParam
    <3> QED BY <2>1, <2>2, <3>1, <3>2
  <2>5. CASE NoMergeExit(w) \/ Overrun(w)
    BY <2>5, StoreCrash DEF NoMergeExit, Overrun, Store!Next
  <2>6. CASE Finish(w)
    <3>1. Cur' = Cur
      BY <2>6 DEF Finish, memory, Cur, Active
    <3>2. \A k \in Kinds : Lease(w, k)' = Store!Nothing
      BY <2>6 DEF Finish, Lease, Holds, StableInv, TypeOK, Store!Nothing
    <3>3. \A v \in Workers, k \in Kinds : v # w => Lease(v, k)' = Lease(v, k)
      BY <2>6 DEF Finish, Lease, Holds, Timely, memory, StableInv, TypeOK
    <3>4. Held' = [Held EXCEPT ![w] = [k \in Kinds |-> Store!Nothing]]
      BY <3>2, <3>3 DEF Held
    <3>5. Store!Release(w)
      BY <3>1, <3>4 DEF Store!Release, Cur, Held
    <3> QED BY <3>5 DEF Store!Next
  <2> QED BY <1>5, <2>3, <2>4, <2>5, <2>6 DEF Worker
<1>6. CASE Restart
  BY <1>1, <1>6 DEF Restart, memory
<1>7. CASE UNCHANGED vars
  BY <1>1, <1>7 DEF vars, memory
<1> QED BY <1>2, <1>3, <1>4, <1>5, <1>6, <1>7 DEF Next

\* RefineInv is an invariant.
LEMMA RefineCorrect == Spec => []RefineInv
<1>1. RefineInv /\ [Next]_vars => RefineInv'
  BY StableStep, GenStep DEF RefineInv
<1> QED BY <1>1, RefineInit, PTL DEF Spec

\* The two buffers, two unlocked flags and two sleeps implement a store of
\* immutable snapshots whose versions only grow.
THEOREM ImplementsStore == Spec => StoreSpec
<1>1. Spec => Store!Init
  BY StoreInit DEF Spec
<1> QED BY <1>1, RefineCorrect, StoreStep, PTL DEF Spec, StoreSpec, Store!Spec

-----------------------------------------------------------------------------
(* UpdatedOrExited.  What Update found newer is carried on to the slot that is *)
(* flipped to.  A load in progress sees it in the file, which only grows.      *)

FoundInv == /\ upc \in {"settle", "load"} => found <= file[cur].gen
            /\ upc = "loaded" => buffer[cur][Other(flag[cur])].gen >= found
            /\ upc = "grace" => Usable(Active(cur)) /\ Active(cur).gen >= found

LEMMA FoundStep == RefineInv /\ FoundInv /\ [Next]_vars => FoundInv'
<1> SUFFICES ASSUME RefineInv, FoundInv, [Next]_vars PROVE FoundInv'
  OBVIOUS
<1>0. /\ cur \in Kinds /\ found \in Nat
      /\ \A k \in Kinds : /\ flag[k] \in Slots /\ Other(flag[k]) \in Slots
                          /\ Other(flag[k]) # flag[k] /\ file[k].gen \in Nat
  BY DEF RefineInv, StableInv, TypeOK, Files, Slots, Other
<1>1. ASSUME UNCHANGED <<memory, upc, cur, found>>,
             \A k \in Kinds : file'[k].gen \in Nat /\ file'[k].gen >= file[k].gen
      PROVE  FoundInv'
  BY <1>0, <1>1 DEF FoundInv, Active, memory
<1>2. ASSUME NEW k \in Kinds, StartWrite(k) PROVE FoundInv'
  <2>1. \A j \in Kinds : file'[j].gen \in Nat /\ file'[j].gen >= file[j].gen
    BY <1>0, <1>2 DEF StartWrite, RefineInv, StableInv, TypeOK
  <2> QED BY <1>1, <1>2, <2>1 DEF StartWrite, past
<1>3. ASSUME NEW k \in Kinds, FinishWrite(k) PROVE FoundInv'
  <2>1. \A j \in Kinds : file'[j].gen \in Nat /\ file'[j].gen >= file[j].gen
    BY <1>0, <1>3 DEF FinishWrite, RefineInv, StableInv, TypeOK
  <2> QED BY <1>1, <1>3, <2>1 DEF FinishWrite, frame, past
<1>4. CASE Tick \/ Restart \/ UNCHANGED vars
  <2>1. UNCHANGED <<memory, upc, cur, found, file>>
    BY <1>4 DEF Tick, Restart, vars, env, frame, past
  <2> QED BY <1>0, <1>1, <2>1
<1>5. CASE Skip \/ WakeUp \/ ClearOld
  BY <1>5 DEF Skip, WakeUp, ClearOld, Return, FoundInv
<1>6. CASE Stale
  BY <1>0, <1>6 DEF Stale, FoundInv, env
<1>7. CASE BeginLoad
  BY <1>0, <1>7 DEF BeginLoad, FoundInv, env, past
<1>8. CASE LoadOk
  <2>1. buffer'[cur][Other(flag[cur])] \in {Torn(file[cur].gen), Whole(file[cur].gen)}
    BY <1>0, <1>8 DEF LoadOk, RefineInv, StableInv, TypeOK
  <2>2. buffer'[cur][Other(flag[cur])].gen = file[cur].gen
    BY <2>1 DEF Torn, Whole
  <2> QED BY <1>0, <1>8, <2>2 DEF LoadOk, FoundInv, env, past
<1>9. CASE Flip
  <2>2. /\ upc = "loaded" /\ upc' = "grace"
        /\ buffer' = buffer /\ cur' = cur /\ found' = found
        /\ flag'[cur] = Other(flag[cur])
    BY <1>0, <1>9 DEF Flip, RefineInv, StableInv, TypeOK
  <2>3. Usable(buffer[cur][Other(flag[cur])]) /\ buffer[cur][Other(flag[cur])].gen >= found
    BY <2>2 DEF FoundInv, RefineInv, GenInv
  <2> QED BY <2>2, <2>3 DEF FoundInv, Active
<1>10. CASE LoadFail
  BY <1>10 DEF LoadFail, Exit, FoundInv
<1>11. ASSUME NEW w \in Workers, Worker(w) PROVE FoundInv'
  <2>1. CASE TakeIndex(w) \/ TakeParam(w) \/ Finish(w)
    <3>1. UNCHANGED <<memory, upc, cur, found, file>>
      BY <2>1 DEF TakeIndex, TakeParam, Finish, env, frame, past
    <3> QED BY <1>0, <1>1, <3>1
  <2>2. CASE NoMergeExit(w) \/ Overrun(w)
    BY <2>2 DEF NoMergeExit, Overrun, Exit, FoundInv
  <2> QED BY <1>11, <2>1, <2>2 DEF Worker
<1> QED BY <1>2, <1>3, <1>4, <1>5, <1>6, <1>7, <1>8, <1>9, <1>10, <1>11 DEF Next, Updater

LEMMA FoundCorrect == Spec => [](RefineInv /\ FoundInv)
<1>1. Init => FoundInv
  BY DEF Init, FoundInv
<1> QED BY <1>1, RefineCorrect, FoundStep, PTL DEF Spec

\* A load that fails ends the process: an Update that it survives has made the
\* version it found, or a newer one, the active one; and what is active never gets
\* older.
THEOREM UpdatesTakeEffect == Spec => UpdatedOrExited
<1>1. RefineInv /\ FoundInv /\ [Next]_vars
        => [proc' # "dead" =>
              \A k \in Kinds :
                /\ Active(k)'.gen >= Active(k).gen
                /\ k = cur /\ Updating /\ ~Updating'
                     => Active(k)'.state \in {"whole", "torn"} /\ Active(k)'.gen >= found]_vars
  <2> SUFFICES ASSUME RefineInv, FoundInv, [Next]_vars, NEW k \in Kinds, proc' # "dead"
               PROVE  /\ Active(k)'.gen >= Active(k).gen
                      /\ k = cur /\ Updating /\ ~Updating'
                           => /\ Active(k)'.state \in {"whole", "torn"}
                              /\ Active(k)'.gen >= found
    OBVIOUS
  <2>1. Active(k).gen \in Nat
    BY DEF RefineInv, StableInv, TypeOK, Active, Contents
  <2>2. CASE Flip
    <3>1. Active(k)' = IF k = cur THEN buffer[cur][Other(flag[cur])] ELSE Active(k)
      BY <2>2 DEF Flip, Active, RefineInv, StableInv, TypeOK
    <3>2. buffer[cur][Other(flag[cur])].gen >= Active(cur).gen
      BY <2>2 DEF Flip, RefineInv, GenInv
    <3>3. Updating'
      BY <2>2 DEF Flip, Updating
    <3> QED BY <2>1, <3>1, <3>2, <3>3
  <2>3. CASE ~Flip
    <3>1. Active(k)' = Active(k)
      BY <2>3, ActiveChange DEF RefineInv, StableInv
    <3>2. Updating /\ ~Updating' => upc = "grace"
      <4>1. ASSUME NEW w \in Workers, Worker(w) PROVE upc' = upc
        BY <4>1 DEF Worker, TakeIndex, TakeParam, NoMergeExit, Finish, Overrun, Exit, frame
      <4>2. CASE Updater
        BY <4>2 DEF Updater, Skip, Stale, BeginLoad, LoadOk, LoadFail, Exit, Flip, ClearOld,
                    WakeUp, Updating
      <4>3. ASSUME NEW j \in Kinds, StartWrite(j) \/ FinishWrite(j) PROVE upc' = upc
        BY <4>3 DEF StartWrite, FinishWrite, frame
      <4>4. CASE Tick \/ Restart \/ UNCHANGED vars
        BY <4>4 DEF Tick, Restart, vars, frame, Updating
      <4> QED BY <4>1, <4>2, <4>3, <4>4 DEF Next, Updating
    <3>3. upc = "grace" /\ k = cur => Usable(Active(k)) /\ Active(k).gen >= found
      BY DEF FoundInv
    <3> QED BY <2>1, <3>1, <3>2, <3>3 DEF Usable
  <2> QED BY <2>2, <2>3
<1> QED BY <1>1, FoundCorrect, PTL DEF Spec, UpdatedOrExited
-----------------------------------------------------------------------------
(* TimelyViewsMatch.  Between its two references a timely request sees at most *)
(* one flip: a second one comes after the grace period of the first.           *)

MeetInv ==
  \A w \in Workers :
    Timely(w) =>
      /\ wpc[w] = "index" => <<view[w]["index"], Active("param")>> \in met[w]
      /\ wpc[w] = "busy" => <<view[w]["index"], view[w]["param"]>> \in met[w]

LEMMA MeetStep == RefineInv /\ MeetInv /\ [Next]_vars => MeetInv'
<1> SUFFICES ASSUME RefineInv, MeetInv, [Next]_vars PROVE MeetInv'
  OBVIOUS
<1> USE SharedMemoryAssumption
<1>0. /\ TypeOK /\ "index" \in Kinds /\ "param" \in Kinds
      /\ \A w \in Workers : age[w] \in Nat
  BY DEF RefineInv, StableInv, TypeOK, Kinds
<1>1. ASSUME UNCHANGED <<wpc, view, met>>, Active("param")' = Active("param"),
             \A w \in Workers : wpc[w] # "idle" /\ Timely(w)' => Timely(w)
      PROVE  MeetInv'
  BY <1>1 DEF MeetInv
<1>2. ASSUME NEW k \in Kinds, StartWrite(k) \/ FinishWrite(k) PROVE MeetInv'
  BY <1>1, <1>2 DEF StartWrite, FinishWrite, memory, reqs, past, Active, Timely
<1>3. CASE Tick
  <2>1. \A w \in Workers : wpc[w] # "idle" /\ Timely(w)' => Timely(w)
    BY <1>0, <1>3 DEF Tick, Timely, TypeOK
  <2> QED BY <1>1, <1>3, <2>1 DEF Tick, memory, past, Active
<1>4. CASE Skip \/ Stale \/ BeginLoad \/ LoadOk \/ ClearOld \/ WakeUp
  <2>1. UNCHANGED <<wpc, view, met, age>>
    BY <1>4 DEF Skip, Stale, BeginLoad, LoadOk, ClearOld, WakeUp, reqs, past
  <2>2. proc' # "dead" /\ ~Flip
    BY <1>4 DEF Skip, Stale, BeginLoad, LoadOk, ClearOld, WakeUp, Flip, Return,
                RefineInv, GenInv
  <2>3. Active("param")' = Active("param")
    BY <1>0, <2>2, ActiveChange
  <2> QED BY <1>1, <2>1, <2>3 DEF Timely
<1>5. CASE Flip
  <2>1. /\ UNCHANGED <<wpc, ref, view, age, buffer>> /\ upc = "loaded" /\ Meet
        /\ flag' = [flag EXCEPT ![cur] = Other(flag[cur])]
    BY <1>5 DEF Flip, reqs
  <2> DEFINE pair == <<buffer["index"][flag'["index"]], buffer["param"][flag'["param"]]>>
  <2>2. ASSUME NEW w \in Workers, Timely(w), wpc[w] = "index"
        PROVE  <<view[w]["index"], Active("param")'>> \in met'[w]
    <3>1. met'[w] = met[w] \cup {pair}
      BY <2>1, <2>2 DEF Meet
    <3>2. CASE cur = "index"
      <4>1. Active("param")' = Active("param")
        BY <1>0, <2>1, <3>2 DEF Active, TypeOK
      <4> QED BY <2>2, <3>1, <4>1 DEF MeetInv
    <3>3. CASE cur = "param"
      <4>1. ref[w]["index"] = flag["index"]
        <5>1. Holds(w, "index") /\ Left("index") = 0
          BY <2>1, <2>2 DEF Holds, Left
        <5> QED BY <1>0, <2>2, <5>1 DEF RefineInv, StableInv, LeaseInv, Timely
      <4>2. view[w]["index"] = buffer["index"][flag["index"]]
        BY <1>0, <2>2, <4>1 DEF RefineInv, StableInv, TimelyViewStable, Holds
      <4>3. flag'["index"] = flag["index"] /\ Active("param")' = buffer["param"][flag'["param"]]
        BY <1>0, <2>1, <3>3 DEF Active, TypeOK
      <4> QED BY <3>1, <4>2, <4>3
    <3> QED BY <1>0, <3>2, <3>3 DEF TypeOK, Kinds
  <2>3. ASSUME NEW w \in Workers, wpc[w] = "busy" PROVE met'[w] = met[w]
    BY <2>1, <2>3 DEF Meet
  <2> QED BY <2>1, <2>2, <2>3 DEF MeetInv, Timely
<1>6. CASE Restart
  BY <1>1, <1>6 DEF Restart, memory, reqs, past, Active, Timely
<1>7. CASE UNCHANGED vars
  BY <1>1, <1>7 DEF vars, memory, reqs, past, Active, Timely
<1>8. CASE Exit
  BY <1>8 DEF Exit, MeetInv
<1>9. ASSUME NEW w \in Workers, TakeIndex(w) PROVE MeetInv'
  <2>1. /\ wpc' = [wpc EXCEPT ![w] = "index"] /\ UNCHANGED <<memory, age>>
        /\ view' = [view EXCEPT ![w]["index"] = Active("index")]
        /\ met' = [met EXCEPT ![w] = {<<Active("index"), Active("param")>>}]
    BY <1>9 DEF TakeIndex, Point
  <2>2. Active("param")' = Active("param") /\ \A v \in Workers : Timely(v)' = Timely(v)
    BY <2>1 DEF memory, Active, Timely
  <2>3. /\ wpc'[w] = "index" /\ view'[w]["index"] = Active("index")
        /\ met'[w] = {<<Active("index"), Active("param")>>}
    BY <1>0, <2>1 DEF TypeOK
  <2>4. \A v \in Workers : v # w => wpc'[v] = wpc[v] /\ view'[v] = view[v] /\ met'[v] = met[v]
    BY <1>0, <2>1 DEF TypeOK
  <2> QED BY <2>2, <2>3, <2>4 DEF MeetInv
<1>10. ASSUME NEW w \in Workers, TakeParam(w) PROVE MeetInv'
  <2>1. /\ wpc[w] = "index" /\ wpc' = [wpc EXCEPT ![w] = "busy"]
        /\ UNCHANGED <<memory, age, met>>
        /\ view' = [view EXCEPT ![w]["param"] = Active("param")]
    BY <1>10 DEF TakeParam, Point, past
  <2>2. Active("param")' = Active("param") /\ \A v \in Workers : Timely(v)' = Timely(v)
    BY <2>1 DEF memory, Active, Timely
  <2>3. /\ wpc'[w] = "busy" /\ view'[w]["index"] = view[w]["index"]
        /\ view'[w]["param"] = Active("param")
    BY <1>0, <2>1 DEF TypeOK
  <2>4. \A v \in Workers : v # w => wpc'[v] = wpc[v] /\ view'[v] = view[v]
    BY <1>0, <2>1 DEF TypeOK
  <2> QED BY <2>1, <2>2, <2>3, <2>4 DEF MeetInv
<1>11. ASSUME NEW w \in Workers, Finish(w) PROVE MeetInv'
  <2>1. wpc'[w] = "idle" /\ Active("param")' = Active("param")
    BY <1>0, <1>11 DEF Finish, TypeOK, memory, Active
  <2>2. \A v \in Workers : v # w => /\ wpc'[v] = wpc[v] /\ view'[v] = view[v]
                                    /\ met'[v] = met[v] /\ age'[v] = age[v]
    BY <1>0, <1>11 DEF Finish, TypeOK
  <2> QED BY <2>1, <2>2 DEF MeetInv, Timely
<1> QED BY <1>2, <1>3, <1>4, <1>5, <1>6, <1>7, <1>8, <1>9, <1>10, <1>11
        DEF Next, Updater, Worker, LoadFail, NoMergeExit, Overrun

\* The index and the parameters of a request younger than the second sleep have
\* been active together while it ran, although it reads the two flags one after
\* the other and without a lock.
THEOREM RequestsSeeOneService == Spec => []TimelyViewsMatch
<1>1. Init => MeetInv
  BY DEF Init, MeetInv
<1>2. MeetInv => TimelyViewsMatch
  BY DEF MeetInv, TimelyViewsMatch
<1> QED BY <1>1, <1>2, RefineCorrect, MeetStep, PTL DEF Spec
=============================================================================
