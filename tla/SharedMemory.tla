--------------------------- MODULE SharedMemory ---------------------------
(***************************************************************************)
(* The double-buffered index and parameters of the service, with           *)
(*  - the main thread, which polls both files and replaces the buffers     *)
(*    (SharedMemory::Update called from main, service.cc);                 *)
(*  - the mongoose worker threads, each of which reads both flags without  *)
(*    a lock and works on the buffers they select (RequestHandler::        *)
(*    Process);                                                            *)
(*  - the offline builder, which rewrites the files at any time;           *)
(*  - the cron job that starts the service again after it exited.          *)
(*                                                                         *)
(* Time.  Tick is the passage of one second: sleep(n) is a timer that      *)
(* Tick counts down, and age is the time a request has held its buffers.   *)
(* "clock" only orders modification times, the one thing the code does     *)
(* with them, and it compares those of one file only: clock[k] moves when  *)
(* the file already carries the current second.                            *)
(***************************************************************************)
EXTENDS Naturals

CONSTANTS Workers,         \* worker threads (num_threads)
          Settle,          \* sleep(10) between the stat and the load
          Grace,           \* sleep(5) between the flip and the clear
          Check,           \* update_checktime
          MaxGen,          \* bound: versions of each file the builder writes
          MissingAtStart   \* the files that do not exist at the beginning

Kinds == {"index", "param"}

ASSUME SharedMemoryAssumption ==
         /\ Settle \in Nat \ {0}
         /\ Grace \in Nat \ {0}
         /\ Check \in Nat
         /\ MaxGen \in [Kinds -> Nat]
         /\ MissingAtStart \subseteq Kinds

VARIABLES
  clock,   \* clock[k]: the current second, as far as the mtimes of file[k] show it
  file,    \* file[k]: [mtime, gen, writing, good]; mtime 0 = no such file
  proc,    \* "booting" (before mghandler.Start) | "serving" | "dead"
  ts,      \* index_ts_, param_ts_
  flag,    \* index_flag_, param_flag_ : the active slot
  buffer,  \* index_[2], param_[2]
  upc,     \* where the main thread is: "stat","settle","load","loaded","grace","sleep"
  cur,     \* the kind whose Update is running
  timer,   \* seconds left of the main thread's sleep
  mread,   \* Update's local mtime
  dirty,   \* the file is or was being rewritten during this load
  wpc,     \* wpc[w]: "idle" | "index" (holds the index) | "busy" (holds both)
  ref,     \* ref[w][k]: the slot the reference of worker w points into
  view,    \* view[w][k]: what that slot contained when the reference was taken
  age,     \* age[w]: seconds since worker w read index_flag_, up to Grace
  found,   \* history: the version that Update found newer than its timestamp, or 0
  met      \* history: met[w], the pairs of index and parameters that have been
           \* active at once from when worker w took its index to its parameters

env    == <<clock, file>>
memory == <<ts, flag, buffer>>
frame  == <<upc, cur, timer, mread, dirty>>
reqs   == <<wpc, ref, view, age>>
past   == <<found, met>>
vars   == <<clock, file, proc, memory, frame, reqs, past>>

-----------------------------------------------------------------------------
Slots == {0, 1}
Other(s) == 1 - s

Empty    == [state |-> "empty", gen |-> 0]
Loading  == [state |-> "loading", gen |-> 0]
Whole(g) == [state |-> "whole", gen |-> g]
Torn(g)  == [state |-> "torn", gen |-> g]  \* parts of version g, mixed with others

Contents == [state : {"empty", "loading", "whole", "torn"}, gen : Nat]
Files    == [mtime : Nat, gen : Nat, writing : BOOLEAN, good : BOOLEAN]

Active(k) == buffer[k][flag[k]]

\* The time for which a request has been safe from the main thread's clearing.
Holds(w, k) == \/ k = "index" /\ wpc[w] # "idle"
               \/ k = "param" /\ wpc[w] = "busy"
Timely(w)   == age[w] < Grace

NoRef  == [k \in Kinds |-> 0]
NoView == [k \in Kinds |-> Empty]

FirstFile(k) == IF k \in MissingAtStart
                THEN [mtime |-> 0, gen |-> 0, writing |-> FALSE, good |-> FALSE]
                ELSE [mtime |-> 1, gen |-> 1, writing |-> FALSE, good |-> TRUE]

-----------------------------------------------------------------------------
FreshBuffer == [k \in Kinds |-> [s \in Slots |-> Empty]]

Init == /\ clock = [k \in Kinds |-> 1]
        /\ file = [k \in Kinds |-> FirstFile(k)]
        /\ proc = "booting"
        /\ ts = [k \in Kinds |-> 0]
        /\ flag = [k \in Kinds |-> 0]
        /\ buffer = FreshBuffer
        /\ upc = "stat" /\ cur = "index" /\ timer = 0 /\ mread = 0 /\ dirty = FALSE
        /\ wpc = [w \in Workers |-> "idle"]
        /\ ref = [w \in Workers |-> NoRef]
        /\ view = [w \in Workers |-> NoView]
        /\ age = [w \in Workers |-> 0]
        /\ found = 0
        /\ met = [w \in Workers |-> {}]

\* exit(1), or a crash: the process and its memory are gone.  What is left is
\* what the next process starts with.
Exit == /\ proc' = "dead"
        /\ ts' = [k \in Kinds |-> 0]
        /\ flag' = [k \in Kinds |-> 0]
        /\ buffer' = FreshBuffer
        /\ upc' = "stat" /\ cur' = "index" /\ timer' = 0 /\ mread' = 0 /\ dirty' = FALSE
        /\ wpc' = [w \in Workers |-> "idle"]
        /\ ref' = [w \in Workers |-> NoRef]
        /\ view' = [w \in Workers |-> NoView]
        /\ age' = [w \in Workers |-> 0]
        /\ found' = 0
        /\ met' = [w \in Workers |-> {}]
        /\ UNCHANGED env

\* The cron job starts the service again.
Restart == /\ proc = "dead"
           /\ proc' = "booting"
           /\ UNCHANGED <<env, memory, frame, reqs, past>>

-----------------------------------------------------------------------------
(* The builder rewrites a file in place: truncate, write, write, ...  *)

StartWrite(k) ==
  /\ ~file[k].writing
  /\ file[k].gen < MaxGen[k]
  /\ file' = [file EXCEPT ![k] = [mtime |-> clock[k], gen |-> file[k].gen + 1,
                                  writing |-> TRUE, good |-> FALSE]]
  /\ dirty' = (dirty \/ (upc = "load" /\ cur = k))
  /\ UNCHANGED <<clock, proc, memory, upc, cur, timer, mread, reqs, past>>

FinishWrite(k) ==
  /\ file[k].writing
  /\ \E good \in BOOLEAN :
       file' = [file EXCEPT ![k] = [mtime |-> clock[k], gen |-> file[k].gen,
                                    writing |-> FALSE, good |-> good]]
  /\ UNCHANGED <<clock, proc, memory, frame, reqs, past>>

\* One second passes.
Tick ==
  /\ clock' = [k \in Kinds |-> IF file[k].mtime = clock[k] THEN clock[k] + 1 ELSE clock[k]]
  /\ timer' = IF timer = 0 THEN 0 ELSE timer - 1
  /\ age' = [w \in Workers |-> IF wpc[w] # "idle" /\ age[w] < Grace
                               THEN age[w] + 1 ELSE age[w]]
  /\ UNCHANGED <<file, proc, memory, upc, cur, mread, dirty, wpc, ref, view, past>>

-----------------------------------------------------------------------------
(* The main thread: Update(index), Update(param), and main's loop.    *)

\* Update returned 0: go on to the parameters, or to the next round.  The web
\* server is started once the first round is over.
Return ==
  \/ /\ cur = "index"
     /\ cur' = "param" /\ upc' = "stat" /\ timer' = 0
     /\ UNCHANGED proc
  \/ /\ cur = "param"
     /\ cur' = "index" /\ upc' = "sleep" /\ timer' = Check
     /\ proc' = "serving"

\* GetMtime(path) <= ts : nothing to do.  A missing file has mtime 0.
Skip == /\ upc = "stat" /\ proc # "dead"
        /\ file[cur].mtime <= ts[cur]
        /\ Return
        /\ UNCHANGED <<env, memory, mread, dirty, reqs, past>>

Stale == /\ upc = "stat" /\ proc # "dead"
         /\ file[cur].mtime > ts[cur]
         /\ upc' = "settle" /\ timer' = Settle
         /\ mread' = file[cur].mtime
         /\ found' = file[cur].gen
         /\ UNCHANGED <<env, proc, memory, cur, dirty, reqs, met>>

\* Mutant of BeginLoad: load without waiting for the file to settle.
BeginLoadAtOnce ==
  /\ upc = "settle"
  /\ upc' = "load" /\ timer' = 0
  /\ dirty' = file[cur].writing
  /\ buffer' = [buffer EXCEPT ![cur][Other(flag[cur])] = Loading]
  /\ UNCHANGED <<env, proc, ts, flag, cur, mread, reqs, past>>

\* Mutant of BeginLoad: load into the slot the requests use.
BeginLoadInPlace ==
  /\ upc = "settle" /\ timer = 0
  /\ upc' = "load"
  /\ dirty' = file[cur].writing
  /\ buffer' = [buffer EXCEPT ![cur][flag[cur]] = Loading]
  /\ UNCHANGED <<env, proc, ts, flag, cur, timer, mread, reqs, past>>

\* Load clears the inactive slot and starts to fill it.
BeginLoad == /\ upc = "settle" /\ timer = 0
             /\ upc' = "load"
             /\ dirty' = file[cur].writing
             /\ buffer' = [buffer EXCEPT ![cur][Other(flag[cur])] = Loading]
             /\ UNCHANGED <<env, proc, ts, flag, cur, timer, mread, reqs, past>>

\* Load returned 0.  Of a file rewritten meanwhile it has read some of each.
LoadOk == /\ upc = "load"
          /\ dirty \/ file[cur].good
          /\ upc' = "loaded"
          /\ buffer' = [buffer EXCEPT ![cur][Other(flag[cur])] =
                          IF dirty THEN Torn(file[cur].gen) ELSE Whole(file[cur].gen)]
          /\ dirty' = FALSE
          /\ UNCHANGED <<env, proc, ts, flag, cur, timer, mread, reqs, past>>

\* Mutant of LoadFail: the return code of Load is ignored.
LoadFailIgnored ==
  /\ upc = "load"
  /\ dirty \/ ~file[cur].good
  /\ upc' = "loaded" /\ dirty' = FALSE
  /\ UNCHANGED <<env, proc, memory, cur, timer, mread, reqs, past>>

\* Mutant of LoadFail: main goes on with the buffers it has.
LoadFailKept ==
  /\ upc = "load"
  /\ dirty \/ ~file[cur].good
  /\ buffer' = [buffer EXCEPT ![cur][Other(flag[cur])] = Empty]
  /\ dirty' = FALSE /\ mread' = 0 /\ found' = 0
  /\ Return
  /\ UNCHANGED <<env, ts, flag, reqs, met>>

\* Load returned an error: main exits.
LoadFail == /\ upc = "load"
            /\ dirty \/ ~file[cur].good
            /\ Exit

\* History: what the flip makes active together, for every request that still has
\* to take its parameters.
Meet == LET pair == <<buffer["index"][flag'["index"]], buffer["param"][flag'["param"]]>>
        IN met' = [w \in Workers |-> IF wpc[w] = "index" THEN met[w] \cup {pair} ELSE met[w]]

\* Mutant of Flip: record the time of the load instead of the mtime it read.
FlipAtNow == /\ upc = "loaded"
             /\ flag' = [flag EXCEPT ![cur] = Other(flag[cur])]
             /\ ts' = [ts EXCEPT ![cur] = clock[cur]]
             /\ upc' = "grace" /\ timer' = Grace
             /\ Meet
             /\ UNCHANGED <<env, proc, buffer, cur, mread, dirty, reqs, found>>

Flip == /\ upc = "loaded"
        /\ flag' = [flag EXCEPT ![cur] = Other(flag[cur])]
        /\ ts' = [ts EXCEPT ![cur] = mread]
        /\ upc' = "grace" /\ timer' = Grace
        /\ Meet
        /\ UNCHANGED <<env, proc, buffer, cur, mread, dirty, reqs, found>>

\* Mutant of ClearOld: clear without the second sleep.
ClearAtOnce == /\ upc = "grace"
               /\ buffer' = [buffer EXCEPT ![cur][Other(flag[cur])] = Empty]
               /\ mread' = 0 /\ found' = 0
               /\ Return
               /\ UNCHANGED <<env, ts, flag, dirty, reqs, met>>

ClearOld == /\ upc = "grace" /\ timer = 0
            /\ buffer' = [buffer EXCEPT ![cur][Other(flag[cur])] = Empty]
            /\ mread' = 0 /\ found' = 0
            /\ Return
            /\ UNCHANGED <<env, ts, flag, dirty, reqs, met>>

WakeUp == /\ upc = "sleep" /\ timer = 0
          /\ upc' = "stat"
          /\ UNCHANGED <<env, proc, memory, cur, timer, mread, dirty, reqs, past>>

Updater == \/ Skip \/ Stale \/ BeginLoad \/ LoadOk \/ LoadFail
           \/ Flip \/ ClearOld \/ WakeUp

-----------------------------------------------------------------------------
(* A worker thread in RequestHandler::Process.                        *)

Point(w, k) == /\ ref' = [ref EXCEPT ![w][k] = flag[k]]
               /\ view' = [view EXCEPT ![w][k] = Active(k)]

TakeIndex(w) == /\ proc = "serving" /\ wpc[w] = "idle"
                /\ wpc' = [wpc EXCEPT ![w] = "index"]
                /\ Point(w, "index")
                /\ met' = [met EXCEPT ![w] = {<<Active("index"), Active("param")>>}]
                /\ UNCHANGED <<env, proc, memory, frame, age, found>>

\* GetUvMergeBitmap() was NULL in the index that was read.
NullMerge(w) == view[w]["index"].state \in {"empty", "loading"}

TakeParam(w) == /\ wpc[w] = "index"
                /\ ~NullMerge(w)
                /\ wpc' = [wpc EXCEPT ![w] = "busy"]
                /\ Point(w, "param")
                /\ UNCHANGED <<env, proc, memory, frame, age, past>>

\* "uv merge bitmap is not exsit.", exit(1)
NoMergeExit(w) == /\ wpc[w] = "index"
                  /\ NullMerge(w)
                  /\ Exit

Finish(w) == /\ wpc[w] = "busy"
             /\ wpc' = [wpc EXCEPT ![w] = "idle"]
             /\ ref' = [ref EXCEPT ![w] = NoRef]
             /\ view' = [view EXCEPT ![w] = NoView]
             /\ age' = [age EXCEPT ![w] = 0]
             /\ met' = [met EXCEPT ![w] = {}]
             /\ UNCHANGED <<env, proc, memory, frame, found>>

\* The bitmaps a request works on were deleted under it: it reads freed
\* memory, which may kill the process (or not: then Finish is its next step).
Overrun(w) == /\ \E k \in Kinds : Holds(w, k) /\ buffer[k][ref[w][k]] # view[w][k]
              /\ Exit

Worker(w) == TakeIndex(w) \/ TakeParam(w) \/ NoMergeExit(w) \/ Finish(w) \/ Overrun(w)

-----------------------------------------------------------------------------
Next == \/ \E k \in Kinds : StartWrite(k) \/ FinishWrite(k)
        \/ Tick
        \/ Updater
        \/ \E w \in Workers : Worker(w)
        \/ Restart

Spec == Init /\ [][Next]_vars

\* The kernel wakes sleepers and runs the main thread; cron restarts the
\* service.  Nothing is assumed of the builder, nor of the requests.
Fairness == WF_vars(Tick) /\ WF_vars(Updater) /\ WF_vars(Restart)

FairSpec == Spec /\ Fairness

-----------------------------------------------------------------------------
(* Properties *)

\* The types of the variables.
TypeOK ==
  /\ clock \in [Kinds -> Nat]
  /\ file \in [Kinds -> Files]
  /\ proc \in {"booting", "serving", "dead"}
  /\ ts \in [Kinds -> Nat]
  /\ flag \in [Kinds -> Slots]
  /\ buffer \in [Kinds -> [Slots -> Contents]]
  /\ upc \in {"stat", "settle", "load", "loaded", "grace", "sleep"}
  /\ cur \in Kinds
  /\ timer \in Nat
  /\ mread \in Nat
  /\ dirty \in BOOLEAN
  /\ wpc \in [Workers -> {"idle", "index", "busy"}]
  /\ ref \in [Workers -> [Kinds -> Slots]]
  /\ view \in [Workers -> [Kinds -> Contents]]
  /\ age \in [Workers -> 0..Grace]
  /\ found \in Nat
  /\ met \in [Workers -> SUBSET (Contents \X Contents)]

\* The reason for the second buffer and for the sleep(5) before it is cleared:
\* a request that has run for less than Grace seconds still finds, in the
\* buffers it refers to, exactly what was there when it took the references,
\* however often the files change and whatever the other requests do.
TimelyViewStable ==
  \A w \in Workers, k \in Kinds :
    Holds(w, k) /\ Timely(w) => buffer[k][ref[w][k]] = view[w][k]

\* The reason for the sleep(10) before the load, given that modification times
\* are in whole seconds: when the next poll would skip a file (its mtime is not
\* newer than the recorded one) and the file is complete, the active buffer
\* already is the version in the file.  No rewrite is ever missed.
NoMissedUpdate ==
  \A k \in Kinds :
    (proc # "dead" /\ file[k].gen > 0 /\ ~file[k].writing /\ file[k].mtime <= ts[k])
      => Active(k) = Whole(file[k].gen)

\* A service that started with both files present answers from complete loads
\* only: neither the buffer being filled nor the one being cleared is active.
NeverServesPartialLoad ==
  proc = "serving" => \A k \in Kinds : Active(k).state \in {"whole", "torn"}

\* A request takes its index and its parameters one after the other, without a
\* lock (request_handler.cc:256-258), and an update of either may fall between.
\* Because the two are never replaced within Grace seconds of each other, a timely
\* request still works on a pair that was active as a pair while it ran, never on
\* an index with parameters that came after its successor.
TimelyViewsMatch ==
  \A w \in Workers :
    wpc[w] = "busy" /\ Timely(w) => <<view[w]["index"], view[w]["param"]>> \in met[w]

\* The main thread is inside of an Update that found a newer file.
Updating == upc \in {"settle", "load", "loaded", "grace"}

\* A load that fails is answered by an exit (service.cc:33-52,
\* 75-82), never by going on with what was there: an Update that found a newer file
\* and after which the process still lives ends with that version, or with one
\* written since, loaded and active.  No step takes an active version back.
UpdatedOrExited ==
  [][proc' # "dead" =>
       \A k \in Kinds :
         /\ Active(k)'.gen >= Active(k).gen
         /\ k = cur /\ Updating /\ ~Updating'
              => Active(k)'.state \in {"whole", "torn"} /\ Active(k)'.gen >= found]_vars

\* The double buffer implements a store of immutable snapshots with leases of
\* Grace seconds.
Lease(w, k) == CASE wpc[w] # "idle" /\ ~Timely(w) -> [state |-> "lapsed", gen |-> 0]
                 [] Timely(w) /\ Holds(w, k)      -> buffer[k][ref[w][k]]
                 [] OTHER                         -> [state |-> "none", gen |-> 0]

Store == INSTANCE SnapshotStore WITH
           Readers <- Workers,
           current <- [k \in Kinds |-> Active(k)],
           held    <- [w \in Workers |-> [k \in Kinds |-> Lease(w, k)]]

StoreSpec == Store!Spec

\* If from some time on both files exist, complete and well formed, then again
\* and again the service runs with exactly these versions, whatever crashes,
\* torn loads and bad files came before.
Settled(k) == file[k].gen > 0 /\ ~file[k].writing /\ file[k].good
LatestServed ==
  <>[](\A k \in Kinds : Settled(k))
    => []<>(proc = "serving" /\ \A k \in Kinds : Active(k) = Whole(file[k].gen))
=============================================================================
