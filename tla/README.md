# Verification of the flow retrieval service

This directory holds TLA+ models of the flow retrieval service
(`src/`), the TLC configurations that check them on small instances, and proofs
that the TLA+ proof system checks. The service answers, for an advertiser's
targeting conditions, ad positions and bid, how many page views and users a
campaign would reach, at which rate of won auctions. It works on bitmaps over a
sample of the traffic, which an offline builder writes to an index file.

## 1. The system

| part | state it keeps | operations | interacts with |
|---|---|---|---|
| `SharedMemory` (`include/shared_memory.hpp`) and `main` of `service.cc` | two copies each of index and parameters, a flag and a timestamp for each kind | `Update` from the polling loop: stat, sleep 10 s, load, flip, sleep 5 s, clear; `GetIndex`, `GetParam` | files of the builder; requests, which read without a lock; exits on a failed load |
| `RequestHandler` | one per worker thread: request buffer, compute buffer, sums | `Process`: encode targeting, merge rate, per position mask, count, accumulate; `Calculate` | takes a parsed query, reads `SharedMemory`, asks `TargetMap` |
| `Bitmap`, `BidBitmap`, `PvBidBitmap`, `UvBidBitmap`, `UvMergeBitmap` | rows of bits, bids, dictionaries | `Generate`, `And`, `Or`, `Count`, `Union`, `Dump`, `Load` | owned by `Index` |
| `Index` (`src/index.cc`) | two maps of bitmaps by position and one merge bitmap | `Add...`, `Dump`, `Load`, `Clear` | dumped by the builder, loaded by the service, through one file |
| mongoose, thread pool (`src/mongoose.cc`) | ring of accepted sockets, thread count, stop flag, mutex and three conditions | `mg_start`, master and worker threads, `mg_stop` | callbacks of `MgThreadHandler` |
| mongoose, HTTP; `MgThreadHandler` | listening sockets; connection: buffer, lengths of head and content, consumed bytes, status | options and ports, `getreq`, `begin_request`, `mg_read`, reply, discard, close | clients; `RequestHandler` |
| `QueryParser`, `StringExt` | none | JSON to `QueryData`, with error codes | called by `begin_request` |
| `TargetMap` | online and offline names to rows | `Load`, `QueryOnline`, `QueryOffline` | builder and service, each with its own copy |
| `Param`, `StepFunction` | settings, step functions | `Load`, getters | double-buffered like the index |
| `builder.cc` | samples of the current position | group the samples, join with infos, dump | writes the index file |
| `monitor.sh`, `startup.sh` | pid file, error logs | status, error, start, stop, restart | cron, an operator, the processes of the service |

What is hard to test here: the buffers are switched under running requests with nothing but
delays between them; the files are rewritten in place while they are polled and loaded; the
thread pool's stop flag is read and written without the mutex; a dump can stop at any write;
heads and bodies arrive in pieces or not at all; a handler, a worker's buffer and a parameter
object carry state from one use to the next; the builder joins files whose order it does not
check; two programs number targets on their own; the bit arithmetic has padding, two bit orders
and unsigned differences; the scripts know a process by a number in a file that they write in
the background. `PROJECT.json` lists each of these hazards at its line, with the properties that
cover it or a note.

What makes each part correct:

- SharedMemory: a request reads data that nobody changes under it, and index and parameters
  that were in use together; no file version is missed; what is served was loaded completely;
  an update that has begun ends with the new version in use or with the end of the process; in
  the end the newest good files are served.
- Index file: what loads is what was dumped, completely or not at all, and what was dumped
  completely loads if it has anything to ask about.
- Thread pool: a FIFO of sockets; every connection is served; `mg_stop` returns,
  with all threads gone, and all sockets closed.
- HTTP exchange: all ports are open or none; the parsed text is the client's body,
  however it arrived; the result reaches the client whole; every connection is answered
  and closed.
- Queries: the error code is that of the first check that fails; the mask is the set of
  samples that the conditions describe; every position in the text is counted as often as
  it is there, page views with page views and users with users, in this query's answer alone.
- Builder and dictionary: the bitmap of a position has the samples of one run of it, all
  of them, and nothing of another position; what is asked by an online name is what was
  sampled under the offline one; the merge bitmap has each user once.
- Parameters: what the object says is what the last file says; a step function is right
  at and between its splits; the limits hold for every answer.
- Scripts: a process that lives is one that a restart would find; in the end one process has
  the port and an index. Scripts that overlap can break both; how exactly is a property.

## 2. Modules

| module | models | proved about |
|---|---|---|
| `SharedMemory` | `shared_memory.hpp`, `main`, the references taken in `Process`, builder, cron | `SharedMemoryProofs` |
| `SnapshotStore` | abstract: immutable snapshots with leases | implemented by `SharedMemory`, in `SharedMemoryProofs` |
| `IndexFile` | `Index::Dump`, `Index::Load` and the `Dump`/`Load` of the bitmaps | `IndexFileProofs` |
| `Builder` | `builder.cc`, the `Generate` of the bitmaps, `Index::Add...` | `BuilderProofs` |
| `TargetMap` | `target_map.cc`; used by `Builder` and `RequestHandler` | with both |
| `MgPool` | `mg_start`, `mg_stop`, master and worker threads | `MgPoolProofs` |
| `SocketFifo` | abstract: a bounded FIFO queue | implemented by `MgPool`, in `MgPoolProofs` |
| `MgStart` | the options and ports of `mg_start` | with `HttpExchange` |
| `HttpMessage` | `get_request_len`, `parse_http_message`, the URI | with `HttpExchange` |
| `HttpExchange` | `MgStart`, then one worker's connections: `getreq`, `handle_request`, `begin_request`, `mg_read` | `HttpExchangeProofs` |
| `BitmapQuery` | `GetTarget`, `Union`, `Count` | `BitmapQueryProofs` |
| `StringExt`, `QueryParser` | `Split`, `Strip`; `QueryParser::Parse` | with `RequestHandler` |
| `RequestHandler` | parsing and `Process` over many queries | `RequestHandlerProofs` |
| `StepFunction`, `Param` | `step_function.hpp`; `Param::Load`, the limits of `Calculate` | with `RequestHandler`, in `RequestHandlerProofs` |
| `Monitor` | `monitor.sh`, `startup.sh` and the processes they look after | `MonitorProofs` |

A component that is checked by itself has an `MC...` module with the values of its
constants and its symmetries. Compositions: `HttpExchange` extends `HttpMessage` and
`MgStart`; `RequestHandler` extends `QueryParser` and `TargetMap`; `Builder` extends
`TargetMap`; `Param` extends `StringExt` and `StepFunction`.
A definition named *Mutant of X* is a plausible bug in the code behind X; it is
not part of the specification, and shows that the property named in
`PROJECT.json` can fail.

### SharedMemory

Both kinds of data are the members of `Kinds`; `cur` is the one whose `Update` runs,
`upc` the place in it. `buffer[k][s]` is `index_[s]` or `param_[s]`, reduced to
what was loaded: *empty*, *loading* (half filled), *whole* (all of one version) or
*torn* (loaded while the file was rewritten, but accepted by `Load`). `flag`,
`ts` and `mread` are `index_flag_`/`param_flag_`, the timestamps and the local
`mtime`. `Stale`, `BeginLoad`, `LoadOk` or `LoadFail`, `Flip`, `ClearOld` are the
lines of `Update` between which other threads can be seen; the assignments of flag
and timestamp are one step, since no other thread reads the timestamp.
`sleep(n)` is a timer that `Tick`, one second, counts down. Requests take the
index (`TakeIndex`), then the parameters (`TakeParam`), and end (`Finish`); `ref`
says where the reference points, `view` what was there. `Overrun` is the
possible death of a request whose buffer was deleted. `StartWrite` and
`FinishWrite` are the builder, as far as a stat or a load can see it.
`clock[k]` moves on when the file of that kind already has the current second as its
modification time: mtimes are compared with those of the same file only, nothing else looks at
the clock, and so it stays small. Two histories are there for the properties: `found`, the
version in the file when `Update` saw that it was newer, and `met`, the pairs of an index and
parameters that were active together since a request took its index.

### IndexFile

The header (two offset maps and the merge offset) and the blocks behind it are
variables; every `fwrite` group of `Dump` and every `fread` group of `Load`
is an action. `Kill` and `DiskFull` may come between any two writes. Once
full, the disk stays full until the next truncation. `committed` is the index whose
dump was finished, `overlap` says that a dump ran during the current load.
A block is one `Dump` of a bitmap with everything behind it. That a
block cut off by the end of the file does not load rests on this: each `Load` ends
with unconditional reads (`PvBidBitmap::Load` of 24 floats, `UvBidBitmap::Load` of
`uv_`, `UvMergeBitmap::Load` of the last dictionary entry).

*Empty bitmaps.* `fread` of 0 elements returns 0, which `Bitmap::Load` takes for an error
(`bitmap.hpp:99-102`), while `Dump` writes a bitmap without rows and does not complain. So a
block has `rows` or none: the bitmaps of positions have none if the dictionary is empty
(`targets`), the merge bitmap has none if no line of the merge file has two fields (`users`). An
index of the first kind loads without those bitmaps, each with a warning; one of the second kind
never loads, `Load` returns -6. `OnlyUserlessRefused` says that this is the only finished dump
that is refused, and `OnlyWholeIndexLoads` what the others become in memory (`Image`).
`IndexFile` also leaves out the capacity of the offset maps: each has 64 KB in the header, and
`DumpOffsetMap` does not check that its map fits (about 2978 positions with names of 10
characters).

### MgPool

A section under the mutex is one step, except where it reads `stop_flag`, which
`mg_stop` sets without the mutex, and then decides to sleep: there the test
(`ConsumeEmpty`, `ProduceFull`) and the wait (`ConsumeWait`, `ProduceWait`) are two
steps with the mutex held. `num_threads++` in `mg_start` is a read and a write without
the mutex. The worker's decrement, under the mutex, is `Leave` and `Left`; its assertion
that the count is not negative, which the build keeps (`NDEBUG` is not defined), is `Unlock` when
it holds and `AssertFails` when it does not. `pthread_cond_signal` wakes any
one of the waiting threads, or nobody if none waits. Spurious wake-ups are left out:
every wait is in a loop that tests its condition again, and a liveness
property that holds only thanks to them would be worth little. `thread_stop`
frees a pointer into the middle of an allocation: `ThreadStop` is the outcome in
which the allocator does not notice, `Abort` the one in which it does.
The service itself never calls `mg_stop` (its loop has no end); it is checked
because `MgThreadHandler::Stop` offers it.

### Builder and TargetMap

A file is read line by line, and what the next line is, is chosen when it is read; a line that
does not parse is `ShortLine`. `infos`, `last_psid`, `targets`, `bids` are the variables of
`ProcessPvMap` and `ProcessUvMap`, which are the same code for two kinds, so that `kind` says
which of the two runs. `Flushed` is the block that both have twice: at a change of position and
at the end of the file. `Rows` are the rows of a sample's targets, without the negative ones,
which `QueryOffline` also returns for a name it does not know. `Generated` is `Generate` of the
bitmaps, with the check of the rows in `Bitmap::Generate`. A bid has 16 bits (`MaxBid`).
Histories (`informed`, `sampled`) keep what the files said; the properties are read off them.

Worth knowing: the first info of a position counts (`insert`); a bitmap that cannot be
generated (a row beyond the height) leaves a NULL entry, which `Dump` skips, so
that a later run of the same position can still be stored, while one that was stored is
never replaced; negative bids wrap to 16 bits; a merge line with an empty list makes a
position named "" of its own; without a merge file nothing is dumped, and the old index
stays; the results of `ProcessPvMap` and `ProcessUvMap` are not looked at. The dictionary
in `conf/targeting.conf` is a whole one (212 lines, rows 0 to 211).

### MgStart, HttpMessage, HttpExchange

`MgStart` is `mg_start` up to its threads (which are `MgPool`): the options over the
defaults, then one step per port. `HttpMessage` has the functions on the text of a head,
as operators on sequences of tokens: a word, a separator, CR or LF is one token, so that
where a head ends, which pieces it comes in and what stays behind it are all visible.
`HttpExchange` is a worker: `Pull` is one `recv` of any number of tokens, `ReadRequest` the
end of `read_request` for any of its reasons. Each call of `mg_read` is one `ReadSome` or
`ReadEnds` with the `pull_all` below it. The order of data and timeouts inside one call does
not matter, because `mg_read` returns only when it has all it asked for, or the client has
stalled or closed; a stop of the server inside it is `ReadStopped`. `discard_len`, which
looks superfluous without keep-alive, is there because two assertions depend on it.
A cell of `request_buf` says which unit it has and which connection (modulo 2) it came
with. `status` and `must_close` are what `should_keep_alive` would look at.
Port 65535 is refused; an empty list of ports makes a server without a listener; a NULL
from `mg_start` is not looked at by the service.

### BitmapQuery

A row of bits is a set of cells (byte, bit), so that `SetBit`'s order (bit 7 first)
and the inverse order in which `Count` looks up bids both appear. A word has
`WordBytes` bytes (8 in the code, 1 in the runs: with three samples a row has
padding either way). The choice in `Count` stands for the bids read behind the end of
`bids_`. One run of the model is one query on one bitmap.

### QueryParser and RequestHandler

A JSON value is a type, as jsoncpp has it, and a value. `Passes` has one line for each
check of `Deserialize`, under the code it returns, and `Order` the order in which they are
made. A text is a sequence of tokens again, because the splitting at `,`, `:` and `|` is what
could be wrong. A query is refused (`Refuse`), or it becomes `qd` and `Process` runs. A sum is
the sequence of its terms; a term says of which bitmap and of which query it is, and
under which `targetings_` it was counted. `Kept` is every loop that copies those elements of a
vector that pass a test, in their order. What `Accumulate` multiplies and what
`Calculate` makes of the sums, but for the limits, is not modelled. The properties read a
query's texts without splitting them (`GroupAt`, `FieldAt` count separators). For that they
assume two things of the data: that a text is in tokens, with a separator next to every word,
which any text is when it is read as tokens; and that `targeting.conf` gives no online name twice or
empty, as the file of the repository does (`Load` would let the last line win).

Worth knowing: a position named twice counts twice; a group of nothing but unknown
targets is ignored rather than empty; `bidPrice` must have a decimal point (an integer is refused
with code 3) and is truncated, so that -0.9 passes as 0.

### Param and StepFunction

`ParamLoad` clears, `ReadLine` is the loop over the lines, `Fill` the long sequence of `find`s
behind it, which ends at the first step function that does not parse. The names differ from
those of `RequestHandler` (`ParamInit`, `ParamClear`, `CalculateLimits`...), so that one module of
proofs can be about both. The numbers of
words and the lower case of words are constants. The three getters of maps are `Get`.
`CalculateLimits` has the two limits; rates are in tenths, so that `ceil` is exact.

Worth knowing: the first line with a name counts, but within a map the last item; what
follows a second `=` is dropped; there are no comments behind a value (`true # x` is false);
only blanks are stripped, not a carriage return.

### Monitor

A process is its pid. `script[s]` is a running `monitor.sh` or `startup.sh`; each loop over pids
is one step per pid, in any order. `ps | grep PID | grep service` finds the number anywhere in a
line: `alike` has the pids that stand in some other process's line. The pid is appended to the
file by a background job (`Echo`). `Stop` is the test whether there is a file, `Cat` the reading
of it, by either script, `Kill` the loop, `Remove` the `rm`. A process that cannot have the port
is *deaf*, one that started without an index file *empty*. `watched` says whether the error logs
are where `monitor.sh` looks: with the repository's own files they are not (see below), so both
are checked. A `kill` is instantaneous, so that the port is free when the next process wants it.

Nothing keeps cron and an operator from running scripts at the same time, or before the echo of
the last one is done, and nothing in the model does: a script may `Begin` at any time, and
`overlaps` counts how often one begins before what went before is done. The history `late[s]`
has the pids that came into the file after the script had read it, which its `rm` takes out of
the file without their processes having been killed. `OnlyLateOnesEscape` says that this is the
only way in which a living process gets lost; that it does happen TLC shows when the property is
checked without its right-hand side. Such a process has the port for good if it had it, and
`ServiceComesBack` is about scripts that do not overlap.

## 3. Runs

| run | question | result |
|---|---|---|
| `shm_safety` | stable reads, no missed rewrite, no partial load served, updates take effect or end the process, refinement of `SnapshotStore` | holds |
| `shm_liveness` | index and parameters of a request were active together; the newest good files are served again and again | holds |
| `index_file` | only whole indexes load; of those, only the ones without a user are refused | holds |
| `builder` | a bitmap has one whole run of its position; online names find what offline names put in; users are merged once | holds |
| `pool_ring` | the ring is a FIFO; no thread outlives the context | holds |
| `pool_serve` | every connection is served | holds |
| `pool_stop_returns` | does `mg_stop` return? | violated |
| `http_exchange` | all ports or none; the body arrives exactly, nothing stale; the result whole; clean URIs; discards stay in the buffer; always an answer; every connection ends | holds |
| `bitmap_query` | the mask is what was asked for; counters are ordered | holds |
| `request_process` | every position in the text counts, in the sums it belongs to, under the conditions in the text, in this answer alone | holds |
| `settings` | the object says what the last file says; steps; limits | holds |
| `monitor` | how a process can escape the scripts, and that it can in no other way; the service comes back | holds |

The violated one is a disagreement between the code and the header that describes
it; `PROJECT.json` quotes both under "findings".

Other disagreements, seen while reading, which no run checks:

- `mg_stop` can also leave the master asleep in `produce_socket`: a worker signals
  `sq_empty` before it reads `stop_flag` (`mongoose.cc:5149`), so the call of
  `consume_socket` that the comment at 5170 relies on may come too early.
- Sockets that are queued, or just taken, when `stop_flag` is set are never closed
  (`mongoose.cc:5149`, `5225`).
- `mg_start` counts a worker after it has started it, and without the mutex
  (`mongoose.cc:5472`). A worker that finds no memory for its connection leaves at once. If
  it comes before the increment, `num_threads` is -1 when 5206 asserts that it is not
  negative, and the process aborts. If its decrement meets the increment for another worker, one
  of the two is lost; when that is the increment, the master reads 0 while a worker still
  runs, and `mg_stop` frees the context. The steps are in `MgPool` (`CountRead`, `CountWrite`,
  `Left`, `AssertFails`), but `ContextOutlivesThreads` is checked and proved only for workers that
  find memory; with `MayFail = TRUE` in `pool_ring.cfg` TLC finds it violated. No
  property of a run covers these two cases.
- `thread_stop` deletes `conn_data` and not `*conn_data` (`mg_thread_handler.cc:50-55`),
  so that the handler of `thread_start` is never freed (`mongoose.h:132`).
- "If Content-Length is not set, read until socket is closed" (`mongoose.cc:1560`): for a
  POST without the header `content_len` is -1 (5034), and nothing is read.
- Without `uv_use_delta`, `Accumulate` adds users to `pv_sum_` (`request_handler.cc:207`) and
  leaves `uv_sum_` at 0, although `request_handler.h:82-83` documents `pv_sum_` as the sum of
  the page views and `uv_sum_` as that of the users. `conf/param.conf` sets `uv_use_delta`, and
  under it the sums are what the header says. `EveryPositionCounts` states each of the two
  settings as the code has it.
- Without an index file at start-up `Update` returns 0 (mtime 0 is not newer than 0,
  `shared_memory.hpp:59-62`), so `main` logs "index file update over" (`service.cc:40-45`) and
  starts a server with an empty index, which exits at the first query
  (`request_handler.cc:260-263`). In `Monitor` this is *empty*.
- `begin_request` writes its response and returns 0 (`mg_thread_handler.cc:23`, `110`),
  although "In this case, callback must not send any data to the client"
  (`mongoose.h:61-62`): a 404 follows it (`mongoose.cc:4468-4469`), or for OPTIONS a 200. In
  `HttpExchange`, `NotServed` appends it.
- "If the targeting is empty, all samples are regarded as satisfying it"
  (`request_handler.cc:62`, in Chinese): the padding of the row is set too, counted as samples,
  and bids are read behind the end of `bids_`. `MaskIsAsked` excludes the case.
- "all initial whitespaces should be ignored" (`mongoose.cc:3064`): after two leading line
  ends the head is empty for `get_request_len`, and the request is bad.
- `alloc_vprintf` loses the last character of a text that is exactly as long as its buffer
  (`mongoose.cc:1648`). The service's response ends in a line end that nobody counts, so
  that the result is whole all the same (`ResultArrivesWhole`).
- `monitor.sh:33` looks for error logs in `logs/`, the configuration has `log_dir` `../log`.
- `Or` reads the rows that the service's dictionary gives without looking at the height of
  the bitmap: with different dictionaries in builder and service, behind its end.

**Bounds.**
- `shm_safety`: two requests, three versions of the index, two loads of it after the
  first, so that a request that holds on too long sees its slot cleared and filled
  again; `Settle` 1, `Grace` 2, `Check` 1. Only the order of the delays' ends
  matters; the proofs cover all values. Parameters are rewritten not at all after
  their first version (`MaxGen` 1), since `Update` is the same template for both kinds.
- `shm_liveness`: one request, both files missing at first, so that index and parameters are both
  updated while a server runs, in either order, and the index once more. As in the code (10 and
  5 s), a request may be timely for longer or shorter than an update waits: `Settle` 1, `Grace` 2.
- `pool_*`: two workers. `pool_ring` has four sockets and a ring of two, the
  smallest in which order, wrapping and being half full all happen, and enough sockets to
  have the ring full, one in the master's hand and one being served; `pool_serve` has
  two sockets and a ring of one, so that the master waits for room;
  a client may connect again after it was served, so the pointers wrap any number of times.
  Workers find memory in `pool_ring` and `pool_stop_returns`, and need not in `pool_serve`.
- `http_exchange`: heads of up to 20 tokens, with both kinds of line ends, two headers
  (`MaxHeaders`; one head has a third that is dropped), escaped and repeated slashes and dots,
  and texts that are no request; a buffer of 18 tokens that one head overfills and some
  bodies do not fit behind; announced lengths 0, 2, 3, huge, negative, none, against bodies
  of 0 to 3 units and a request buffer of 2: shorter than, equal to and longer than both;
  a print buffer of 3, which results of 0, 1 and 2 characters under-, exactly and overfill;
  8 lists of ports, with each reason to fail after a port was opened.
- `index_file`: two positions, each with or without either bitmap, with and without rows, and
  two dumps: a stale and a new one.
- `bitmap_query`: three samples, two targets, all bitmaps; up to two groups of one to
  three targets with repetitions: groups of one, of two, and the loops of `Or`
  beyond; bids equal or all different with a zero bid.
- `builder`: two positions, up to two infos and three samples of page views (enough for
  p, q, p: a second run), one of each of users (the same code), two users in the merge
  file; a whole dictionary, one with a row out of range, one with a name twice; bids at,
  above and below the 16 bits.
- `request_process`: all orientations of up to three tokens and longer ones with two or three
  groups; four lists of positions, with a repetition, an unknown and an empty name, under any
  index, with and without `uv_use_delta`; each check failing alone and together with a later
  one; a day of two hours; any number of queries one after the other.
- `settings`: all files of up to three of 17 lines (spaces, case, comments, repetitions,
  second `=`, functions whole, unsorted and with a split too many), loaded one after the
  other without end; 25 estimates under the limits.
- `monitor`: three pids, of which one is confusable at first or none; two scripts that overlap once;
  two failures or reboots; one command of the operator. An overlap is enough for one process to
  escape, and the third pid is there for a restart after it.

**Deadlock** is checked where the system never stops. It is off in `bitmap_query` (the
model ends with the query), in the `pool_*` runs, in which `mg_stop` is called or a
process may abort, and in `http_exchange`, where `mg_start` may give up and the server may
be stopped.

**Fairness.**
- `SharedMemory`: time passes, the main thread runs, cron restarts a dead service.
  Nothing is assumed of the builder or of requests.
- `MgPool`: every thread runs (weak fairness), and a thread that waits for the mutex
  gets it if the mutex is free again and again (strong fairness of the three steps that
  lock: pthread mutexes promise no order, but starvation by chance is not what these
  properties are about). Serving a request ends: the socket has a timeout of 3 s in both
  directions, and `http_exchange` shows it for the exchange.
- `HttpExchange`: the worker runs (one weak fairness of all its steps; no two of them are
  enabled at a time except `Pull`, which fills a bounded buffer, and the end of reading), and
  a read ends, because `SO_RCVTIMEO` is set. Clients need not come, and nobody needs to stop
  the server.
- `Monitor`: cron runs `monitor.sh` again and again, every script, background job and process
  gets on, the index is built some day, and no other process has a pid of the file in its
  line for ever. Nothing makes anything fail, and nothing makes it stop failing but the bound
  on failures, without which no service stays up.

## 4. Proofs

Each theorem holds for every value of the constants that the named assumption of its
module allows, so for any number of workers, clients, positions, samples or processes and
for buffers of any size; where it needs more, the extra hypothesis is in the table. The runs
of section 3 check the same properties on instances that meet these hypotheses (all but `TypeOK`
of `SharedMemory`, which is only proved).

| module | theorem | statement |
|---|---|---|
| `SharedMemoryProofs` | `TypeCorrect` | `Spec => []TypeOK` |
| | `RequestsReadStableData` | `Spec => []TimelyViewStable` |
| | `NoUpdateIsMissed` | `Spec => []NoMissedUpdate` |
| | `OnlyCompleteLoadsServed` | `MissingAtStart = {} => (Spec => []NeverServesPartialLoad)` |
| | `UpdatesTakeEffect` | `Spec => UpdatedOrExited` |
| | `RequestsSeeOneService` | `Spec => []TimelyViewsMatch` |
| | `ImplementsStore` | `Spec => StoreSpec` |
| `MgPoolProofs` | `TypeCorrect` | `Spec => []TypeOK` |
| | `StopWaitsForAll` | `IsFiniteSet(Workers)`, `~MayFail`: `Spec => []ContextOutlivesThreads` |
| | `RingImplementsFifo` | `Spec => FifoSpec` |
| `IndexFileProofs` | `TypeCorrect` | `Spec => []TypeOK` |
| | `OnlyWhole` | `Spec => []OnlyWholeIndexLoads` |
| | `OnlyUserless` | `Spec => []OnlyUserlessRefused` |
| `HttpExchangeProofs` | `StartsWhole` | `StartInit /\ [][StartNext]_server => []AllPortsOrNone` |
| | `PortsOfServer` | `Spec => []AllPortsOrNone` |
| | `TypeCorrect` | `Spec => []TypeOK` |
| | `BodyArrives` | `Spec => []BodyArrivesExactly` |
| | `NothingStale` | `Spec => []NoStaleBytes` |
| | `ResultWhole` | `Spec => []ResultArrivesWhole` |
| | `UriIsClean` | `Spec => []CleanUri` |
| | `DiscardsInBuffer` | `Spec => DiscardStaysInBuffer` |
| | `AnswersFirst` | `Spec => AnsweredBeforeClose` |
| `BitmapQueryProofs` | `TypeCorrect` | `Spec => []TypeOK` |
| | `MaskRight` | `Spec => []MaskIsAsked` |
| | `CountersNeverWrap` | `Spec => []NoUnsignedWrap` |
| `BuilderProofs` | `TypeCorrect` | `Spec => []TypeOK` |
| | `BuiltRight` | `Spec => []BuiltFromFirstRun` |
| | `QueriesFind` | `Spec => []QueriesFindSamples` |
| | `MergeFinds` | `Spec => []MergeFindsUsers` |
| `RequestHandlerProofs` | `TypeCorrect` | `Spec => []TypeOK` |
| | `PositionsCount` | `Spec => []EveryPositionCounts` |
| | `AnswersAlone` | `Spec => []AnswersThisQueryAlone` |
| | `SettingsHold` | `ParamSpec => []SettingsInv` |
| | `ParamTypeCorrect` | `ParamSpec => []ParamTypeOK` |
| | `LoadedIsWritten` | `ParamSpec => []LoadedAsWritten` |
| | `StepsAreWritten` | `ParamSpec => []StepsAsWritten` |
| | `AnswersWithinLimits` | `ParamSpec => []AnswerWithinLimits` |
| `MonitorProofs` | `TypeCorrect` | `Spec => []TypeOK` |
| | `LateOnesEscape` | `Spec => OnlyLateOnesEscape` |

Hardly any of these properties is inductive. What each needs to know besides:

**SharedMemory** needs to know where `Update` is.

- *Stable reads* (`StableInv`). The slot of a timely request is the active one,
  or it is the other one and `Update` is in its grace period with enough time left:
  `LeaseInv` says that the age of such a request plus the seconds left before the clear
  is at least `Grace`. `Tick` keeps that sum, `Flip` starts it at `Grace`, and a
  request that takes a reference takes the active slot. So the clear finds no
  timely request, nor does the next load, which goes to the slot that was cleared.
- *No missed rewrite* (`UpdateInv`). A write in the current second makes
  the clock move at the next tick, so that a rewrite after the sleep of `Settle` has
  a newer mtime than the one that was read (`MreadInv`); until then the file that is
  being loaded is either still the one with that mtime or is newer (`FillInv`). This
  is where `Settle > 0` is needed; the mutant without the sleep violates it.
- *Complete loads* (`CompleteInv`). The active slot is whole or torn from the first
  flip on, and the server starts after both flips.
- *Refinement* (`RefineInv`). Versions in the buffers and in the file
  are ordered (`GenInv`); with the two invariants above, each step maps to a step of
  `SnapshotStore` or to a stutter.
- *Updates take effect* (`FoundInv`). What is being loaded is never older than what `Update`
  found, since the file only gets newer; and a failed load leaves nothing behind that goes on.
- *Requests see one service* (`MeetInv`). The index of a timely request that has taken only
  that, and the active parameters, are always in `met`. A flip of the index leaves the parameters
  what they were; a flip of the parameters finds the index of the request still active, because if
  that had been replaced, its grace, with which the request is not timely any more, would be over.

**MgPool**, the count and the end of the context (`CountInv`). `num_threads` is the number of
workers that live and have not yet been taken off it, less the one that `mg_start` has created
and not counted yet (`CountOK`), and a worker between its read and its write of `num_threads`
has read what it still is, because it has the mutex (`MutexOK`) and because no worker leaves
before `mg_start` is over, when only the workers write (`StopOK`). The last point is where
`~MayFail` comes in: a worker without memory leaves at once, its decrement races with the
increment of `mg_start`, and one of the two is lost (section 3). With it, the master that reads
0 has joined everybody. The case that is left out is a real one, as section 3 says, and the
theorem says nothing of it.

**MgPool**, the ring (`PlacesInv`). The queue of `SocketFifo` is what stands between `sq_tail`
and `sq_head`, modulo the length of the ring; what the master and the workers have in hand are
the sockets on their way in and out. Each socket is in one place. That `Enqueue` overwrites
nothing rests on the pointers being less than one ring apart, that the wrap of both by the
same amount changes nothing on arithmetic modulo a length that is a constant of any size.

**IndexFile** (`IndexInv`). While `Dump` runs and the disk is not full, each map leads to the
blocks written so far (`DumpOK`); a block that is appended keeps that, and `Kill` and
`DiskFull` are final until the next truncation. In a file that was not written to its end the
offset of the merge bitmap is missing, still 0, or leads behind the end of the file (`FileOK`), and
this is why `Load` refuses it. `LoadOK` says how much of the index is in memory at each place of
`Load`. `TypeInv` relates the builder's offset to the number of bitmaps it has dumped, each once,
so that no offset points behind the largest index, with as many positions as one likes.

**MgStart** (`PortsInv`): the sockets that are open are those of the entries that are done
(`Halfway`), so that closing them all leaves none.

**HttpExchange** (`ExchangeInv`). `CoreInv` relates the lengths to what the client sends: a head
that was found ends in the buffer, what the service has read of the content follows the head in the
stream, and both lie in what was received. `BodyOK` says of a client with a head and a body that
fits how far the exchange is: the head that `get_request_len` finds in a *part* of the stream is
the whole head (from `HeadEnd`, which knows that a head has no empty line inside),
the header it announces the length with is the one that `parse_http_message` sees, and the
buffer holds the first `fill` units of the body and zeros. `BufferOK` says that a cell is zero or
of this connection, `RepliesOK` that a connection that is about to close was answered, and that the
text of a result is whole. For `CleanUri` (`UriInv`) it is enough that what was parsed is the text
of some request; that `RemoveDoubleDots` cleans any text is an induction from its end
(`Downwards`): what is skipped behind a slash leaves nothing that could follow it (`BehindLands`),
and the rest is clean already (`CleanOneMore`).

**BitmapQuery** (`MaskInv`). Before each row, the mask has the samples that meet all groups that
are done, and the second half of the buffer those that have one of the group's targets so far.
(The loop over the first group has no second half yet.) `Count`'s sum of bids is a fold over a
set, whose value no theorem of the library gives. The three that say that it is a natural number
(`SumExists`, `SumIsNatural`, `AllNumbers`) are an induction over the size of the set, made by
hand for this one fold: every nonempty set of numbers has a least element, so that there is no
least size at which no table of sums exists, and the table is what `CHOOSE` in the fold returns.

**Builder** (`IInv`). What has been collected are the rows and bids of the samples since the
position last changed (`OpenRun`, `Collected`), and every run before it is in the index as it
should be (`BuiltFrom`): the bitmap of a position has the first of its runs that could be stored,
with the figures of the position's first info (`InfoOK`). Another sample changes no run but the last
(`RunStays`), so that only a flush touches `BuiltFrom` (`FlushBuilds`). The second file starts
with nothing of the first (`Clean`), and a stored bitmap has the height of the dictionary
(`IndexOK`). On top of this invariant:

- `QueriesFind` needs that in a whole dictionary no row has two names (`WholeFacts`): there are
  as many names as rows and every row has one, and so, by counting, only one.
- `MergeFinds` needs that numbering names in the order in which they first appear is injective and
  without gaps (`Numberings`), for users and positions alike.
- `NumberAll` and `Numbered` are folds over sequences, whose library definition chooses a
  function on sets of indices. `TableExists` and `FoldSteps` show, for folds with a typed step,
  that there is one and what it is after each element; the induction is made by hand over the
  length of the part that is done, as in `BitmapQuery`.

**RequestHandler** (`IInv`). Besides the types, `Progress` says how far `Process` is at each of its
places: while a query is served, `qd` and `memory` are what was parsed and taken for it (`Served`); once
`EncodeTargeting` is done, `targetings` has exactly the conditions of the query; and in the loop
each sum has the terms of the positions done, the users' sum one position behind between
`AccumulatePv` and `AccumulateUv` (`Counted`). All terms are of this turn and under these
`targetings`, which needs `Clear` at the start. The steps are then
short; what is long is to relate what the parser makes of a text to what the text says:

- Every loop over a sequence, `Kept` and `Split`, has a table of its intermediate values
  (`LoopTable`). That there is one, and only one, is shown once, and so is what one more
  element does to it. `AllSequences` says that what holds of the empty sequence, and of each
  sequence with one more element, holds of all; it is proved from the well-foundedness of
  the numbers for a set of sequences, not for an operator.
- What the three splits make of an orientation, with one more token each time, is what counting
  the bars and colons says (`Arranged`): the last group and its last field are where the text
  is, each word stands in its group and field, and a word that ends is a name there. With
  `Tokenized`, the names of a group, or those in its second field if there is one, are `Asked`.
- The rows of the names are those of `Conditions` because a name has one line in the dictionary
  (`RowIs`), and unknown names and empty groups drop out on both sides (`EncodedIs`).

**Param** (`SettingsInv`). None of the four properties is inductive: they are about the object
after `Fill`, and what `Fill` finds is what `ReadLine` has left in the buffer. So the invariant
says of every name that the buffer has a value for it exactly if one of the lines read so far
says something of it, and that this value is what the first such line says but for blanks
(`Holds`, `Stripped`); that the members are cleared until `Fill`, which is where `Clear` at the
start of each load is needed; and, once loaded, what the lines say of every member
(`ValuesSay`, `FunctionsSay`), of maps at all keys and of step functions at all numbers and not
just at those the run looks at. It is then kept by `CalculateLimits`. Again the steps are short,
and what is long is that the code, which strips and splits in turn, reads a text as the
properties do, which take out all blanks first and look for separators in place:

- `Strip` leaves a text with the same words, no blank at its ends and so the same first token
  (`StripIs`), which is all that `ToDouble`, `ToBool` and the test for emptiness look at
  (`SameDouble`, `SameLower`, `StripAgain`). Splitting and taking out blanks can be done in
  either order (`BareSplit`).
- Each field of a split text stands at a place of it, between two separators (`Cut`, `CutAt`). With
  this a line is taken as `Said` reads it (`LineHolds`), the items of a map are
  the places of `IsItem`, the last one included (`MapIs`), and the numbers of a function are those
  that begin at `Places` (`NumeralsIs`).
- `Sorted` is there at all because any finite sequence of numbers can be sorted (`SortsSome`, by
  induction with an insertion); how many splits are below a number does not depend on the order
  (`CountBelow`), and the binary search ends at that count (`SearchIs`): every half keeps the
  place nearest to it (`HalfKeeps`), by induction over the length of the range.
- The limits are arithmetic (`WithinLimits`), with rates of any sign and in any order.

**Monitor** (`KillInv`). A script that kills still has every living process of the file in its
list, unless its pid came late: a kill takes a pid from the list and its process from the
machine, an echo makes its pid late for all scripts in their loops, and another script's `rm` only
takes pids out of the file. So a living pid that is in the file when the list is empty is
late. It needs nothing of the number of scripts.

Stating a model so that it can be proved about has found mistakes in it: the alternatives of two
`CASE` expressions in `HttpExchange` overlapped (`content_len` and `discard_len`; TLC takes the
first, TLA+ any), and they are conditionals now, as in the code. `BodyArrivesExactly` was about any
text with an empty line at its end, and is now about heads that have none before it. `Rows` in
`Builder` kept rows below 0, which `builder.cc:118-130` drops. `TypeOK` of `RequestHandler` had
its first bound on `i` inside the premise of the second, by the precedence of `=>`, and said less than
it seemed to.

**Only model-checked.** Liveness (`LatestServed`, `EveryConnectionServed`, `ConnectionEnds`,
`ServiceComesBack`), which the proof system cannot do under fairness. All other properties of
the passing runs are theorems, `ContextOutlivesThreads` under `~MayFail`; what the runs still
show of those is that the interesting cases happen, and that plausible bugs are found.

The library's induction theorems take an operator as a parameter, which the provers cannot use, so
that every recursive definition needs an induction by hand (`AllNumbers`, `AllSequences`). None of the
modules declares a RECURSIVE operator.

## 5. What is not modelled

- Floating point: the figures of `Accumulate` and `Calculate` but for the limits,
  `GetHourlyCtr`. They are single expressions over the sums; what goes into the sums is
  modelled.
- Whether an index and parameters that are active at the same time were made for each other:
  `Update` replaces them one after the other, 15 s apart, and no text of the code says that they
  belong together. `TimelyViewsMatch` says that a request sees no other pairs than those.
- Files that are replaced rather than rewritten, with an older mtime.
- The file descriptor that every `Index::Load` leaves open; offset maps of more than 64 KB.
- A dictionary that differs between builder and service: `QueriesFindSamples` is about one
  dictionary, and what `Or` reads behind a bitmap is any memory.
- What runs with the freed context when `mg_stop` returns too early, because a worker was out of
  memory (section 3).
- In `Monitor`: the time between a `kill` and the end of the process.
- In `HttpExchange`: what an interrupted call of `mg_read` (`ReadStopped`) had received before the stop
  is not counted as consumed (`mongoose.cc:1547`); nothing looks at the count after it.
- In mongoose: `log_access`, throttling, the access list, SSL and its redirection,
  keep-alive, failing `malloc`s, CGI, SSI, WebDAV, directory listings, authorization,
  websockets. The service sets none of these options, and `begin_request` comes before
  them. `ToString` of all classes, which only print.
- Third-party libraries (jsoncpp, glog, gflags), the mail scripts, tests and build files.

## 6. Plan

Every safety property of the runs is proved. What would extend the project next, in this order:

1. The thread pool with workers that are out of memory, where today no property covers what the
   lost update of `num_threads` leads to (section 3): what still holds there, such as how far the
   count can be off.
2. The time that a killed process takes to give up its port, in `Monitor`.
3. Liveness, with a proof system that has fairness.
