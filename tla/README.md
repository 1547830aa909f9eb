# TLA+ models of the NetCDF server

The server answers three routes about one NetCDF file: `/get-info` (the file's
metadata as JSON), `/get-data?time=&z=` (one x-y slice as JSON) and
`/get-image?time=&z=` (that slice as a png that matplot++ has gnuplot draw).
Crow runs the handlers on several threads. This directory holds models of the
server's own code (`src/src/netcdf_server.cpp`) and of the parts of Crow that
decide what its handlers see, runs of TLC over small instances, and proofs for
all instances.

## The system

| component | state | operations | interacts through |
|---|---|---|---|
| metadata cache | `infoMetadataCached_`, `cachedInfoMetadata_`, `infoMetadataMutex_` | `handleGetInfo` | shared mutex; `responseCode_` of the thread |
| image rendering | `png_mutex`, matplot++'s current figure, the pipe to gnuplot, `assets/` | the second half of `handleGetImage`, `generateVisual`, `generateUniqueFileName`, `waitForFile` | mutex, pipe, files |
| request parameters | thread_local `timeIndex_`, `zIndex_` | `query_string`, `validateRequestParameters` | called by the two handlers with parameters |
| routes and threads | thread_local `concentrationData_`, `responseCode_` | `run`, `handleGetData`, the first half of `handleGetImage`, `extractNetCDFSlice`, `JSONResponse` | all of the above |
| Crow connection | socket, parser state, request, response, `close_connection_`, `task_id_` | `start`, `do_read`, the parser's callbacks, `handle`, the writes, `start_deadline`, `cancel_deadline_timer` | io_context of its worker, the worker's task timer, the router |
| Crow task timer | `tasks_`, `highest_id_` | `schedule`, `cancel`, `process_tasks` | the deadlines of a worker's connections |
| Crow accept loop, workers | io_contexts, `task_queue_length_pool_`, `task_timer_pool_` | `run`, `do_accept`, `pick_io_context_idx`, `stop` | posts `start()` of connections to workers |
| Crow parser, router, JSON | - | parse, route, dump | connection, handlers |
| NetCDF, matplot++, gnuplot, asio | external | | |

What is hard here, and what makes each part correct:

- *Cache*. Several threads may find the cache empty, extract at the same time
  and want to fill it; the extraction can fail half-way; the result is moved,
  so there is a moment at which it is empty and the flag is not yet set.
  Correct: filled once, never changed, nobody answers with the moved-from
  value, every request is answered.
- *Rendering*. One figure for the process, one pipe, one directory, a process
  that writes files on its own time, and a request that gives up after two
  seconds. Correct: each request gets its own picture; the mutex is released
  on every path; the wait ends; files of served pictures are gone.
- *Parameters*. Duplicated and escaped keys, signed to unsigned conversion,
  the boundary of a dimension, the limit on pairs, values left by the last
  request. Correct: accepted exactly when well-formed, for the indices asked.
- *Connection*. Everything that happens to a connection happens in completion
  handlers of one loop, but a read may have ended before its deadline closes
  the socket, a client may go while its request is handled, a url may come in
  pieces, and the parser, the response and the task id are used again and again.
  Correct: requests are taken and answered one at a time; an answer is of the
  request's kind; a connection that waits has one deadline, which is its own;
  nobody waits for ever; it is closed when the client asked for that.
- *Task timer*. One timer for all connections of a worker, whose ids start
  again when it is empty. Correct: an id erases the task it was issued for.
- *Accept loop, workers*. A count per worker that is raised before there is a
  connection; workers that start while others are ready; handlers that throw
  out of the loop; a signal at any time. Correct: connections go to workers
  that are ready, in equal numbers; each is started; every thread ends.
- *Server*. State that a thread carries from one request to the next, and
  failures of one route that show in another. Correct: data and pictures are
  those of this request; statuses are of this thread; nothing deadlocks.

The `hazards` list of `PROJECT.json` has each of these at its line.

## Modules

| module | what it models |
|---|---|
| `OnceCell` | abstract: a cell that is written at most once; a client that asks gets the value it found or one it made |
| `InfoCache` | `handleGetInfo` on any number of threads |
| `InfoCacheProofs` | its theorems |
| `ImageRender` | `handleGetImage` from the grid on, with `generateVisual`, `waitForFile` and gnuplot |
| `ImageRenderProofs` | its theorems |
| `RequestParams` | operators: `query_string` and `validateRequestParameters` as functions of a target |
| `RequestParamsProofs` | what those operators return, for any width, limit and dimensions |
| `RequestCheck` | one thread that validates one target after another |
| `RequestCheckProofs` | its theorems |
| `NetCDFService` | abstract: what the server promises its clients, one request at a time on a thread and one reply to it |
| `NetCDFServer` | the threads, the routes and the thread_local state; instantiates `InfoCache`, `ImageRender` and `NetCDFService`, extends `RequestParams` |
| `NetCDFServerProofs` | that the composition implements its parts and the service, its invariants, and that its handlers end |
| `HttpExchange` | abstract: what a connection promises its client, a sequence of requests and their answers |
| `TaskTimer` | operators: the task timer as a value, with what `schedule`, `cancel`, the clock and `process_tasks` make of it |
| `Connection` | the connections of one worker: reads, callbacks of the parser, handlers, deadlines; instantiates `TaskTimer` and `HttpExchange` |
| `ConnectionProofs` | its theorems |
| `TurnTaking` | abstract: what the accept loop promises, connections given to the workers in turns and each started once |
| `WorkerPool` | the start of the workers, the accept loop, the workers' loops, `stop`; instantiates `TurnTaking` |
| `WorkerPoolProofs`, `NaturalLemmas` | its theorems, and arithmetic that they cite |
| `MC*` | instances for TLC |

How state and actions correspond to the code (`map` in `PROJECT.json` has the
lines):

- A *thread* (`Worker`) runs one handler at a time; `infoPc`, `imagePc` and
  `serverPc` say where it is. Steps end where another thread can see a
  difference: a lock, an unlock, a write to a shared variable, a call that may
  throw, a look at a file.
- *Locks.* `infoMetadataMutex_` is `readers` and `writer`; `png_mutex` is
  `pngMutex`. A lock action is enabled when the lock is free; the release is
  part of the action that leaves the scope, on every path out of it.
- *JSON* is the set of top-level keys, which is what tells metadata, an error
  and a moved-from value apart. `Extract` adds a section only when it was read
  completely, as the code does.
- *thread_local* variables are functions of the thread. In `NetCDFServer`
  they go through `Slot`, the identity, so that the statement "each thread has
  its own" is a definition that can be changed.
- *`responseCode_`* is one variable that both parts and the composition write.
  `ElsewhereFails` and `ImageElsewhereFails` stand, in the parts, for the
  other routes.
- *gnuplot* is a process of its own: it takes drawings from the pipe in order,
  creates the file empty, fills it step by step, and goes on writing to a file
  that was removed. `save` blocks while the pipe is full. It may fail to
  create a file, and `save` may return false, which the code does not look at.
- *File names.* `generateUniqueFileName` draws from a generator that is seeded
  with 32 random bits. The model assumes that a new name differs from those of
  all calls, drawings and files at that time (`Fresh`); the probability that it
  does not is the one thing here that is neither checked nor proved.
- *Targets* are sequences of pieces, each with the name its key decodes to,
  whether it is written plainly, and the number its value begins with. The
  limit of pairs and the width of `int` are parameters; conversions are modelled
  by what they do (`ToUint` wraps).
- *Exceptions.* `NcException` in the cache and `std::exception` in the slice
  are caught by the handlers. One that leaves a handler is answered by Crow with
  500 and does not touch `responseCode_` (`Uncaught`, `ValidateThrows`).

- *The loop of a worker.* `running` is the connection whose completion handler
  runs, or `Idle`. The handler that feeds the parser is cut into one action per
  callback (`OnUrl`, `OnHeaders`, `Handle_*`), ended by `EndRead`; until then
  no other handler of the worker runs, but the clock, the clients and the
  accepting thread act. `feed` says whether the buffer has more to parse.
- *A request* is the record of what the connection looks at: method, route,
  version, host, connection header, expectation, upgrade. It is chosen when the
  parser comes to its url. `cut` says where the read ends inside the url: in
  the path, between path and question mark, behind it.
- *A handler* answers before it returns, as those of the program do, so a
  request is parsed, handled and answered in one callback; an answer is its
  status code and whether it has a body. A write to a client that is gone is
  lost (`Sound`); the write of a streamed answer throws.
- *The timer* is a record of its tasks and `highest_id_`; a task has an owner
  and the ticks it has left. `Tick` runs the tasks that are due, which close
  their sockets; the end of the aborted read, or of one that was complete
  before, comes later, as in asio.
- *Histories.* `asked`, `answers`, `robbed` and `before` decide nothing: the
  requests and answers of each connection, whose deadline has been erased by a
  handler of another, and how many answers a client had been sent before its last
  read, which tells the answers of that read from the earlier ones.
- *The close.* `Closes` is the code's decision, with its three cases for 1.1,
  1.0 and other versions. `AsksToClose` is what the client asked for, whatever
  the code makes of it; `Survives` names the requests after which the connection
  stays. `NoWaitAfterClose` relates the client's wish to the code's waiting.
- *The pool.* `main` is the thread of `run()`, `thread` the workers, `posted`
  their io_contexts. `DoAccept` raises the count of the chosen worker before
  the accept is known to succeed, as the code does.

`NetCDFServer` composes: its actions use the actions of the parts (`Info!Request`,
`Info!InfoStep`, `Image!Begin`, `Image!ImageStep`, `Image!Gnuplot`), and the runs
and theorems `UsesCache` and `UsesRenderer` say that what is left of a behaviour
of the server when one looks at one part only is a behaviour of that part.

## Runs

| run | configuration | checks | what it shows |
|---|---|---|---|
| `info_cache` | 3 threads, fair | `InfoInv`, `AnswersHaveMembers`, `FirstExtractionWins`, `ImplementsCell`, `EventuallyCached`, `PendingAnswered` | the cache is filled once, its answers have content, the code implements `OnceCell`, and its two locks deadlock nobody |
| `info_cache_error` | 2 threads | `CacheHoldsInfo` (violated) | an error is cached for ever |
| `image_render` | 2 threads, 2 names, 3 slices (one empty), 1 look, pictures of one step, threads fair, gnuplot named where needed | `ImageInv`, `OwnImage`, `NoStrayFile`, `NoEmptyImage`, `WaitEnds`, `MutexReleased` | own pictures, where the other thread has another one drawn in the same figure, none of them empty; only errors leave files; the wait does not depend on gnuplot; no path keeps `png_mutex` (if gnuplot is fair) |
| `image_stall` | threads fair, the mutex strongly, gnuplot not | `RequestEnds` (violated) | the time limit does not cover `save` |
| `image_partial` | pictures of two steps | `CompleteImage` (violated) | a picture is served before it is complete |
| `request_check` | `int` of two bits, three pairs, targets of up to three pieces and a fourth beyond the limit | `CheckTypeOK`, `AcceptedIsWhatWasAsked`, `AcceptsExactlyWellFormed` | accepted exactly when well-formed |
| `request_foreign` | the same | `OtherParametersRejected` (violated) | what is beyond the limit is not seen |
| `server` | 2 threads, 2 requests, 4 targets (two refused), all fair | `ServerTypeOK`, `DataIsWhatWasAsked`, `StatusIsOwn`, `NoCircularWait`, `UsesCache`, `UsesRenderer`, `ImplementsService`, `HandlersGetOn`, `EveryRequestAnswered` | requests do not mix, across threads and across time; the composition refines its parts and implements `NetCDFService`; every step of a handler brings it nearer to its reply; nothing deadlocks across both mutexes, the pipe and the file |
| `server_status` | 2 threads, 2 requests | `DataIsNotAnError` (violated) | status 500 sticks to a thread |
| `connection` | 2 connections, 2 requests in 9 forms on one, silence on the other, a deadline of one tick, ids up to 3, fair loop | `TypeOK`, `OneDeadline`, `DeadlineUnlessRobbed`, `BodyLostOnlyToBareHead`, `NoWaitAfterClose`, `OnlyStaleIdsRob`, `DeadlineNotPutOff`, `KeepsExchange`, `SilentClientIsDropped` | the connection implements `HttpExchange`; its deadline is one, is there, is not put off and closes a silent client, unless another connection erases it |
| `connection_deadline` | the same | `WaitingHasDeadline` (violated) | a deadline can be erased by a connection that has lost its own |
| `worker_pool` | 3 workers, 4 connections, 1 failed accept, fair threads | `TypeOK`, `GivenToReady`, `StopReachesAll`, `TakesTurns`, `StopGetsOn`, `EveryStartRuns`, `StopEnds` | ready workers only, strict turns, failing accepts included; every connection is started once; no worker is lost before it is stopped, and every thread ends |

Bounds, and why they are enough:

- *Threads.* Three in the cache, so that two can lose the race to a third; two
  elsewhere: the shared objects are a mutex, a figure, a pipe and names, each
  fought over by a pair. Crow never runs fewer than one worker besides the
  acceptor (`app.h:359-365`).
- *File* bounds the names in use at once, by calls, drawings and files left
  behind. With all taken no image is requested; two let both threads draw, or
  one while the file of an earlier failed request is around.
- *Slice*: `image_render` has two slices that can be drawn, so that a picture can
  be another request's (one that takes no lock serves it, which is the mutant of
  `OwnImage`), and one that is empty. `s1` and `s2` stand for any two: the
  code looks at nothing of a slice but whether it is empty.
- *MaxPolls* (20 in the code) is 1: the counter only decides when to give
  up, and giving up is possible at every look, since a thread may wake up late.
- *PipeCap* 1: full and empty both occur. *WholeSize*: 2 in
  `image_partial`, a picture that is absent, empty, partial, complete; 1 in
  `image_render`, whose properties tell only absent, empty and not empty apart.
- *MaxPairs* 3, so that a request that is accepted can name a key twice, with
  targets of up to 4 pieces; *IntHalf* 2: below, at and beyond each limit, with
  every order of duplicates. Two pairs in the server, where the targets are few.
- *MaxRequests* 2: stale state of a thread needs two requests on it, a race
  one on each.
- *Connections* 2: one that has lost its deadline and one that it robs. A chain
  (the robbed one robs a third) needs three and more ids than TLC can afford
  here; the theorem `RobbersWereRobbed` covers it. *Budget*: two requests, so
  that what the first leaves behind (`skip_body`, `close_connection_`, the
  parser) meets the second; the eight forms reach every guard of the callbacks.
  *MaxId* 3: two connections and a restart of the ids. *Timeout* 1: a deadline
  that has not begun to run out, and one that is due.
- *Workers* 3 and four connections: one worker has two, and there is one that
  is neither first nor last. One failed accept: it leaves a gap in the counts.

Deadlock is checked except in the runs of `NetCDFServer`, `Connection` and
`WorkerPool`, which end when the requests are used up, the connections are
closed, the threads have ended.

*Fairness.* Weak fairness of each thread's steps once it is in a handler: the
operating system runs it. No thread is promised to get a mutex that others keep
taking, so `PendingAnswered` is about streams of requests that pause and
`EveryRequestAnswered` is checked with finitely many. Requests need not arrive. gnuplot is fair
only where it is named; `WaitEnds` holds without it. `image_stall` grants
strong fairness of the mutex so that the counterexample is not about that.
In `Connection` the clock advances (weak), and `Start`, `Tick` and the end of a
read on a closed socket are strongly fair: each is posted to the queue of the
io_context, which is served in turns, but is disabled while another handler
runs. A handler ends (weak): its buffer has an end. Clients owe nothing. In
`WorkerPool` each thread is weakly fair; the signal and new connections are not.

## Findings

1. `netcdf_server.cpp:112`: a failed extraction is moved into the cache and
   served from then on (`info_cache_error`). The file is opened once at the
   start, so a transient error becomes permanent.
2. `netcdf_server.cpp:599`: `save` writes to the pipe under `png_mutex` and
   before the timed wait. If gnuplot stops reading, the thread and all later
   requests for images wait without a limit (`image_stall`).
3. `netcdf_server.cpp:496`: a file is taken for complete when it has one byte
   (`image_partial`).
4. `netcdf_server.cpp:533`: parameters after the 256th pair are not rejected
   (`request_foreign`).
5. `netcdf_server.cpp:568`: `responseCode_` is never set back to 200
   (`server_status`).
6. `task_timer.h:143`: ids start again at 0 when no task is left, while a
   connection that its deadline has just closed still holds its id and cancels
   it when its read ends. A connection accepted in between has that id, and
   waits for its client without a deadline (`connection_deadline`).

What the models also show, where no document of the repository says otherwise:

- A `HEAD` over HTTP/1.1 without a host is answered 400 without `res.end()`, so
  `skip_body` stays, and the next `GET` of the connection gets no body
  (`BodyLostOnlyToBareHead` says that this is the only way to lose one).
- Requests that come in the same read after one with `Connection: close` are
  answered too, and the last of them decides whether the connection is closed:
  `close_connection_` is overwritten by each (`http_connection.h:151`) and looked
  at once, at the end of the read. `http_request.h:46` says of it "Whether or not
  the server should shut down the TCP connection once a response is sent"; for
  all but the last request of a read that is not what happens.
- The parser takes versions other than 1.0 and 1.1 (`0.9`, `2.0`), and for them
  `set_connection_parameters` never asks for the close, as its comment says
  ("HTTP?.? = never close", `parser.h:178-181`): such a client is waited for even
  if it sent `Connection: close`. `NoWaitAfterClose` says that this and the
  requests behind it in the same read are the only ways in which a client's wish
  for the close, once answered, is not heeded.
- A url that a read cuts inside its path, or between the path and the question
  mark, is answered 404: `on_url` looks up what has come so far, and `qs_point`
  is not seen at the start of a later read.
- Answers 400, 404 and 500 have a body, to a `HEAD` too.
- An upgrade to a protocol other than h2 is not answered; the connection is
  closed after the read.
- The count of a worker is never lowered when a connection ends: workers are
  chosen in turns, not by load (`TakesTurns`, `CountsAreGiven`).

## Proofs

tlapm checks every obligation; nothing is assumed but the named ASSUMEs on the
constants: `Nobody` is no thread, `NoFile` no name, limits are positive, the
dimensions fit an `int`, and a value is at most one number.

- `InfoInvariant`: `InfoSpec => []InfoInv`. `InfoInv` is inductive: types;
  `LockInv` ties `readers` and `writer` to where the threads are, which makes
  the exclusive section exclusive; `ValueInv` says that result and response
  agree until the move and that the cache holds the publisher's value while it
  publishes. `CacheFilledOnce` and `CacheImplementsCell` follow: a step that
  sets the cached value is taken by the writer, who has seen the flag unset.
  The refinement maps the cell to the cached value once the *flag* is set; the
  move alone is a stutter, and `ValueInv` gives the value at the flag's step.
- `ImageInvariant`: `ImageSpec => []ImageInv`. `OwnImage` alone is not
  inductive. `MutexInv` gives that the figure saved is the one just drawn;
  `NameInv`, `PipeInv` and `FileInv` that a name belongs to one call, one
  drawing, one file, and that the names of calls are not abandoned ones;
  `SliceInv` carries the slice from the grid through pipe, file and buffer to
  the reply. `EveryoneTheirOwnImage` and `OnlyErrorsLeaveFiles` are
  consequences.
- `AcceptedAsAsked`: `CheckSpec => []AcceptedIsWhatWasAsked` for any width,
  limit, dimensions and set of targets. The lemmas (`RequestParamsProofs`): the kept pairs are a prefix;
  the first occurrence in the prefix is the first in the target (least element
  of a set of numbers); an index that passes the range check was not wrapped,
  which needs that a dimension fits an `int`.
- `ServerUsesCache` and `ServerUsesRenderer`: the composition implements its
  parts, without any assumption about how the threads are scheduled. Every step
  of the server is a step of the part, a failure that sets the thread's status
  (`ElsewhereFails`) or leaves the part alone; the case analysis needs
  `PlaceInv`, that a thread is in at most one handler. With them what is proved
  of the parts holds in the server (`ServerInfoInv`, `ServerImageInv`,
  `PartsKeepTheirPromises`); that the modules of proofs, instantiated beside the
  server, speak of the same variables is `SameCache` and `SameRenderer`.
- `ServerTypes`, `NoMixedRequests`, `OwnStatus`: the invariants of the
  composition. `DataIsWhatWasAsked` looks only at replies; `AskedBy` says for
  each place of a handler where the slice that was asked for is at that time:
  in the indices, in the result, in `concentrationData_` *and* the result (a
  failed extraction leaves the data of an earlier request, which is harmless
  only because the result is an error), in the grid, in the reply. `OthersKeep`
  shows that a step of one thread leaves all of this of another alone,
  `AcceptedAsksFor` that what is accepted is what was asked, and `OwnImage` of
  the renderer carries the slice from the grid to the reply. `StatusIsOwn`
  needs that a response built in `handleGetInfo`, which is returned later,
  already has the thread's own status. They assume that the
  data file has at least one value in each dimension.

- `ServerImplementsService`: the composition implements `NetCDFService`, with
  the cache, the renderer, the locks and the thread_local data left out. A
  request is what a thread that is not idle is at; a thread is spoiled when its
  `responseCode_` is 500. Replies are returned after the step that decided
  them, so each has to be explained at the moment it is returned: `ServedBy`
  says that a handler which got past the parameters has a target that
  `WellFormed` accepts, as far as the limit of pairs lets the code see it;
  `CodeKept` that the code in a response which is built but not yet returned is
  still that of its thread. `BufferInv` of the renderer adds that a picture
  about to be returned was read from a file, so that status 200 never comes
  without one. With
  `AskedBy` (above) each return is then one `Fulfil` or `Fail`, a failure
  inside `handleGetInfo` a `Spoil`, and everything else leaves the service
  alone.
- `NobodyWaitsInCircles`: `[]NoCircularWait`, from the lock discipline of the
  two parts. A thread that holds a lock others wait for is inside its own
  handler and waits for none: the shared lock of the cache is gone before the
  exclusive one is asked for, and no return keeps a lock.
- `HandlersEnd`: `HandlersGetOn`. The measure `StepsLeft` is a natural number
  that every step of a thread inside its handler lowers and no other step
  changes, so a handler ends after a bounded number of its own steps. This and
  `NobodyWaitsInCircles` are the safety half of `EveryRequestAnswered`; what is
  missing is that a step is taken (fairness, ENABLED, room in the pipe), which
  is TLC's part.

- `NothingEmptyServed`: `NoEmptyImage`. The file is seen not to be empty, opened
  and read in three steps, between which other calls and gnuplot go on; that
  gnuplot does not truncate it again needs that no drawing of its name is left
  in the pipe (`PipeInv`), that nobody removes it that its name is this call's
  (`NameInv`). `BufferInv` carries it from the read to the reply.
- `NoMovedFromAnswer`: `AnswersHaveMembers`, from `ValueInv`: a response is
  built before its result is moved, and a cache whose flag is set has content.
- `ExactlyWellFormed`, `CheckTypes`: the verdict is "accepted" exactly for
  well-formed targets. From left to right as in `AcceptedAsAsked`; from right to
  left, the first occurrences lie in the kept prefix, their conversions do not
  throw, and no foreign key is among the kept.
- `OneDeadlineAtATime`, `WaitsUnderDeadline`, `RobbersWereRobbed`: from
  `DeadlineInv`, which is inductive. A connection has at most the task of its
  own id; a connection whose id is that of another's task is closed or robbed
  (`StaleInv`); the id of one that is neither is at most `highest_id_` and so
  is not issued again (`LiveIdInv`); the ids start again only when no task is
  left, so when nobody is left whose id counts.
- `NobodyIsPutOff`: `DeadlineNotPutOff`, from the same invariant. Other
  connections cancel and schedule on the same timer; the task of one that waits
  keeps its id and never gets more time, and only `Tick` takes it, which closes
  the socket. It is the safety half of `SilentClientIsDropped`.
- `ExchangeKept`: the connections implement `HttpExchange`. `ExchangeInv` says
  how far each is with what it was asked: before the end of a url nothing is
  owed, behind it one answer, to the request that the parser holds; after a
  refusal nothing is parsed, and neither is anything after a complete message
  that was not answered. Each callback is then one abstract step: `Takes`,
  `Refuses`, `Answers`; every other step leaves requests and answers alone, or
  is a `Break`.
- `BodyLostOnlyAfterBareHead`, `ClosedAsAsked`: from `HistoryInv` above
  `ExchangeInv`. It explains a `skip_body` that is set by the HEAD that is
  parsed or by one that was answered 400 with nothing but 400s since.
  `CloseExplained` says of each answer of the current read to a client that asked
  for the close: the handler that still runs knows that it has to close, or has
  refused the rest, or a request that the connection survives was answered since,
  that one included. A read begins with nothing to explain, an answer that leaves
  `closing` unset explains all before it, and every other step keeps what was
  explained (`CloseKept`). With `ClosingHeeded`, that no wish for the close
  outlives its handler, it gives `NoWaitAfterClose` once the client is waited for.
- `PoolTypes`, `OnlyReadyWorkers`, `CountsAreGiven`, `FairShares`: from
  `PoolInv`. Without the pending accept the counts differ by at most one, and
  the worker of the pending accept has a least count; the phases of `main` tie
  the counts to the timers that have been published. `NaturalLemmas` has the
  arithmetic. What the last two say of the counts, `CountIsGiven` and
  `Balanced`, is part of this proof and not of a run: a run sees it through
  `TakesTurns`, which a wrong count breaks.
- `GivenInTurns`: the pool implements `TurnTaking`. `LowestInv` is not enough
  for it: it leaves open which of the workers with the lowest count is next.
  `TurnInv` says that the counts without the pending accept are one higher
  exactly below the worker whose turn it is, so that the first lowest count is
  his, and after him the next one's; a failed accept gives the turn back.
  `PostedInv` says that a connection is queued at most once, and on its owner
  only, so that taking it from the queue starts it once.
- `EveryWorkerStopped`, `JoiningEnds`: `StopReachesAll` and `StopGetsOn`, from
  `HaltInv`: the io_contexts are stopped in order, all of them before the
  workers are waited for, and a worker leaves its loop only when its own is
  stopped. From then on each worker has at most two steps to take
  (`StepsToEnd`): the safety half of `StopEnds`.

Only model-checked: liveness (`EventuallyCached`, `PendingAnswered`, `WaitEnds`,
`MutexReleased`, `EveryRequestAnswered`, `SilentClientIsDropped`,
`EveryStartRuns`, `StopEnds`), since the prover has no ENABLED, and the violated
properties. Every invariant, every action property and every refinement of a
passing run is proved. The liveness properties whose bounded half is proved are
`EveryRequestAnswered` (`HandlersGetOn`, `NoCircularWait`), `StopEnds`
(`StopGetsOn`, `StopReachesAll`) and `SilentClientIsDropped`
(`DeadlineNotPutOff`).

## Not modelled

- The order of preference of `std::shared_mutex`: any thread that can take the
  lock may. Starvation of a writer while readers keep coming is therefore
  allowed, and excluded from the liveness properties.
- Data races inside the NetCDF C library, which several threads call without a
  lock on the one `dataFile_`: external code, undefined in effect.
- The numbers in a slice, the text of JSON, headers, logging.
- In the connection: completion of a response after its handler has returned
  (`need_to_start_read_after_complete_`), static files, compression, TLS and the
  WebSocket behind an upgrade, none of which the program uses; the keep-alive
  header of answers; the difference between 404, 405 and the 204 of OPTIONS.
- The byte automaton of `http_parser_merged.h`, vendored from elsewhere: any
  bytes may be refused, at any callback.
- The trie of the router: the program has three literal routes.
- In the pool: the tick function and `wait_for_start`, not used here.
- Connection and handlers are not composed in one model: a handler answers in
  one step of `Connection`, and the delay between is that of `NetCDFServer`.
- The other parts of Crow and the libraries listed as not modelled in
  `PROJECT.json`. Nearly all lines under `src/` are headers of vendored
  libraries (asio, matplot++, NetCDF); the models cover the server's own code
  and what of Crow runs for it.

## Plan

1. (done) `OnceCell`, `InfoCache`, `ImageRender`, `RequestParams`,
   `RequestCheck`, `NetCDFServer`, their runs, and the proofs of the parts
   and of the composition.
2. (done) `TaskTimer`, `HttpExchange`, `Connection`, `WorkerPool`, their runs,
   and the proofs of their invariants and of the refinement.
3. (done) The abstract services `NetCDFService` and `TurnTaking` with the proofs
   that they are implemented, and the bounded halves of the liveness properties
   (`HandlersGetOn`, `NoCircularWait`, `StopGetsOn`, `StopReachesAll`,
   `DeadlineNotPutOff`), proved.
4. Open, in this order: the bounded halves of `EventuallyCached` and
   `EveryStartRuns` (what has to happen on a worker before a connection that is
   queued there is started), and the frame that joins `WorkerPool` and
   `Connection`, so that a connection that a worker is given is one that its loop
   serves; the trie of the router against a list of rules.
