# zcpkgs: a TLA+ verification project

This directory holds TLA+ models of the concurrent core of zcpkgs and of the parts
of its library that keep state or compute something easy to get wrong, the TLC
configurations that check them and TLAPS proofs about them. All paths below are
relative to `src/`; a file without a directory is under `src/pkgs/`.

## 1. The system

zcpkgs is a set of C++ packages for networked audio and video programs, and a
few programs built from them. Everything of its own that keeps state:

| Component | State | Operations | Interacts with |
|---|---|---|---|
| **event loop** `pkgs/zio/event_loop_impl.*`, `wake_up.*` | `async_tasks_` under `task_mtx_`, the non-blocking wake-up pipe, the swapped-out batch | `run`, `async`, `on_wake_up`, `wake_up`, `in_event` | every thread posts; the loop thread drains |
| **timers** `event_loop_impl.*`, `events.cc` | the multimap `time_after_tasks_`, each task's atomic `canceled_`, each timer's `weak_call_` | `event_timer_t::reset/cancel`, `add_time_task`, `execute_time_after_task` | insertions travel through the task queue; the pass yields the poll timeout |
| **epoll poller** `epoll_poller.*` | the kernel's epoll set, heap entities, `retired_`, `load_` | `add_fd`, `rm_fd`, `set/reset_in/out_event`, `poll` | handlers call back into the poller from inside a batch |
| **events_ctx** `events.cc` | static default loop, thread-local loop, pool, two `once_flag`s | `default_loop`, `create_this_thread_loop`, `create_loop_pool`, `run_loop` | threads start loops, loops run user code that asks again |
| **socketproxy** `app/socketproxy` | io_contexts, the map of pairs, two buffers per pair | `do_accept`, `start`, reads and writes, `on_close_` | main thread and pool threads share the map |
| **option parser** `zpkg/opt_flags.*` | the values of each option, the unknown options, the other arguments | `parse`, `reset` | none |
| **byte streams** `zpkg/buffers.*` | a position in a range of memory | `peek`, `read`, `write`, `skip` | none |
| **hashes** `zpkg/hash/*` | a buffer, a count, the state | update, finish, reset | none |
| **base64** `zpkg/base64.cc` | none | encode, decode | none |
| **log limits** `zlog/log.h` | a static atomic for each place a macro is used at | `LOG_COUNTER_C`, `LOG_INTERVAL_T` | every thread that passes the place |
| **HTTP authentication** `iom/http.*` | a challenge's parameters, the nonce count | parse a challenge, answer it | a server |
| **DTS generator** `zav/object/av_pts_dts.*` | the sorter, what it learnt of the stream, the last PTS and DTS | `GenDts` | a stream of frames |
| **m3u8** `zav/proto/hls.*` | segments, durations | parse, take a period, merge | none |
| **NAL scanners** `zav/codec/h26x.*` | none | find and skip NAL units | none |
| **G.711** `avm/codec/g711.*` | none | A-law and u-law to samples and back | none |
| one-shots, singletons `zpkg/concurrent.h`, `singleton.h` | a flag, a mutex and a condition variable | `shot`, `wait` | none: the one-shot is instantiated nowhere |
| ciphers, CRC, G.722, AAC headers, RTP, RTSP, ONVIF | local | conversions and formatting | none |
| file, socket, process and time wrappers | none | system calls | the kernel |

### What is hard, and what makes each component correct

* **Event loop.** A poster appends under the lock but writes the pipe outside of
  it; the loop empties the pipe and swaps the queue in two steps as well; the
  pipe can be full; tasks post, to other loops and through timers to their own;
  a task can throw. Correct: no loop sleeps while it has tasks, each poster's
  tasks start in its order, none twice, none lost except behind a throw, and
  every one settles.
* **Timers.** Deadlines are computed by the caller, inserted later by the loop,
  compared with a clock read once per pass; that clock is `gettimeofday`, which can be
  set, while `epoll_wait` counts its timeout by one that cannot. Cancellation is an
  atomic flag read before the call. Correct: one live task per timer, in one place,
  early or late by no more than the clock was set and the pass took, in deadline
  order, final cancellation on the loop's thread, and a callback in the end.
* **Epoll poller.** Events hold raw pointers, and handlers remove, close and
  re-register descriptors while the batch is running; the kernel may refuse a
  descriptor. Correct: no dangling
  pointer, no call to a removed registration, epoll set and entities in step,
  each removed entity freed once.
* **events_ctx.** Threads race for the default loop and the pool. Correct: one
  default loop, one pool of the size its creator asked for, no call that hangs,
  a loop run only by its own thread.
* **socketproxy.** Two chains of operations per connection share one object that
  the first error deletes; one map is shared by all threads. Correct: bytes in
  order, both directions alive while the connection lives, an error closes, the
  map holds exactly the pairs that exist.
* **Library.** Little is concurrent here; what is hard is long sequences of legal
  calls, boundaries and conversions. A log macro is several atomic steps, and
  threads that meet in it disturb the counter or the time. A client's requests and a
  server's challenges overtake each other while the nonce count belongs to the last
  challenge. A message is hashed in pieces that end anywhere in a block. An option takes
  the argument behind it, from inside a group of letters. A duration is kept for a path
  that may never come. DTS are guessed from PTS out of order. Signed steps are compared
  with unsigned distances. Scanners skip three bytes at once. The properties say what the
  result must be in terms of the input, not of the steps that computed it.

`PROJECT.json` lists every hazard at its line with the properties that cover it.

## 2. The plan

Modules in the order of their importance; all of them are built.

| Module | Of | Abstract specification or reference | Proofs |
|---|---|---|---|
| `EventLoop` | the loop, the queue and the pipe | `Mailbox` | `EventLoop_proofs`, `SeqLemmas` |
| `Timers` | timers over a mailbox of insertions | | `Timers_proofs`, `SeqLemmas` |
| `EpollPoller` | registrations and batches | | `EpollPoller_proofs` |
| `EventsCtx` | threads and loops | | `EventsCtx_proofs` |
| `SocketProxy` | connections | an ordered sequence of pieces per direction | `SocketProxy_proofs`, `SeqLemmas` |
| `DigestAuth` | `iom/http.cc` | a server that checks as RFC 2617 and 7616 ask | `Text_proofs` |
| `LogCounter`, `LogInterval` | `zlog/log.h` | | `Library_proofs` |
| `ByteStream` | `zpkg/buffers.cc` | a position in `0 .. Size`, left only backwards from the head | `Library_proofs` |
| `OptionParser` | `zpkg/opt_flags.cc` `parse` | `Meaning`, by position | `Text_proofs`, `SeqLemmas` |
| `HashStream` | `zpkg/hash/*` | `Padded`, the padding of the standards | `Library_proofs`, `SeqLemmas` |
| `DtsGen` | `zav/object/av_pts_dts.cc` | | `Library_proofs` |
| `Playlist` | `zav/proto/hls.cc` | the paths with a duration, in order, up to rounding | `Text_proofs`, `SeqLemmas` |
| `NalScan` | `zav/codec/h26x.cpp` | the first start code, the first unit taken | `Library_proofs`, `SeqLemmas` |
| `Companding` | `avm/codec/g711.cc` | nearest code | |
| `Base64` | `zpkg/base64.cc` | identity | `Text_proofs`, `SeqLemmas` |

`Timers` composes with `EventLoop` through `Mailbox`: its `queue` keeps exactly
what `Mailbox` promises and `EventLoop` is shown to implement. `EpollPoller` is
the body of `EventLoop`'s `PollWakeUp`/`PollOther`/`InEvent`/`PollDone`. The modules
from `DigestAuth` on are independent of each other, as their code is; `MCLibrary` puts
them side by side for one run. No module uses a `RECURSIVE` operator, so what a recursion
or a fold computes can be proved with an induction over sets of numbers (section 5).
`SelectSeq` is written with `FlattenSeq` for the same reason. `Companding` (bitwise
operators, over a range small enough for TLC to go through) stays model-checked.

## 3. The modules and the code

In every module an operator whose name starts with `Faulty` (or `faulty_`) is a
seeded fault: a plausible bug in the code of the operator it precedes. It is used
by no specification; put in that operator's place it makes one property fail,
which shows that the property is able to fail.

### `EventLoop.tla`, `Mailbox.tla`

Each loop thread goes through `timers -> poll -> dispatch -> drain -> swap -> run
-> task`. A critical section of `task_mtx_` holds a single operation on
`async_tasks_` and is one step. Everything other threads may observe between is
a step of its own: the push and the pipe write (`Push`, `WakeUp`), every `read`
(`ReadSome`, `ReadAgain`), the swap, every task.

| TLA+ | code |
|---|---|
| `async_tasks`, `pipe`, `swap_task` | `async_tasks_`, bytes in `pipe_fd_`, the local of `on_wake_up` |
| `readable` | the pipe's entry in `events[]` |
| `waking[t]` | thread `t` is between the unlock and `write` |
| `posted`, `started`, `dropped` | history |
| `Async`, `AddTimeTask` | `event_loop_t::async`, `event_loop_impl::add_time_task` |
| `PollWakeUp`, `PollOther`, `InEvent`, `PollDone` | `epoll_poller::poll` |
| `SwapTasks`, `StartTask`, `TaskReturns`, `TaskThrows`, `WakeUpHandled` | `on_wake_up` |

Tasks and callbacks may post at any moment they run. `async` on the loop's own
thread calls inline and changes nothing here. `PollOther` requires an empty pipe,
because a level-triggered descriptor with data is in every batch as long as fewer
than 1024 others are ready. The EOF branch of `in_event` needs a closed write end,
which the loop holds itself.

`Mailbox` is what posters may rely on: `Post` appends, `Start` takes the front,
`Abandon` drops a stretch at the front. The refinement maps `pending` to
`swap_task \o async_tasks`.

### `Timers.tla`

`pc` follows `execute_time_after_task` and the poll: `pass`, `scan` (the head of
the loop body), `call` (`canceled_` about to be read), `invoke` (it was false),
`callback`, `poll`, `events` (handlers and tasks). A reset stamps its deadline and
queues the insertion in two steps (`Reset`, `AddTimeTask`). `on_wake_up`'s batch is
the front of `queue`; `TaskThrows` drops its rest. `ToInt` is the narrowing at
`event_loop_impl.cc:158` with a span of `IntSpan` values. A timer belongs to one
thread, as its unsynchronised `weak_call_` demands.

There are two clocks. `now` only advances; `epoll_wait` counts its timeout by it
(`Poll`). Deadlines and readings are `times::now_ms`, which is `gettimeofday`: `now_ms` is
`now + shift`, and `SetClock` sets `shift` to any other value of `Shifts` at any step, which
sets the clock forward or back. `read_shift` is what it was at the pass's reading, so
`pass_ms` is the time by the clock as the pass has read it. What the code can promise is
about that reading: a callback is not early by it (`NotEarly`), and the sleep ends in time but for
what the clock is set forward after it (`SleepIsBounded`).

A callback that throws something else than a `std::exception` ends the program and is left out.

### `EpollPoller.tla`

An entity is the heap block it lives in, and blocks are reused after `delete`, so
a use after free is visible as an event whose block was freed or reborn (`birth`).
`CallHandler` is one call poll makes; between it and `HandlerReturns` the handler may
add, remove and modify anything. `add_fd` is three actions: the kernel takes the descriptor
(`add_fd`); it refuses it in a build with `NDEBUG`, where the caller gets a handle
that is registered nowhere and `load_` counts it (`AddRefused`); or it refuses it and `Z_ASSERT`
throws, which leaks the entity (`AddThrows`). Both builds are in one specification,
because nothing else tells them apart. Epoll's own behaviour is in `EpollWait`: any
non-empty set of registered descriptors, each with any non-empty subset of what it
is watched for and of error.

### `EventsCtx.tla`

Threads move between the program's code and the places inside `default_loop`,
`create_loop_pool` and the pool's thread function. `call_once` lets one thread in
and holds the others. `SecondLoop` is the `Z_ASSERT(!tls_loop_ptr)` of a debug build.
`VectorRace` ends an execution in which two pool threads are in `emplace_back` at
once: its outcome is undefined. The first read of `default_loop_ptr` races its
assignment; on the platforms the project builds for a pointer is read whole, and
the reader either sees it or goes on to `call_once`.

### `SocketProxy.tla`

asio is external: `ops` are outstanding operations, `done` completed ones whose
handlers are queued; a handler is one step of the thread of its io_context. Data
is numbered pieces; `buffer` is what the direction's array holds, so a read that
overwrites it before the write is seen. `OnClose` deletes the pair, erases its
entry and aborts what is outstanding. Four kinds of undefined or fatal behaviour end
an execution: a handler that runs after its pair was deleted (`StaleHandler`), the
lambda that destroys itself (`CloseReadsFreed`), the unlocked map (`MapRace`), the
exception out of the accept handler (`AcceptedThrows`).

### `DigestAuth.tla`

The client is `HttpAuthenticator`: `parames_` its parameters (type, algorithm, nonce
count, qop, realm, nonce, cnonce), `ParseChallenge` the parsing of a challenge including
the `Clear` before it, `Request` the making of an Authorization header (`response`,
`Authorization`) with the increment of `nc` behind it (`NextCount`). With an empty realm or
nonce the header is empty and `nc` stays. A digest is the name of a hash and what was
hashed; hashes are taken for one to one, except that a SHA-256 digest with a zero
byte is another one (`hash_cb`), as `sha.cc:298` cuts it. `HasZero` says which texts these
are; in the run they are those of the second nonce and the keys of the sessions of
the second request.

The server is not in the repository: `Verdict` is what RFC 2617 and 7616 ask it to check.
It computes what it expects by itself (`Expected`), with the hash the algorithm's name
stands for, the key of a session, the entity of the request and the qop from the list, and
shares no operator with the client. `Serve` accepts a request or answers with a
challenge and a fresh nonce. `Deviations` lists in what the client does something else
than the RFCs for an offer. Requests and challenges are sets, so they arrive in any order;
`Lose` drops one, `Expire` ends a nonce.

### `LogCounter.tla`, `LogInterval.tla`

Each thread goes through the atomic operations of the macro one by one:
`++LOG_OCCURRENCES_MOD_N > COUNTER` (`Occur`), `-= COUNTER` (`TakeBack`), `== 1` (`Check`);
the clock read (`Sample`), the load (`Load`), the store with the line (`Store`). `quiet` and
`lines` are history.

### `ByteStream.tla`

`pos` counts from `start_`; `SizeT` is the conversion of an int to `size_t`, with `Span`
for 2^64, and `minusLapped` is `-1 * lapped()` computed in that type. Any step is taken, also one
backwards at the head, which leaves the stream (section 6); from then on the cursor goes
where the code takes it, as far back as `MaxStep` allows.

### `OptionParser.tla`

`parse` is a loop over `argv`; each turn is one action, by the form of the argument: `--`,
a long option, a group of letters, a plain argument. `Advance` is the skip of an argument that
was taken. `Fails` stands for the exceptions of `Option::parse`; an exception leaves the values set
so far. `ParseReturns` is what is behind the loop, the check for required options. Option
names are unique, as `add` enforces (`OptionAssumption`).

### `HashStream.tla`

`Absorb` is the body `sha::update` and `MD5::update` share; the three classes pad in three ways
(`md5_finalize`, `sha_pad`, `sha1_pad`). The transforms are left out: the sequence of blocks
handed to them stands for the state. Byte `i` of the message is the number `i`, so a byte in the
wrong place, of an older block or never written is seen. `WordSpan` is the 2^32 of MD5's two
words.

### `DtsGen.tla`

`gen` holds the object's fields. `Counted` is what it does until it knows how many B frames lie
between two others, `GenDts_l` the sorter behind it, `GenDts` the wrapper with the repeated PTS
and the cut to it. The stream is the environment: a first frame, then groups of one P frame
and the B frames shown before it, in any order, each in any number of pieces (`SamePts`).

### `NalScan.tla`, `Playlist.tla`, `Companding.tla`, `Base64.tla`

Pure functions over an input that the next-state relation enumerates. A scanner is `Scan` with its
rule of how far to jump (`memcmp_jump`, `seq_jump`, `sbm_jump`). `ParseLine` is one turn of the
loop of `m3u8_parser::parse`, folded over the lines; a line is its tag with the value. Paths
and urls are sequences of names, `":"` and `"/"`, so that `join_ts_url` searches them as the code
does, while `Address` says from the parts of the url what should come out. Times are integers
in a unit of which floats and printed numbers are multiples: `Float` rounds to a float, after `strtof`
and after each sum, `Printed` to the six digits of `operator<<`. `Floats` and `Decimals` are any
sets of which `NumberAssumption` says only what the properties need: printing keeps a
float from becoming 0, and up to `Horizon` a float is within `Err` of any number. `Companding` keeps `int16_t` and the bit tricks (`Int16`,
`SegmentOf`). In `Base64` a character is its index.

### `MCLibrary.tla`

`part` says which of the modules above runs; `OnlyMoves(p)` keeps the variables of all others as they
are. Each module also has its own specification (`HashSpec`, `OptionSpec`, ...), to which
the theorems refer.

## 4. The runs

| Run | Bounds | Shows |
|---|---|---|
| `event_loop_queue` | 1 loop, 2 threads, 2 posts each (also of the loop to itself), pipe of 2 bytes, reads of 1 | `NoLostWakeUp`, `PosterOrder`, `TasksConserved` hold |
| `event_loop_mailbox` | 2 loops posting to each other and to themselves, 1 post each, pipe of 1 byte | the loop implements `Mailbox` with its fairness; `TaskSettles` |
| `event_loop_flush` | as the first, 1 post each | **violation** of `TasksFlushed`: a throw drops what is behind it |
| `timers` | a timer of the loop and one of a thread, 2 resets, intervals 0 and 2, clock to 4, the system's set 0 or 2 ahead at any time | six invariants and `EarliestFirst` hold |
| `timers_live` | the same, interval 1, clock to 3, the system's 0 or 1 ahead | `PassEnds`, `ResetFires`, `TrueRepeats` |
| `timers_overflow` | an int of 4 values, a clock that is not set | **violation** of `SleepIsBounded`: a far deadline becomes a negative timeout |
| `epoll_poller` | 2 descriptors, 3 blocks, 3 registrations, batches of 2, the kernel refusing any of them | the four invariants and `HandlerIsRegistered` |
| `events_ctx` | 2 program threads, 2 pool threads, counts 1 and 2, 4 loops | `OneDefaultLoop`, `OnePool` |
| `events_ctx_live` | 2 program threads, 1 pool thread | `CallsReturn` |
| `socket_proxy` | 3 pairs, 2 pool threads, 2 pieces each way | `StreamOrder`, `MapInStep`, `BothDirectionsMove`, `FailureCloses` |
| `socket_proxy_close` | 2 pairs, 1 piece | **violation** of `PairIsFound`: the aborted handler closes again |
| `library` | each part by itself, below | the ten properties of the library, below |

The parts of `library`:

| Part | Bounds | Property |
|---|---|---|
| `HashStream` | blocks of 4 bytes, 2 of them for the length, messages of up to 11 bytes in pieces of any size, 2 messages; bit counts modulo 64 | `HashesPaddedMessage`: all three classes hash exactly the padded message |
| `OptionParser` | 4 options of all kinds, 13 forms of arguments, 3 arguments on one or several command lines | `ParsedByPosition`: a command line means what its positions say |
| `ByteStream` | 5 bytes, steps of up to 7 either way, `size_t` of 64 values | `SkipReachesEdge`: only a skip backwards at the head leaves the stream; any other goes as far as asked or to the edge |
| `LogCounter` | 3 threads, `COUNTER` 2 | `SilenceIsBounded`: threads that meet do not silence the place |
| `LogInterval` | 2 threads, period 2, 8 ticks | `LinesPerPeriod`: racing threads log a bounded burst |
| `DtsGen` | up to 3 B frames, 5 groups, streams that start at 0, 2 or 5 | `DtsIncreases`: DTS increase and none is cut to its PTS; with 4 B frames one is (section 6) |
| `NalScan` | buffers of up to 10 bytes over {0, 1, 6} | `UnitsFound`: the three scanners find the first code, the skipper the first supported unit |
| `Companding`, `Base64` | all 256 codes and 65536 samples; up to 7 bytes of {0, 97, 255} | `ConversionsKept`: what was converted converts back |
| `DigestAuth` | 2 nonces, 3 requests, 10 offers, with and without an entity | `NeverTakenForAnother`: no request counts as repeated or of a strange nonce, and as wrong only where the client deviates |
| `Playlist` | 8 lines, up to 5 of them in up to 2 playlists; 80ths of a second, floats of four binary digits, numbers printed with one decimal digit; periods that begin and end at 0, 1 or not | `PlaylistsRead`: a merged playlist reads as its parts, each duration as printed and read again; its target covers them; a period takes the segments it touches, up to the rounding of the sums |

Why the bounds are enough. A pipe of one or two bytes is full as soon as two
posters meet, and a read of one byte leaves a rest that a poster's write can join;
both a second batch and a re-entrant post need two posts. Two timers and two
resets give every meeting of a cancelled and a live task of one timer, in the
queue, the map and the call; a clock set by as much as the interval makes a deadline
expire at once or a wait twice as long. Three blocks and registrations over two numbers let a
handler remove a descriptor whose event is pending and register the number again in
another block, then in the freed one. Two threads suffice for every race of
`call_once`; a third waits as the second does. In the proxy two pairs share one
io_context and one has the other. Eleven bytes of message are more than two blocks of four and
reach every length modulo a block, with the length in the same block and in one of
its own. Ten bytes of buffer hold two units with codes of three and four bytes, and a jump of three that
starts anywhere before either. Three arguments are an option, the one it takes and one behind it. Two
threads in `LOG_INTERVAL_T` already store an old time over a newer one; three in
`LOG_COUNTER_C` can all increment above `COUNTER` before one takes back. Ten offers have each
of the five deviations, sessions and a scheme that is not digest; two of three requests can
be answers to one nonce. The durations of 22 and 72 units are no floats, 70 printed and
read again is 60, and the sum of 20 and 70 is no float. The theorems lift
the bounds for the safety properties of every module but `Companding`; those on B frames stay.

`CHECK_DEADLOCK FALSE` is set where an execution really may stop: the proxy and
`events_ctx` end in an assertion, an exception or undefined behaviour, or their
threads stop calling; the parts of `library` stop at the
bounds of their inputs.

### Fairness

* `EventLoop`: threads are scheduled, and user code returns (`WF` of each loop's
  steps and of each pending pipe write). Nobody has to post. `PollOther` is not fair:
  `epoll_wait` with -1 need never return without a byte in the pipe.
* `Timers`: the same, time passes on both clocks (nobody has to set the system's, and setting it
  stays between its bounds), and strong fairness of `PollWakeUp`: other
  descriptors may wake the loop between, but a queued insertion has a byte in the
  level-triggered pipe, and each poll reports it; this is what `Mailbox`'s fairness
  gives and `event_loop_mailbox` shows.
* `EventsCtx`: a thread inside a call is scheduled; pool threads are.
* `SocketProxy`: a queued handler runs, because a thread is in `run` of its
  io_context. Nothing is assumed of clients and servers.

## 5. The proofs

`EventLoop_proofs.tla` proves, for any sets of loops and threads, any pipe capacity
and read size and any number of posts, with no other assumption than
`EventLoopAssumption`:

| Theorem | Statement |
|---|---|
| `TypeCorrect` | `Spec => []TypeOK` |
| `WakeUpsKept` | `Spec => []NoLostWakeUp` |
| `OrderKept` | `Spec => []PosterOrder` |
| `TasksKept` | `Spec => []TasksConserved` |
| `MailboxImplemented` | `Spec => Box!Spec` |

The argument. `TypeOK` has two parts: `Types`, and that the swapped-out vector and the event
in hand, which are locals, are empty outside the stretch of code they belong to
(`LocalsInScope`, proved as `SwapIdle` and `EventIdle`). `NoLostWakeUp` is inductive with `Types`: a push makes its poster
pending, the poster's write leaves a byte, a byte only goes in `drain`, and the
`swap` that follows empties the queue. For the others `SwapIdle` is needed, without which the swap could overwrite tasks, and
one more invariant. `QueueInv` speaks of one list per loop, the log
`started \o swap_task \o async_tasks`: its entries are of tasks given out so far, each poster's
numbers increase along it, and with what was dropped it is everything posted. All
steps of the loop leave the log alone (`LogKept`), append a fresh task at its end
(`LogGrows`) or, when a task throws, cut a stretch out of it (`LogCut`); the three lemmas
`SeqLemmas` provides for appending and cutting carry the order and the range
through. The refinement uses the same case split: `Push` is `Post`, `StartTask` is `Start`,
`TaskThrows` is `Abandon` or a stutter when nothing was left.

`Timers_proofs.tla` proves every safety property of `Timers`, for any number of timers and tasks, any
intervals, any bounds and a clock that is set to any of its shifts at any time, from `TimersAssumption`:

| Theorem | Statement |
|---|---|
| `TimersTypes` | `Spec => []TypeOK` |
| `NoTaskLostOrDoubled` | `Spec => []TaskInOnePlace` |
| `OneTaskCallsBack` | `Spec => []OneActiveTask` |
| `CancelFinal` | `Spec => []CancelIsFinal` |
| `NoneEarly` | `Spec => []NotEarly` |
| `InOrderOfDeadlines` | `Spec => EarliestFirst` |
| `SleepBounded` | an interval and a shift of the clock are together below half the span of an `int`: `Spec => []SleepIsBounded` |

They share one invariant, `TimersInv`, in nine parts. `TaskInOnePlace` counts occurrences, which no
step argument can follow, so `PlacesInv` says it with sets: the tasks of the multimap, of
the queue, of the calls of `reset` under way and of the pass do not meet, and a task outside
all of them has ended or was cancelled; `DistinctInv` adds that neither sequence holds one
twice, and `CountPlaces` leads back to the count. `OwnerInv` is why a timer has one active task:
what is left of it is cancelled, or is the task `weak_call_` points to. `LateInv` separates the
loop thread's cancel, which cannot come between the look at `canceled_` and the call, from
another thread's, which can. For the times, `DueInv` bounds every entry from both sides:
it is not before its interval after `since`, which are readings of one settable clock,
and not further ahead of the clock that only advances than its interval and some shift.
That clock is `now` outside a pass and inside one the time at which the pass read
(`Reading`, `now_time - read_shift`): a callback moves the clock but not `now_time`. `Sorted` is kept by the insertion point
alone, and `PhaseInv` ties the loop's locals to its position.

`SleepBounded` is the only one with a hypothesis. It is the code's own: the wait is narrowed to
an `int`, and run `timers_overflow` shows what happens without it. The bound on
the sleep is then `MaxBusy`, what the callbacks of the same pass took after it read the clock, by the clock as it was set
then; `read_shift` in the property is what a clock set back and forth cannot change.

`SocketProxy_proofs.tla` proves the safety properties of `SocketProxy`, for any number of pairs, pieces
and pool threads, from `SocketProxyAssumption`:

| Theorem | Statement |
|---|---|
| `ProxyTypes` | `Spec => []TypeOK` |
| `MapKeptInStep` | `Spec => []MapInStep` |
| `StreamsInOrder` | `Spec => []StreamOrder` |
| `DirectionsKeptAlive` | `Spec => []BothDirectionsMove` |

`StreamOrder` says nothing of operations, so it is not inductive. `PairInv` says what is under way
for a pair, outstanding or with its handler waiting: nothing before it is accepted, then the
connect alone, then exactly one read or write for each direction, until the pair is
deleted. Every step takes one of them away and puts one of the same direction in its place
(`Replaced`), so two never use a direction's buffer at once, and `DataInv` can say
where the piece is: in the buffer from the end of its read to the end of its write.
`BothDirectionsMove` follows from `PairInv` directly. `AcceptInv` keeps the pair that waits to be
accepted, and those not made yet, apart from all of this. The deleted pair's
handlers, the race in the map and the exceptions are steps of the specification that stop the
process; nothing is claimed of what undefined behaviour does after them.

`EpollPoller_proofs.tla` proves every property of `EpollPoller`, for any finite set of
descriptors, any set of blocks and any number of events and registrations, from
`EpollPollerAssumption` (finiteness is needed for the kernel's answer to be a finite
array):

| Theorem | Statement |
|---|---|
| `PollerTypeCorrect` | `Spec => []TypeOK` |
| `EventsStayValid` | `Spec => []NoDanglingEvent` |
| `KernelKeptInStep` | `Spec => []KernelInStep` |
| `RetiredAreFreedOnce` | `Spec => []RetiredOnce` |
| `OnlyRegisteredCalled` | `Spec => HandlerIsRegistered` |

None of these is inductive alone, their conjunction `IInv` is, with the finiteness of
`allocated` and two facts about what the kernel refuses: no event points to a refused or
leaked entity (`NoneRefused`), since neither is in the epoll set, and no two live entities have
one descriptor (`OneEach`), which the epoll set says of the registered ones only. `load \in Nat`
after `rm_fd` needs `KernelInStep` (the count of live entities is at least one when one is
removed); `KernelInStep` after `rm_fd` needs `OneEach`, so that the removal of a refused entity takes no
other's registration away; `RetiredOnce` makes what
`FreeRetired` frees disjoint from the live entities, and `FreeRetired` waits for the end of
the batch, so `NoDanglingEvent` holds vacuously then. The action property follows from
`NoDanglingEvent` and `KernelInStep` at the step that calls.

`EventsCtx_proofs.tla` proves the safety properties of `EventsCtx`, for any threads of
the program, any finite set of pool threads, any counts up to their number and any
number of loops, from `EventsCtxAssumption`:

| Theorem | Statement |
|---|---|
| `CtxTypeCorrect` | `Spec => []TypeOK` |
| `DefaultLoopIsOne` | `Spec => []OneDefaultLoop` |
| `PoolIsOne` | `Spec => []OnePool` |

`DefaultInv` and `PoolInv` say that the thread inside a `call_once` holds its flag, so at most
one is there, that the default pointer is null until that thread has made the loop,
and that no pool thread is started before. `WorkersBound` says that a pool thread has its
loop exactly from its first step on: a call of `create_this_thread_loop` by the
program's code on such a thread cannot replace the loop `loops_` holds. The case of a
second loop, which ends the process at the `Z_ASSERT`, and the race of two threads
in `emplace_back` are steps of the specification and are covered. What happens after
that race is not specified, so `OnePool` says nothing of it.

`Text_proofs.tla` proves what the parts that read text make of it: of `OptionParser`, from
`OptionAssumption` alone, `CommandLinesAreParsed`, `OptionSpec => []ParsedByPosition`, for any options,
any arguments and any number of command lines. `ParsedByPosition` speaks of the end of a
command line, so it is not inductive. `OptionInv` says the same of the positions before the one `parse` is
at (`ParsedUpTo`), and that this one is no other option's argument: a step that takes the
next argument leaves a position behind that `Taken` has (`TakenStep`), so what it adds means
nothing of its own (`TakenMeansNothing`). `PlainMeans`, `LongMeans` and `ShortMeans` show that a turn of
the loop adds exactly what its position means, or throws. For a group of letters that takes that
the options before the stop are switches and that at the stop is one option (`BeforeStop`),
which a switch given in several places is counted by (`SetsCount`). `ValuesUpTo` and its companions
carry the meaning from one position to the next (`AddOne`).

Of `Playlist` it proves `PlaylistsAreRead`, `PlaylistSpec => []PlaylistsRead`, for any lines, any playlists, any
period and any sets of floats and printed numbers, from `NumberAssumption` and
`PlaylistAssumption`. Of rounding it uses that it keeps the order (`FloatKeepsOrder`,
`RereadKeepsOrder`), so that the target covers the segments after both were printed and read, and that it
is off by at most `Err`, so that the k-th sum of floats is off by at most `k * Err` (`FloatsDrift`).
`JoinIs` shows that the searches for `"/"` and `"://"` find the parts of the url, and
`AddressNames` that an address names its host, so that reading it again leaves it alone. A parser
that has read `k` lines (`Parsed`) holds the segments of
these lines, and the duration it remembers is that of the last `EXTINF` without a path behind it
(`DurationIs`); `ParsedStep` carries that over a line and `ParseFinds` over all of them. The
merged playlist is two lines for each segment (`PairsAre`), and a parser that reads both
gives the segment back with its duration rewritten (`ReadsPair`, `MergedRead`). `TargetIs` follows
the fold that finds the longest one. For a period, `TimegetTakes` compares the loop of `timeget_ts`,
which keeps a sum and a flag, with the segments whose sums touch the period, one segment
after the other, and `PeriodIsCovered` the sums with the times.

Of `DigestAuth` it proves `NeverRefusedAsAnother`, `DigestSpec => []NeverTakenForAnother`, for any
offers, uris, entities, bounds and any set of digests that are cut, from `DigestAssumption`. The
client's parameters are those of the challenge its nonce came with (`ClientInv`, `Behind`).
Where it deviates in nothing it hashes, piece by piece, what the server does
(`ResponseExpected`): this is where `hash_cb`, `HA1` and `HA2` meet `A1Text`, `A2Text` and `DigestText`.
Whether a request will be accepted is settled when it is made, so the invariant keeps, for
every request under way, what the server will look at: its nonce is one of the server's, its
response is the expected one unless the client deviates, no other request has its nonce and
count, and the pair was not seen (`RequestsInv`). A count that starts at 1 again is safe because
a challenge under way is the only trace of its nonce (`Untraced`); `SeenInv` and
`RequestsInv` keep every count used with the client's own nonce below the next one.

`Library_proofs.tla` proves, of `LogCounter`, for any finite set of threads and any `COUNTER`, from
`CounterAssumption`: `CounterStaysClose`, the counter stays between bounds that depend on the
threads that still have to take back, and from it `SilenceEnds`,
`CounterSpec => []SilenceIsBounded`. The increment is atomic and each taking back is owed by
one increment above `COUNTER` (`CounterDrift`): without what is owed the counter is at most
`COUNTER`, and threads that meet pull it down by `COUNTER` once each. From there passes that
meet nobody climb to 1, where a line is logged, and `QuietInv` counts them.

Of `LogInterval` it proves `BurstsAreBounded`, `IntervalSpec => []LinesPerPeriod`, for any finite set
of threads and any period, from `IntervalAssumption`. For a period, `Old` are the threads that sampled the
clock before it and have not finished, `Storing` those that passed the comparison with a
time inside it. While `previous` is in or behind the period no thread with a time in it
passes; only a thread of `Old` sets `previous` back before it, and leaves `Old` for good, since
the clock has gone on. So each setting back gives the threads one more round, with one more
thread than the round before. `BurstOf` says so with `Stairs`, twice the sum of the
greatest numbers up to the number of threads: lines, pending stores and the stairs of
the late threads never exceed the whole staircase.

Of `ByteStream` it proves, for any size and any step, from `StreamAssumption` alone,
`SkipGoesToTheEdge`, `StreamSpec => SkipReachesEdge`. `CursorBound` holds even when the cursor has
left the stream: it is not past the end and not so far before the head that `size_t`
would wrap (`BoundKept`). With the cursor inside, `left` and `lapped` are below half the span and the
comparison in `size_t` decides as one of integers would, except at the head
(`StepStaysInside`, `SkipsGoOn`).

Of `DtsGen` it proves `DtsAlwaysIncreases`, `MaxB <= 3 => (DtsSpec => DtsIncreases)`, for any time
between two frames, any start and any number of groups. `DtsInv` follows a regular stream
through four phases: no frame, one frame (whose time 0 makes the call a repetition),
counting, generating. Behind the second group the sorter and the frames to come form a chain,
one frame apart, up to the last P frame (`SorterInv`), and the sorter holds a time
that is a group and as many frames as are to come behind it (`Behind`). So the smallest
time of the sorter is the smallest of the chain, the next smallest stays in the sorter, and DTS
increase; it is two frames below the next B frame, which half of a group of four frames
does not exceed, so none is cut. This last step is where the bound on the B frames is needed, and
the property fails without it (section 6).

The next two are about functions over data, of which an induction is the heart. The library's
induction theorems take an operator as a parameter, which no installed prover
instantiates; `NatSetInduction` of `SeqLemmas` takes the property as a set and follows from the
well-foundedness of `<` alone. From it come the recursions: `Iterates` and
`PrimitiveRecursion` going up, `SearchExists` and `SearchKeeps` for a function that stops at `i` or
asks further up, `FoldExists` for the fold over sets behind `FoldLeft`, and
`FlattenAppend` and `FlattenConcat` for `FlattenSeq`.

Of `NalScan` it proves, for every buffer, from `NalAssumption`: `ScannersAgree`, the three
scanners find the first start code; `FirstUnitTaken`, in a buffer that begins with a unit the
unit found is the first that the decoder takes; and with both `UnitsAreFound`,
`NalSpec => []UnitsFound`. A jump is right when it leaps over no code and is 0 exactly at one
(`JumpFits`), which each scanner's comparison shows for itself (`MemcmpFits`, `SeqFits`,
`SbmFits`); `ScanFinds` does the rest for all three. Two codes are three bytes apart
(`CodesApart`), so the tail of a buffer behind a unit has the buffer's codes that lie in
it (`TailCodes`), and where a unit begins does not depend on where the search for it
began (`NextStart`). `SkipKeeps` carries that along the loop of `skip_unsupported_nalu`.

Of `HashStream` it proves `DigestsOfPadded`,
`8 * MaxBytes < WordSpan * WordSpan => (HashSpec => []HashesPaddedMessage)`, for any block and length
size, any cut of a message into updates and any number of messages, from `HashAssumption`. An
object holds a message (`Holds`) when its blocks, joined, and its buffer up to the message's
length modulo the block are the message. `AbsorbLittle` and `AbsorbMuch` show that an update keeps
that. MD5 has the length as two words of bits: `CarryDue` shows that the carry is right, `IndexOfBits`
that the index is, because a word is a whole number of blocks, and `CountExact` that the
count is exact as long as it fits, which is the hypothesis (64 bits in the code). The three
ways to count the zeros give the one number that fits (`PadNear`, `PadFar`, `PadModulo`,
`PadUnique`), so each class ends with the padded message in whole blocks. `HashInv` also keeps
that a `sha` left padded and then reset is as good as new, whatever its buffer holds.

Of `Base64`, `Text_proofs` proves `DecodedIsEncoded`, `Base64Spec => []Base64RoundTrip`, for every sequence of
bytes, from `Base64Assumption`; the runs check that formula as a part of `ConversionsKept`.
Groups of one length, flattened, have the i-th of the k-th at a known place (`FlattenBlocks`), so
`EncodedIs` says what each character of the encoded text is. The decoder's stop is the
only number of characters that stops it (`DecodedIs`). `TripleBack` gives three bytes
for the four characters of a whole group, and `Decodes` puts them together with the rest
of the last one, which padding follows; what follows the padding is not read.

Only model-checked: liveness (`TaskSettles`, the fairness part of
`ImplementsMailbox`, `PassEnds`, `ResetFires`, `TrueRepeats`, `CallsReturn`,
`FailureCloses`), which is out of the prover's reach, and the parts of `ConversionsKept` that
are about `Companding`'s bitwise operators, which no module with a theorem can use. The run
goes through all codes and samples, so for `Companding` nothing is left to prove.

## 6. What the checks found

* `event_loop_impl.cc:126`: the `try` is around the loop, so a task that throws drops
  the tasks behind it, of other threads too, though the comment says the tasks are flushed.
* `event_loop_impl.cc:158`: the timeout is narrowed to `int`; from 2^31 ms on the loop
  sleeps for ever with a timer pending.
* `socketproxy.cpp:173`: deleting a pair leaves the other direction's handler with a
  deleted `this`; it closes once more and does not find the pair.

Each of these is a run whose property a comment, an assertion or the documentation states. What
follows came up while the code was translated; the models have the cases and the properties
name them as the only exceptions, or they leave them out, assume them away or end at them, as
each item says or section 3 does.

* `zio/events.cc:81`: the comment at :71 says the default loop binds the thread that asks first;
  when that thread has a loop already, a debug build stops at the `Z_ASSERT` and a release build
  replaces the thread's loop (`SecondLoop` in `EventsCtx`).
* `zpkg/buffers.cc:219`: at the head `-1 * lapped()` is 0, so a backward skip is not cut and the
  cursor leaves the stream; `buffers.h:113` allows any step. `SkipReachesEdge` names this skip as the
  only way out.
* `zpkg/opt_flags.cc:172`: behind `--` the loop goes on and parses as options what it has just kept as
  plain arguments. A lone `-` leaves no trace.
* `zpkg/hash/sha.cc:298`: the digest is made a `std::string` from a `char` pointer and ends at its first
  zero byte, so a client that answers with SHA-256 is refused now and then
  (`NeverTakenForAnother`, `cut`); `hash_bin` or `hash_hex` called a second time goes on from the padded state.
* `zlog/log.h:112`: the time of the last line is 0 at first, so `LOG_INTERVAL_T` is silent for the first
  interval after the machine started. Threads that race may log T(T+1)/2 lines in one
  interval, which `LinesPerPeriod` takes as the bound.
* `zav/object/av_pts_dts.cc`: when the number of B frames varies, DTS repeat or are cut to the
  PTS; `DtsIncreases` speaks of regular streams. When four B frames between two P frames come in
  falling order the cut that :106 calls basically impossible to reach is reached, and with
  five DTS repeat: half of the time between two P frames is then more than the two frames
  by which the smallest time is behind.
* `zav/codec/h26x.cpp:511`: with bytes before the first start code the remaining size is too large, and
  the second search runs beyond the buffer.
* `zpkg/times.cc:71`: timers count by `gettimeofday`. A clock set forward makes callbacks start that much
  early; a clock set back delays them, and a clock set forward while the loop is in
  `epoll_wait` lets it oversleep by as much.
* `zio/epoll_poller.cc:97`: a descriptor the kernel refuses leaves, with `NDEBUG`, a handle that is
  registered nowhere and counted in `load_`; without, an entity nobody frees.
* `iom/http.cc`: besides the cut digest, `NeverTakenForAnother` names four reasons for which a client with
  the right password is refused: an empty realm leaves the header empty (:419); `SHA-256`
  with a hyphen is not recognised, and the SHA-512/256 algorithms are hashed with SHA-256 (:424); a list
  of qops is sent back as it came; `auth-int` hashes an empty entity whatever the request carries (:443).
* `iom/http.cc:369`: `Clear` resets the count, so a server that offers a nonce a second time gets counts it has
  seen; the model's server does not. `Basic` anywhere in a challenge makes it one.
* `zav/proto/hls.cc`: the media sequence of a merged playlist is the least of 0 and the others, always 0; a segment
  with duration 0 is dropped; a parser used twice adds to its total duration. Durations are printed with six digits, so 9.976633
  becomes 9.97663, and the times of segments are sums of floats: ten of 0.1 s end behind 1.0, and the segment
  that begins there is not taken for a period that ends at 1. `PlaylistsRead` allows both, and no more.
* `zpkg/base64.cc`: `decoded_size` is too small for a text without padding.

## 7. Not modelled

* Tables and rounds over bytes, which test vectors settle: the hash transforms, AES, CRC, the
  G.711 transcoding tables, G.722 (`g722_1` is a vendored reference implementation).
* Formatting and parsing with little state: ONVIF, RTP and RTSP, URLs and headers of `iom/http.*`,
  the lexing of a challenge and its `userhash`, the ini file, `assign_to`, the help text and the interactive command
  line of `zpkg/opt_flags.*` and `icli.*`, the SPS parser.
* The AVX2 scanner and the one that calls glibc's `memmem`, and `PtsCache`, which hands PTS back.
* `zpkg/concurrent.h`: `block_oneshot` is instantiated nowhere; singletons are
  function-local statics.
* Wrappers of system calls, the set-up of spdlog, the error table, the benchmark `avnetbench`.
* Vendored code (nlohmann, pugixml, llhttp, CLI11, spdlog, tinyxml2, ...): about three quarters of
  the lines under `src/`. It is third-party code with upstream tests of its own, so only a
  small share of all lines here is modelled.
