# Parikshan: a verification project

Parikshan runs a *debug clone* of a production container beside it. A
**duplicator** in front of the two copies the client's traffic to the clone; an
**aggregator** behind them lets production talk to its backend and replays the
backend's replies to the clone. Production must not notice the clone, and the
clone must see what production sees until its buffer overflows (the *debug
window*). The clone itself is made by a script that copies the running container to another
host. The modules here model the C proxies
(`src/modules/proxy/proxyClone`, `src/modules/proxy/proxyAgg`), the Java
duplicator (`src/modules/javaTCPProxyRaw`) and the cloning script
(`src/scripts/vzclone`), check them with TLC, and prove every safety property
that a passing run checks with TLAPS, for every size of the system.

`PROJECT.json` names, for every definition, the lines of the code it stands for.

## 1. Inventory

| Component | State | Operations | Interacts through | Hard behaviour | Correct when |
|---|---|---|---|---|---|
| Network duplicator, `proxyClone/proxy.c` | per connection: three sockets, a pipe, up to five processes and their buffers | `handle_client`, the workers T1..T4 (`forward_data*`, `receive_data_*`) | sockets shared by `fork()`, `shutdown()` of another's socket, SIGPIPE, a non-blocking pipe | interleaving of workers, teardown in the middle of a buffer, full pipe, slow, silent or dead clone | both directions of production are exact and in order; the clone's gaps are the reported overflows; production is never held up; ends go down together |
| Network aggregator, `proxyAgg/src` | two counters in shared memory, a semaphore, an array of pipes; per connection two sockets, a handler, its workers | `handle_prod_client`, `handle_clone_client`, `increment_shm_counter`, `forward_data_to_dest_and_pipe`, `read_data_and_drop`, `read_pipe_dest` | shared memory, semaphore with SEM_UNDO, pipes inherited by all processes | racing handlers, a handler killed inside the semaphore, clones that come early, two readers of one pipe, more connections than pipes, forks that fail | production and backend read each other exactly; no counter update is lost; the clone gets the replies of its connection, in order, after production |
| Raw Java duplicator, `javaTCPProxyRaw` | four threads, three sockets, a piped stream, unsynchronised `isRunning` flags | `Register`, `kill`, the `Communicate*` threads | shared sockets, the blocking pipe, `Register.kill()` | a full pipe blocks production, half-dead registrations, an exception in the accept loop | as the duplicator |
| NIO proxy, `javaNIOProxy` (derived third-party code) | handler queue, selectors, two buffers per connection with a state each | `register`, `process`, `writeFrom`, `writeTo`, `start`, `shutdown` | worker threads polling one queue | shutdown with registered handlers, blocking connect in a worker | data in order, all channels closed after `shutdown()` |
| Live cloning, `scripts/vzclone` | the container on two hosts: config, private area, root, quota, dump, run state | the steps at lines 437-813, the chain of `undo_*` functions | ssh, rsync, vzctl | a step fails, or only says so, and the undo chain has to put both hosts back | the source runs on at the end; after a failure the target is fit for the next attempt |
| Its variants, `vzcloneNewCent*`, `vzclone_vz48`, and upstream's `vzmigrate*` | as `vzclone`, and a lock | as `vzclone` | as `vzclone` | | |
| Queue simulation, `scripts/queue_sim.c`, `loop_queue_sim.c` | clock, two event times, number of customers | arrival, departure, overflow flag | none | a counter that may wrap at zero | reports an overflow only if the queue exceeded the buffer |
| Older proxies, `proxy/proxy.c`, `kklis/proxy.c`, `proxyAgg/tmp` | as the duplicator without a clone | `forward_data_send`, `forward_data_recv` | | | |
| Load generators, plots, bundled servers (`thttpd`, `httperf`, `ntools`), papers | | | | | not part of the system's logic |

The duplicator and the aggregator meet only through the containers: neither
calls the other. The Java proxies are alternatives to the C duplicator, and the
simulation predicts the duplicator's window. `vzclone` makes the clone before any
of them has traffic for it.

## 2. Modules

    TcpSocket          sockets shared by processes; peers and kernel (external)
      Forwarder        the receive-send-shut loop every proxy is made of
        Duplicator     proxyClone: handle_client and T1 .. T4
        Aggregator     proxyAgg: handlers, shared memory, pipes, workers
        JavaDuplicator javaTCPProxyRaw: Register and its four threads
    Mirror             what a duplicator promises; Duplicator and JavaDuplicator
                       implement it
    Exchange           what the aggregator promises; Aggregator implements it
    VzClone            scripts/vzclone: two hosts, the steps and the undo chain

    MCDuplicator, MCAggregator, MCJavaDuplicator, MCVzClone
                       instances for TLC
    ForwarderProofs    what the loop's steps do to types and to one stream
      DuplicatorProofs production's side of the duplicator
        DuplicatorCloneProofs
                       the clone's side, and that the connection is a Mirror
      AggregatorProofs production's side of the aggregator and its counters
        AggregatorReplayProofs
                       what the clone is answered with
          AggregatorExchangeProofs
                       that the aggregator is an Exchange
      JavaDuplicatorProofs
    VzCloneProofs      theorems about the script

### TcpSocket and Forwarder

Data is abstracted to *units*. The n-th unit the peer of socket `s` writes is
the number `Base[s] + n`, so every unit tells its stream and its place, and a
loss, a repetition, a swap or a mix of streams shows in what a peer has read
(`got`). A socket holds at most `SockCap` units in each direction; `send()`
hands units over one at a time and blocks when there is no room, so that a
partial `send()` interrupted by a reset, a close or a `shutdown()` of another
process is a state of the model. `shutdown(s, SHUT_RDWR)` ends the socket for
every process. A peer that closes makes the next send vanish, or raise SIGPIPE,
which kills the sender: both are allowed as soon as the peer is gone, because
the peer's reset takes any time to come back. A reset drops what the peer has
not read yet. This is kernel behaviour, modelled from how the proxies use it.

`Forwarder` has the steps `Recv` (any part of what is there, up to `BufSize`),
`Send`, `Shut` and the whole plain loop `forward_data`. A `send()` that has handed
over a part of its buffer when its socket is shut or reset returns that part's length
in C, and the loop goes on to its next step (`CutShort`, with `ShortCounts` TRUE); in
Java `write()` tries the rest again and throws. `Send` says both; the loops of the other
modules are disjunctions of the same steps, in the code's order.

### Duplicator

One connection from the moment its process enters `handle_client()`: the accept
loop forks one such process for every connection and they share nothing, so one
stands for all. `pc[p]` says where process `p` is. `H` connects to production,
then (with `-a` or `-s`) to the clone, makes the pipe and forks; any of these
may fail and end the connection, but for `fork()`: its -1 is not looked at, and
the connection goes on without that worker (`MayFail`). T1 runs the loop of its mode, T2 likewise, T3
and T4 exist with `-a`. The pipe is a sequence: a buffer (at most 1024 bytes,
less than PIPE_BUF) is written whole or not at all; `dropped` collects the units
of buffers whose "Buffer overflow?" T1 has reported. How much the pipe holds is not
certain: a failing F_SETPIPE_SZ is only printed (line 633), and a pipe fills by pages, of
which a short buffer wastes the rest. `PipeCap` is therefore the most it can hold and
`PipeMin` what it holds in any case; in between, a write succeeds or fails
(`Fits`, `Overflows`). That it does not block is certain: `setNonblocking()` on the
descriptor that `pipe()` has just returned does not fail. T3 never sees the pipe's end
because it holds `pfds[1]` itself.

The peers: the client writes up to `MaxSent` units; the servers write up to
`Reply[s]` units for each unit read, `Sequential` ones answer before they read
on; `Leaving` says which may half-close or close, and `MaxLeave` how many do in one
behaviour. All of them may also stop
reading for ever (safety runs assume no fairness).

### Aggregator

Any number of production and clone connections. Each accepted one has a handler
process that reads its index from the counter of its kind (`GetCounter`, without
the semaphore), increments the counter under the semaphore (`Lock`, `Load`,
`Store`, `Unlock`, one step each) and forks its workers. W1 and W2 serve a
production connection, R1 and R2 one of the clone's. The child forked first does
not exit when its loop ends and runs into the second `fork()`; for W1 that child
finds closed sockets and exits without effect, for R1 it is R3, a second reader
of the clone's pipe whose data goes nowhere. `Terminated` is SIGKILL or SIGTERM
for a handler, with the kernel giving the semaphore back (SEM_UNDO). A `fork()` of a
connection in `MayFail` may return -1, which is not looked at.

The counters only grow and nothing compares them with NUM_CONNS, so the index of a
connection after the first NUM_CONNS of its kind is not that of a pipe (`idx[x] \notin
Index`). `Served` lets the counters start at any value, as after connections that have come
and gone. `pipes_arr[c]` is then some other `int` of the program: with gcc's
`-fcommon` layout the option flags, the halves of the host name pointers and the port
numbers. It is taken to be the descriptor of no pipe and of no connection:
`WriteAstray` fails and is reported, or its data goes where nobody looks for it, and
`ReadAstray` waits or ends the loop. This is an assumption about memory behind an array,
and the only one; past these few words, a write could reach another connection. As in
the duplicator the pipes' size is between `PipeMin` and `PipeCap`, here because
of the pages alone (`setBufferSize` is commented out at line 137).

### JavaDuplicator

One client connection of the Java duplicator, plain or duplicating (`duplicate`).
The main thread is inside the constructor of `Register` until all threads are
started; a connect that fails ends it for good (`dead`), because `kill()` uses
`insocket` before it is set, while a failure after that (`MakeStreams`) closes all
sockets and lets the main thread go on. T1 writes to production and then into the piped
stream, unit by unit, waiting while it is full (and looking whether the reader is alive
on entry and while it waits only); T3 reads the stream. The Java
library's stream also ends a wait: a writer gets an exception when the reading
thread is dead, a reader when the writing thread is (`wrote`: it only knows that
thread after the first write). `kill()` is three closes, one step each, between
which other threads run; it may be run by several threads at once. A thread that
gets an exception only ends itself (`killed`). `isRunning` is not volatile: the
loop may or may not see it reset (`SeesStop`). The JVM stays up for the other
registrations, so that only `close()` ends a socket: `Gone` of the C proxies is
FALSE here. No read timeout is set, so that the branches for
`SocketTimeoutException` are never taken and are not in the model.

### VzClone

`pc` is the step or the undo function the script is at; each undo function calls
the next, so the chain is a sequence of steps too, and `ret` says where it
returns to: the exit, or, after a failed compaction or snapshot, the next step
(`undo_root` at 622 and 630 is not followed by an exit). The source host has the
container's status, its deltas and the dump files; the target has a set of things
(`dst`), the copied deltas and the clone. The content of a delta is a version
number, 0 if it is torn; a running container may write the top delta at any time
(`Write`), and rsync then copies any mix. `vzctl`, `rsync`, `ploop` and `ssh` are
external: each does its work or fails. Every command on the target is an ssh of its own,
and so are the undo functions': each may fail without an effect, or have its effect and
be reported failed, whatever those before and after it do. What the script is wrong about
is kept in `orphans`: things that it was told were not made, and things that it was to
remove and did not. The variable is auxiliary, no action reads it. `vzctl` on the source may
fail and leave the container in another status than the script thinks (`stuck`); for the
steps that are followed by an attempt to start or resume it (660, 697, 704) that attempt is
in the model. `Again` is the operator starting the script once more.

### Mirror

The abstract specification: the production server reads the client's stream; the
clone reads a copy in which it may skip units given up as overflow, and those
only while they are still ahead of it. `MirrorsTraffic` maps the duplicator's
`sent["client"]`, `got["prod"]`, `got["dup"]` and `dropped` to it; the Java
duplicator's maps the replica to the clone and nothing to the skipped units,
since its stream blocks instead of dropping.

### Exchange

The abstract specification of the aggregator. Production connections and their backends
read each other's streams (`Deliver`). A connection of either kind is tied to a queue
(`Tie`), which others may be tied to as well. A connection of the clone is answered with
replies to the production connections of its queue (`Play`): no reply is played to two
connections or twice to one, and those of one production connection come in their order.
Replies may be given up (`GiveUp`), which only a stretch can be of which nothing has been
played and nothing after it; they are never played. `ExchangesReplies` maps the
aggregator's `sent` and `got` to it, `dropped` to the replies given up, and a connection's
queue to its index from the moment the worker that uses the pipe (W2 or R2) is forked, or to no
queue if that index is not one of a pipe.
Handlers, semaphore, counters, the pipes' contents and R3 are not seen.

## 3. Runs

| Run | Instance | Shows |
|---|---|---|
| `duplicator` | the three modes, SockCap, BufSize and PipeCap 2, PipeMin 1, three client units, sequential servers, client may half-close, everyone may close, two of the three at most, the forks of T2 and T3 may fail | `TypeOK`, `ProductionInOrder`, `RepliesInOrder`, `CloneFaithful`, `CloneNeverAhead`, `WindowHolds`, `SynchLag`, and the refinement `MirrorsTraffic` |
| `asynch_live` | `-a`, capacities 1, five client units, a silent production server, a clone that answers two units for one, one of the three may close | `ProductionUndisturbed`, `TearDownTogether`, `CloneNotBlocked` |
| `aggregator` | two production connections and one of the clone's, one pipe, SockCap and BufSize 2, PipeCap 1, a clone that may half-close, one handler that may be killed, one production connection whose forks may fail | `TypeOK`, `NoLostIncrement`, `CloneFollows`, `ProductionExact`, `ReplayFaithful`, `CloneNeverAhead` |
| `aggregator_live` | one connection of each kind, the first ones or the first after the last pipe, capacities 1, PipeMin 0, three replies, clone and backend may close, either handler may be killed, the clone's forks may fail | `ReplyServed`, `HandlerDone`, and the refinement `ExchangesReplies` |
| `java` | plain and duplicating, SockCap and BufSize 2, PipeCap 1, three client units, one reply of each server, everyone may close, the client half-close | `TypeOK`, `RepliesInOrder`, `CloneNeverAhead`, `StreamBoundsLag`, and the refinement `MirrorsTraffic` |
| `java_live` | capacities 1, five client units, everyone may half-close, the replica close | `ProductionServed`, `EndSpreads`, `ThreadsEnd` |
| `vzclone` | all 128 combinations of options and container kinds, two deltas, two versions | `TypeOK`, `SourceRestored`, `CloneComplete`, `Retryable`, `CloneSameState`, `CloneThere`, `SourceResumes` |
| `asynch_connect`, `asynch_close`, `synch_crash`, `synch_deadlock`, `aggregator_queues` | small instances | the disagreements of section 5 |

In `duplicator` the fork of T2 or of T3 may fail: nobody reads production's
answers, or nobody reads the pipe. (T1 and T4 would be the client's and the clone's
counterparts; without T1 nothing is forwarded at all.) In the other runs of the
duplicator the forks succeed, because their properties are about complete
connections. In the aggregator the forks of one production connection may fail in
`aggregator`, and those of the clone's in `aggregator_live`.

What the liveness properties say (`Ended(s)`: the proxy has ended the connection, or its
peer is gone):

    ProductionUndisturbed  T1 runs  ~>  production has read all the client has written
                                        by then, or Ended("prod")
    TearDownTogether       client closed ~> Ended("prod"), production closed ~> Ended("client")
    CloneNotBlocked        []<>(nothing waits for the clone, or it could move, or it ended)
    ReplyServed            the backend has written reply n  ~>  production has read it,
                                        or its connection has ended
    HandlerDone            a handler waits for the semaphore  ~>  it is through or killed
    ProductionServed       accepted  ~>  production has read all, or somebody left,
                                        or []PipeFull
    EndSpreads             somebody half-closed  ~>  all sockets closed, or one was reset,
                                        or []PipeFull
    ThreadsEnd             kill() has begun  ~>  every thread has ended
    SourceResumes          source suspended  ~>  source runs, or stuck

The Java properties say where the two duplicators differ: production of the Java
one does depend on the replica, and `ProductionServed` says in which ways (it
leaves, or keeps the stream full) and in no other; `EndSpreads` and `ThreadsEnd`
have as exceptions what the code really leaves behind (a reset ends only the
thread that notices; T3 waits for ever on a stream never written to).

**Bounds.** Three units with capacities of two are enough for a buffer of two
units that is handed over in part, a read that takes part of a queue, a pipe
with room for one buffer and not for the next, a gap followed by later data, and
a unit in every place of the path at once. In the two runs about a
silent clone or replica the data must not fit into the path to it: with capacities of one its
socket, T3's buffer and the pipe take three units, the fourth is the one that T1 has in
its hand before a full pipe, and the fifth is one that production would still have to get.
Hence five client units in `asynch_live` and `java_live`; with three, a pipe that blocks
would go unnoticed in `asynch_live`, and `[]PipeFull` could not occur in `java_live`.
In `asynch_live` one peer of the three may leave (`MaxLeave`), which is any of them
but not two; in `duplicator` any two may. In `aggregator` the clone may half-close, which ends R1 and
brings R3 in while R2 works; that it is gone, which kills R2, is in `aggregator_live`. PipeMin 1 with PipeCap 2 has
a pipe that refuses a buffer it could hold. In `aggregator` there is one pipe, so that
the second production connection to read the counter has an index past the last one.
There, PipeCap 1 and
BufSize 2 make a pipe overflow both because it is full and because the buffer is
too large; two production connections are needed for the race on the counter and
one clone connection for each order relative to them. Two connections of the clone on one pipe
are beyond the instances; the theorems of section 4 cover them, `AggExchanges` above all,
which is about any number of connections on any pipe. In `java` a stream of one
unit makes T1 wait in the middle of a buffer. In `vzclone` two deltas are a base
and a snapshot, and two versions tell a copy taken before a write from one taken
after it. The constants `MaxSent`, `MaxReply`, `MaxLeave`, `MaxTop` and
`MaxVersion` bound what peers and the container write; nothing else is cut. `synch_deadlock`
uses 13 units because the unread remainders have to add up to a full socket.

**Deadlock** is not checked: a connection that has ended, and one whose peers
are all silent, really stops.

**Fairness.** The operating system runs a process that is not blocked:
`WF` on the steps of each process. The client and the production server (in the
aggregator the production container and its backend) read what arrives: `WF` on
their reads, because the properties promise nothing to peers that do not read.
Nothing is assumed of the clone, except in `asynch_close` and `synch_crash`
(`FairCloneSpec`), where the clone accepts, reads and answers, so that the
counterexample is the proxy's doing. The JVM runs every thread that can go on, and nothing is
assumed of the replica. The shell goes on with the script (`WF` on `Script`):
every command of it ends, with success or without. No peer is assumed to write, to accept or
to leave.

## 4. Proofs

All theorems hold for every value of the constants that the named assumptions of
the modules allow: positive socket and buffer sizes, pipes of any size, any
options, any number of connections and of pipes, more of the former than of the latter
included (aggregator), any peers, any deltas. The
assumptions about units (`Base`) only say that the streams of different peers have no
unit in common, so that a unit tells where it comes from; they restrict no behaviour
of the code.

**One stream through one loop** (`ForwarderProofs`). What a peer has read says
nothing about what it reads next, so an invariant has to follow a stream along
its whole path: read by the peer (`got`), on its way (`outq`; both in `Ahead`),
in the worker's buffer (`Held`), not yet received (`inq`; in `Behind`). `Joined`
says that while the worker is in its loop and the socket it writes to is usable
these pieces add up to what was written. It is given up once that socket is shut
or its peer has closed, because data is lost there, by a send that is cut short as well; it need not hold then, because
nothing is handed over any more. `Stream(p, in, out)` is their conjunction; there
is one lemma for each step of the loop (receive, send, shut), for steps that do
not touch the stream, and for the peers' steps, for any worker and sockets.

**Duplicator** (`DuplicatorProofs`). `TypeCorrect`: `TypeOK` is not inductive;
`Ready` adds that a worker in a `send()` has something left to send.
`StreamInOrder` and `AnswersInOrder` are `ProductionInOrder` and `RepliesInOrder`,
from `Stream("T1", "client", "prod")` and `Stream("T2", "prod", "client")`.

**The clone's copy** (`DuplicatorCloneProofs`). What the clone has read says nothing
about what waits for it, so `CloneInv` follows the copy along its whole way: the
clone's socket (`Line`), the part of T3's buffer not yet sent (`Rest`), the pipe; their
concatenation is `Chain`. `Mark` is the last unit T1 has added to the copy or given up,
computed from what the client wrote less what waits in its socket and in T1's buffer
(`Taken`: that buffer is the stretch just before the socket's). Then

* `Chained`: `Line` is `Faithful`, and so is all of `Chain` while nothing of it has been
  lost (`Copying`: the clone connected and T3 not killed), in which case it has every
  unit up to `Mark` that was not dropped. Both are needed: after the clone is gone T3
  throws units away, and what is left in the pipe no longer joins what the clone has;
* `Bounded`: the copy and the dropped units end at `Mark`, so that what T1 gives up next
  lies behind all of them (Mirror's `Overflow`);
* `Followed`: while production is connected the copy is within what was forwarded;
* `Lag`: with `-s` production is ahead by just the part of T1's buffer that the clone
  has still to get;
* `Control`: T1 is forked first, and each mode uses its own way to the clone.

`CopyFaithful`, `CopyFollows` and `SynchLags` follow from it. `DebugWindow` is the action
property `WindowHolds`, the debug window of `paper/window.tex` as the code has it. When T1
gives up a buffer the pipe has more than `PipeMin` units with it, and all of them are still
to be read by the clone, since with `Chained` the pipe's units are younger than what the
clone has read; so the last unit of that buffer is more than `PipeMin` behind the last one
the clone has read. It has two conditions: the clone is connected, and T3
has not been killed by SIGPIPE, after which nobody empties the pipe. How many bytes
that is the code does not guarantee: it is what the kernel gives the pipe, less what short
buffers waste of its pages. For
`DuplicatorMirrors`, the refinement `Spec => MirrorsTraffic`, a read of the clone is a
`Copy` because the next unit of a `Faithful` queue is the first one not dropped, a read
of production a `Deliver`, a full pipe an `Overflow`, and every other step of the
processes, the peers and the kernel leaves Mirror's variables alone. A worker whose
`fork()` failed is one that never takes a step, so that these theorems cover it too.

**Aggregator** (`AggregatorProofs`). `AggCounters`: with `Exclusion` (at most one
handler holds the semaphore, and its `val` is the counter) a store adds one and
counts one handler. `AggTypes` says nothing of an index but that it is a number, because
nothing bounds the counters. `AggCloneFollows` needs that counters only grow.
`AggExact` is two streams for each production connection, with or without a pipe; `Streams`
and `ForkInv` (no worker before its fork) are what the handlers' and the clone's steps leave
alone. That nothing of the clone's reaches a backend is a part of it, since a backend reads
exactly the units of its production connection.

**The clone's answers** (`AggregatorReplayProofs`). `AggNeverAhead` and
`AggReplayFaithful` are the two properties about the clone. A reply reaches it through a
pipe that any number of connections may share, because two handlers can take the same
index. `ReplayInv` is `IsolInv` of production's side, the bound on what is written, what
has not happened yet to a connection without workers, and

* `Taken`: while W2 is in its loop its buffer is the stretch of replies just before those
  that wait in the backend's socket, so that `Mark(a)`, computed from these two, is the
  number of the last reply that W2 has written to the pipe or given up;
* `Sources`: every copy (`Copies(i)`: in pipe `i`, or on the way to or read by a
  connection that reads it) is of a reply up to the `Mark` of a writer of the pipe. A new
  reply is therefore no copy yet, and one given up was never one;
* `Followed`: while production stands (it has not closed, nor W2 shut its socket), copies
  of its replies are among those it was sent;
* `Replayed`, where a pipe has one writer and at most one reader (`Paired`): what is on
  the clone's line is in order and skips dropped replies only. While nothing can have been
  lost behind it (`Live`: R3 does not exist, R2 is in its loop and the clone is
  there) that holds of the whole `Chain` of line, rest of R2's buffer and pipe, which
  then has every reply up to `Mark` that was not dropped. Both halves are needed: R3
  takes units out of the pipe for good, but only after R1 has shut the clone's socket,
  when nothing is added to the line any more.

`Paired` also has the connections that are not yet readers, with any pipe, since the
chain must hold at the moment their R2 is forked. The proof needs a unit to tell the
connection whose reply it is (`UnitsAssumption`). An attempt at it showed that
`ReplayFaithful` has to count a connection as a reader of its pipe that has an R3 and no
R2: it exists when the handler is killed between its two forks, and it takes units out of
the pipe that another connection of the clone then misses. `Readers` says so; with one
connection of the clone, as in the run, the difference cannot be seen.

**The aggregator as a whole** (`AggregatorExchangeProofs`). `ReplayFaithful` speaks only of
pipes that are not shared, and two handlers that read the counter together do share one
(section 5). What holds in every case is Exchange; `AggExchanges` is the refinement
`Spec => ExchangesReplies`. Its inductive invariant is `ReplayInv`, `Answered` (neither
production nor its backend has read more than the other wrote) and `OnceInv`:

* `Ordered`: along the `Chain` from what has come to a connection of the clone back to the
  pipe, the replies to any one production connection rise, though those to several may be
  mixed. Unlike `Replayed` this survives a unit taken out of the middle (by R3, or by
  another connection's R2), a clone that leaves and an R2 that is killed. It is stated for
  connections that have no pipe yet too, because it has to hold once they have one;
* `Apart`: no reply came to two connections of the clone; with `Ordered`, not twice to one;
* `GivenUp`: what was dropped is a reply up to its writer's `Mark`, is in no pipe and did
  not come to any connection of the clone.

A fork of W2 or R2 is a `Tie`, or nothing if it fails or the index is not one of a pipe; an
overflow of W2, or a write past the last pipe that is reported, is a `GiveUp` (everything that came to the
clone has a number up to `Mark`, the given-up stretch begins after it), a read of
production or of its backend a `Deliver`, a read of the clone a `Play`; every other step
leaves Exchange's variables alone.

**JavaDuplicator** (`JavaDuplicatorProofs`). Besides the two streams of
production, `Copy` follows the client's units from the replica back through T3,
the piped stream and T1 (`Line`, `Rest`) as long as T3 lives and the replica is
connected; `Lag` counts how far production is ahead, which is the part of its
buffer T1 has sent but not copied; `Followed` says that what is on the line was
forwarded; `Links` that T3 gives up only with the replica gone or T1 ended.
`JavaLag` and `JavaNeverAhead` follow at once. `JavaMirrors` is the refinement
`Spec => MirrorsTraffic`: a read of production or of the replica is a step of
Mirror because the next unit is the successor of the last one, every other step
leaves Mirror's variables alone.

**VzClone** (`VzCloneProofs`). `IInv == TypeOK /\ SourceInv /\ TargetInv /\
ContentInv`. `SourceInv` says for each step what the source's status is. `TargetInv` says
what is in place (`PlacedInv`) and, for every undo function and for the checks, what is not:
there is no clone, no quota and no private area there any more, but for `orphans`
(`CloneInv`, `QuotaInv`, `PrivateInv`). The exceptions cannot be left out, and each names
one thing: a clone may be an orphan while the script believes that it is not there, but a
quota that is one says nothing about the clone. `ContentInv` says which of the copied deltas
equal the source's. The lemmas go through the actions once for each part. `CloneSameState`
has its two exceptions in the theorem too: an orphan clone, and a snapshot taken after the
top delta was looked up; both are real behaviours of the script (section 5).

**Only model-checked.** The liveness properties, because fairness and ENABLED are out of
the prover's reach: `ProductionUndisturbed`, `TearDownTogether` and `CloneNotBlocked` of
the duplicator, `ReplyServed` and `HandlerDone` of the aggregator, `ProductionServed`,
`EndSpreads` and `ThreadsEnd` of the Java duplicator, and `SourceResumes` of `vzclone`.
Every safety property, `WindowHolds` and the three refinements that the passing runs check are
theorems.

## 5. Where code and documents disagree

1. `proxyDup.tex:81` promises that a slow clone does not impact production; the
   blocking `connect()` at `proxy.c:307` does, before the workers run
   (`asynch_connect`).
2. `window.tex:18` assumes that the clone represents production within the
   window; with `-a` its connection is never ended, because T3 holds the pipe's
   writing end (`proxy.c:586`, `asynch_close`).
3. `README.md:18` promises a sandbox that does not disturb; with `-s` a clone
   that goes away kills T1 by SIGPIPE (`proxy.c:534`, `synch_crash`).
4. `proxyDup.tex:18` wants the clone's traffic dropped and the client kept
   active; with `-s` T2 reads at most one piece of it per reply, and everyone can
   end up waiting (`proxy.c:503`, `synch_deadlock`).
5. `proxyAgg.tex:23` has a queue for each connection; two handlers can take the
   same index (`proxyAgg.c:311`, `aggregator_queues`).

Seen in the code and not shown by a run:

* `proxyAgg.tex:32` has queues wait for slightly out-of-order connections; the
  code exits at once (`proxyAgg.c:372`, the step `CheckOrder`). The hash
  comparison and the TCP_FIN of `proxyAgg.tex:31-33` are not in the code.
* `proxyDup.tex:42-43` has T2 wait for the clone's answer before it forwards
  production's reply; the code forwards first (502, 503).
* `ProxyServer.java:29` says "Keep listening for new clients!"; a connect that
  fails ends the accept loop with a NullPointerException from `kill()`
  (`Register.java:209`, the step `Connect`).
* `Register.java:202` says that a registration is killed "when either the client
  or server disconnects"; an end of file from the replica kills it too
  (`CommunicateReplicaTo.java:51`), and a reset from client or server does not.
* `paper/clone.tex:110` has both containers in the same state; with `--snapshot`
  the name of the top delta is looked up (`vzclone:525`) before the snapshot puts
  another one on top (628). `CloneSameState` has that case as its exception, and without
  it TLC shows such a clone.
* An ssh that reports failure although `restore --undump`, `start` or `mount` was done on
  the target (`vzclone:765`, 791, 798) is followed by `undo_copy_quota`, which does not end
  the clone: the chain removes the configuration and the private area of a container that
  is there, and the source, with `--live`, runs on beside it. `CloneComplete`, `Retryable`
  and `CloneSameState` have that case, and an `undo_undump` that fails, as their
  exceptions (`"clone" \in orphans`), and without them TLC shows it. In the same way a
  `quotainit` (604) or `quotaon` that was done and reported failed is not undone, and the
  next attempt finds the quota. No document promises anything here.
* The index of the aggregator's pipe is not compared with NUM_CONNS (`proxyAgg.c:320`, 384),
  so that after that many connections the clone gets no replies and `pipes_arr` is
  read past its end. `ProductionExact` shows that production does not notice, under the assumption
  about that memory in section 2.
* `vzclone` documents `-r` to remove the private area (65-66), but the code is
  commented out (815-821), and without `--live` the source stays stopped at the
  end. A failing `mkdir` of the private area leaves the root directory (596), a
  configuration file copied in part is not removed (556-560), a failing second
  rsync leaves the local dump file (194-197), and the quota dumps stay on both
  hosts after success. There is no trap: a script that is killed undoes nothing.
* `queue_sim.c:98` takes `n--` below zero when the idle server's departure is
  the earlier event, and the run then reports an overflow (105).

## 6. Not modelled, and why

* The accept loops, option parsing and socket set-up of the C proxies: no state
  is shared between connections. A failing `accept()`.
* A restart of the aggregator: its shared memory and semaphore are IPC_PRIVATE
  (`shm_incr.c:20`), so that a new run has new ones and finds nothing of the old.
* How long a `connect()` may take: it may succeed, fail or not return (`ConnectDup` with
  no fairness). In reality it ends after the system's timeout of some minutes, which is the
  delay of `asynch_connect`; no passing property depends on it.
* What an `int` behind `pipes_arr` may be, but for what section 2 assumes.
* Signals to workers other than SIGPIPE. (In `asynch_live` the production server is
  silent, so that SIGPIPE kills T1 and T3 there, and T2 only in `duplicator`.)
* Bytes within a unit, wording of messages, debug output.
* What `vzctl`, `rsync`, `ploop` and `ssh` do inside: a command does its work, does
  not, or does it and is reported failed. `ploop_copy` is a pipeline whose status is that of the target's side; it
  is taken to fail there when the source's side breaks off.
* `queue.c` of the aggregator, which nothing calls, and the older proxies, which
  are the duplicator without a clone.
* The NIO proxy: third-party code (`com.github.terma`, with its own NOTICE and
  LICENSE) without duplication, which nothing of the system uses.
* The other cloning scripts (`vzcloneNewCent*`, `vzclone_vz48`) and the
  `vzmigrate*` they come from: `vzclone` carried over to newer versions of OpenVZ
  and upstream's own script, the same chain of steps and undo functions.
* The queue simulation: sequential, without input, over random floating-point
  times; there is nothing for interleaving or failure to reach.
* The bundled servers, load generators and the applications of the test cases
  (`thttpd`, two copies of `httperf`, `ntools`, Apache's `mod_mem_cache`,
  `wikibench`). They are what the system is tried with, not the system, and they
  are nearly all of the repository's lines: the duplicators, the aggregator and
  the cloning script together are a few thousand lines, so that no model of the
  system can stand for more than a small part of what the repository holds.
