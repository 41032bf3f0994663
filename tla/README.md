# Verification of Z and Mx

This directory holds TLA+ specifications of the concurrent and distributed parts of this
repository and of its two protocol-heavy products, the TLC configurations that check them on
small instances, and proofs, checked by TLAPS, of what matters most. It is kept beside the code:
when a function named below changes, the action that models it should change with it.

To check a run: `tlc -config MCZdbCluster_pair.cfg MCZdbCluster.tla`. To check a proof:
`tlapm MxEngineProofs.tla` (the longer ones, `ZdbStoreProofs` among them, take some minutes). `PROJECT.json` lists
the runs, what each definition models, and the hazards the properties are for.

## 1. Inventory

The repository is a C++ library (`z/`), a middleware layer on it (`mxbase/`), and two products
on top: market data (`mxmd/`) and order management (`mxt/`).

| Component | State | Operations | Interacts by |
|---|---|---|---|
| **MxEngine** (`mxbase/src/MxEngine.*`) | engine state, six link counters; per link: state, enabled flag, reconnect timer, reconnect count | `start`, `stop`, `up`, `down`, `connected`, `disconnected`, `reconnecting`, `reconnect_`, `linkState` | functions queued to rx/tx threads, timers, callbacks of a concrete link |
| **Zdb** cluster (`z/zdb`) | per host: state, database state, voted flag, connection; master, previous, next in line, next's connection, recovery cursor, count of peers | `start`, `stop`, `connect`, heartbeats, `holdElection`, `deactivate`, `disconnected`, `vote`, `setNext`, `repDataRcvd`, `recSend` | messages on TCP connections, timers, callbacks to the application |
| **Zdb** store (`z/zdb`) | files with a bitmap of undeleted records, next record numbers, cache and LRU list, queue of writes | `push`, `put`, `update`, `putUpdate`, `abort`, `get`, `del`, `write_`, `purge`, `recover` | a write thread, the replica's messages |
| **ZmRing** (`z/zm`) | head, tail, one header and one item per position | `push`/`push2`, `tryPush`, `shift`/`shift2`, `eof` | shared words, futex |
| **ZmScheduler** (`z/zm`) | one ring and one overflow ring per thread, a tree of timers, run state | `run`, `add`, `invoke`, `del`, `start`, `drain`, `stop` | rings, semaphores, condition variables |
| **ZmPQueue, ZmPQRx, ZmPQTx, MxQueue** (`z/zm`, `mxbase`) | queue with gaps, keys sent, acknowledged and archived, flags | `received`, `dequeue`, `rxReset`, `startQueuing`, `stopQueuing`, `send`, `resend`, `ackd`, `archived`, `start`, `stop` | scheduled calls of themselves, a message store |
| **MxT** (`mxt`) | an order with the event states of its new order, modify and cancel, and their quantities | new order, modify, cancel; acknowledgements, rejects, fills, closes | handlers called for messages; continuations they return |
| **MxMD** order books (`mxmd`) | per side: orders, price levels with the orders by rank, totals; the book a book is mapped to | add, modify, reduce, cancel orders; match; reset; price-level updates | callbacks, messages broadcast to publishers and recorders |
| **MxMDCore** (`mxmd`) | snapshots and streams of all books | snapshot, publish, subscribe, record, replay | rings, engines, sequenced queues |
| **ZiRing, ZmBxRing** | shared-memory ring, bitmap of attached readers | `attach`, `detach`, `push`, `shift`, `gc` | shared memory of several processes |
| **ZiMultiplex, ZiFile** | sockets, I/O contexts | `connect`, `listen`, `send`, `recv`, `disconnect` | epoll / completion ports |
| Zu, Zt, Ze, Zv, Ztls, Zrl, JNI, telmon | values, strings, logs, configuration | parsing, formatting, glue | - |

What is hard, and what would make each part correct:

* **MxEngine.** A link changes state under its own lock and tells the engine after releasing
  it, so reports overlap and arrive in any order; calls queued to the rx thread run when the
  state has moved on; timers race with operators. Correct means: counters never drift, the
  engine's own transitions are justified by the links, starting and stopping complete, a link's
  state agrees with its connection, a pending reconnect is really scheduled.
* **Zdb cluster.** Each host acts on what it last heard; messages cross; connections break,
  are replaced and are noticed late; an election may be held with any set of votes; records are
  pushed, put, recovered and repeated at once. Correct means: one master everybody agrees on,
  one history of records, nothing put is lost or undone, replicas converge, records go to the next in
  line on its own connection, `stop()` returns with everything closed.
* **Zdb store.** A crash between any two writes, records committed out of the order of their
  numbers, gaps filled with deleted records, files removed when their last record is deleted, a
  cache that must not lose what is not written yet. Correct means: what was written is found
  again, what was replaced is erased, a committed record can be read at any moment, no number
  that is still on disk is given twice.
* **ZmRing.** Lock-free: every load, store and exchange can interleave. Correct means: a
  bounded FIFO, no lost wakeup, `eof()` ends the reader after the last item.
* **ZmScheduler.** Two queues per thread chosen by a count nobody locks; overflow and sleep race;
  timers are replaced and cancelled while they fire; stop and start with work queued. Correct
  means: what was accepted runs, once, in the order of its producer; a cancelled call does not
  run and a due one does; drain and stop end, and mean what they say.
* **Sequenced queues.** Jobs schedule themselves and process outside the lock, behind a network
  that loses, repeats and reorders; sends fail, the sender stops and starts, snapshots move the
  receiver ahead. Correct means: delivery in sequence without repetition, no message dropped
  that may still be asked for, and the receiver catches up.
* **MxT.** Requests wait for one another and cross with answers, fills, expiries and unasked
  cancels; fills and answers come early; modifies may be simulated. Correct means: when all
  messages have arrived, both sides agree on the order, nothing of the client's is left waiting,
  and no handler meets what it calls abnormal.
* **MxMD.** Four sums kept by differences (order, level, side, book above), ranks that are
  shifted in place, snapshots read while the feed goes on. Correct means: the sums agree after
  any calls, price-time priority is kept, and a subscriber ends with the publisher's book.

## 2. Modules

| Module | What it is |
|---|---|
| `MxEngine` | the engine and its links, with the rx thread's queue and the link's environment |
| `MxEngineProofs` | proofs about `MxEngine`: types, counters, starting and stopping, single links' connections and reconnects |
| `ZdbCluster` | the cluster protocol of Zdb over breaking connections |
| `ZdbClusterProofs` | proofs about `ZdbCluster`: types, whom records are sent to, whose records a host holds, who is master |
| `ZdbStore` | records, cache, write thread and files of one database, with crash and recovery |
| `ZdbStoreProofs` | proofs about `ZdbStore`: types, and that what was written is found again |
| `ZdbStoreErasureProofs` | proofs about `ZdbStore`: that what was replaced is erased |
| `Fifo` | a bounded queue: what `ZmRing` promises |
| `ZmRing` | the ring, one action per access to a shared word; refines `Fifo` |
| `ZmRingProofs` | proofs about `ZmRing`, the refinement among them |
| `ZmScheduler` | threads with a ring and an overflow ring, the timer thread, start, drain and stop |
| `ZmSchedulerProofs` | proofs about `ZmScheduler`: who holds what, types, and its calls: none lost, repeated or overtaken |
| `SequencedChannel` | numbered messages delivered once, in order, or reported as withdrawn: what the queues promise together |
| `ZmPQueue`, `ZmPQRx`, `ZmPQTx` | the resequencing queue; the receiver's and the sender's steps on their state, as operators |
| `PQChannel` | a sender and a receiver over an unreliable network; refines `SequencedChannel` |
| `PQChannelProofs` | lemmas about the operators of `ZmPQueue`; proofs about `PQChannel`, the refinement among them |
| `MxTOrderMgr` | the handlers of an order, with the client and the market |
| `MxTOrderMgrProofs` | proofs about `MxTOrderMgr`: types, no abnormal event and agreement with a market that answers in order |
| `PriceTimeBook` | price-time priority: what an order book promises |
| `MxMDOrderBook` | one side of an order book, as operators |
| `MxMDStream` | two books mapped to a third, and a subscriber's copy made from snapshot and stream; its orders refine `PriceTimeBook` |
| `MC...` | constants for TLC |

### MxEngine

`state`, `enabled` and `timer` are the fields of `MxAnyLink`; `engine` and `count` those of
`MxEngine`. One action is one section under one lock. When a link's section changes its state the
thread then holds `[pc |-> "notify", prev, next, then]`: it still has to call `linkState()` with
that pair and then do what `then` says. `ReportLinkState` is that call, the only writer of the
counters, and it also takes the engine out of Starting and Stopping. The rx thread's queue `rxQ`
is a FIFO because `ZmScheduler` runs the calls of one thread in order. The concrete link is the
environment: `connect()` leads to `connected()`, `disconnected()` or `reconnecting()`, each on one
of the threads in `Callback`.

### ZdbCluster

`host[h][p]` is what process `h` keeps of host `p`. A connection has two ends, each with a state
and the host it is associated with, and a sequence of messages on the way to each. A section of
code under `ZdbEnv::m_lock` is one action, with everything it calls; what runs without the lock is an
action of its own where another thread can tell the difference. The connections of a process call
back on one thread, and `rx[h]` says how far it has got:

* `connected()` tests `running()` (`Connected`, `Zdb.cpp:608`) before it takes the lock to associate the
  connection and send a heartbeat (`Opened`, 620); a `stop()` in between does not see the connection.
* `disconnected()` drops the connection and `m_nextCxn` without the lock (`Disconnected`, 713-719),
  counts it down for `stop()` (`CountDisconnected`, 722), clears the host's connection without the lock
  (`ClearCxn`, 730), and then elects or replicates anew (`LoseHost`, 733) and reconnects (`Redial`, 771). It
  waits for a deactivation to finish (`Reelect`, 750). Any other thread may run between these.
* The header of a heartbeat associates an accepted connection (`HbRcvd`, 918), its data is handled by
  another callback (`CxnHbDataRcvd`, 943), before which a newer connection may have orphaned this
  one. `hdr` says where that is so; a header that changes nothing, with no other connection about, is not a
  step of its own.

Timers (heartbeat, election, reconnect) may fire whenever they are armed. The data of
a record is who wrote it.

Choices that matter to a reader:

* One database, so a host's database state is one record number.
* A host dials each peer with a lower ID, one attempt at a time; a refused or failed dial is
  a dial that is still to be made.
* A heartbeat carries the host's state and record number of one instant (in the code they are
  read in two callbacks, `Zdb.cpp:1207` and `1224`).
* No other callback runs on a thread that is in `connected()` or `disconnected()`: `RxFree`.
* `io.disconnect()` inside `connected()` only marks the context: the end becomes `"refused"`
  and is never closed.
* `recovery.cut` is a history: a recovery was dropped by `setNext()` after its host had received what comes
  after it (`Zdb.cpp:836`). The code fails then; `ReplicasComplete` and `ReplicasConverge` exempt it by
  name, so that two records can be pushed and recovered in every other order.
* An election won by a host that has heard less than others know (`~Entitled`) is a split. The
  code does not prevent it and the histories may then differ; `use.splits` bounds such elections,
  and the properties about records are stated for behaviours without one.

### ZdbStore

`mem.pods` are the records in memory, each with an identity of its own, because the application
may hold, delete and queue several for one number; `mem.cache` and `mem.lru` are `m_cache` and
`m_lru`. `fs.disk` is what survives a crash: files of trailers; `fs.open` the files the process has
open, with the bitmap of each. The write thread's `write_()` is `WriteBegin`, `WriteGap` once per place
that was skipped, `WriteRecord`, `WriteChain` once per replaced version, and `WriteDone`, so that calls
and crashes come between them; the write of a record and the removal of the file it leaves empty are one
step. A call releases `m_lock` before `env->write()` queues its write (`Zdb.cpp:1952-1958`, `1869-1874`, `1988-1990`), so another
thread may queue a later one first: `Queue` puts the write anywhere before those that are committed and not
begun, and `late` remembers the versions that it put behind a later one. `Crash` keeps `fs.disk` and is followed by all of `recover()`, one record a
step (`Recover`), before anything else. The histories say what the application was promised: `live`,
`kept`, `erased`; and what became of it: `filled`, `gapped`, `torn`. `older` is the chain of versions a
number replaces, as it was when the number was given.

### ZmRing and Fifo

`head` and `tail` run from 0 to 2N-1, index and Wrapped bit together. `w[x]`, `r` and `e` say
where each writer, the reader and the caller of `eof()` is, and what it has loaded. `wait()` is
two steps: the compare and exchange that sets Waiting, and the sleep, which the kernel refuses
when the word has changed; a wake reaches one sleeper. Memory is sequentially consistent.

The refinement maps the ring to `Fifo!queue`: the positions from `tail` to `head`, each with the
item in its slot, or the item its claimant is about to write. So `PushClaim` is `Fifo!Add`
(the order of a push is fixed when head is exchanged), `Shift2` is `Fifo!Take`, and every other
step stutters.

### ZmScheduler

A call is a producer or a timer and a number. `ring[t]` is what `Fifo` says `ZmRing` implements,
used whole: a push or a shift is one step, a reader that finds nothing waits in "shift" until there
is something, the end of the file, or its timeout. `client[x]` says where a thread is in `run__()`,
`worker[t]` where a thread is in `work()`, `timer` where the timer thread is in `timer()`,
`caller[x]` where a thread is in `start()`, `drain()` or `stop()`. A caller that drains is a client
too: it queues `drained()` as any other call.

* A producer's push may fail although there is room (the stale head of `ZmRing`); the worker's
  does not, being the only reader; the timer thread's is taken not to, since it tries again.
* `m_scheduleLock` is held by the timer thread from "due" to the end of its loop (`Locked`), and by
  `run()` and `del()` for one step. The tree is the set `schedule`; the unlocked `add()` after a
  failed dispatch is a step of its own, but what two threads in the tree at once do to its nodes is
  not modelled.
* The two looks at `m_state` in `start()`, `drain()` and `stop()`, before and after waiting, are one
  operator: each case of their switches falls through to that of the state waited for.
* `--m_runThreads` is a load and a store, because nothing makes it one step.
* `eof()` is taken as it is meant; what `ZmRing` shows of it on a full ring is under "Findings".

### The sequenced queues

`ZmPQueue` is the queue as a set of items with a head and a tail: what `enqueue` clips, keeps, hands
on, or reports as a gap. `ZmPQRx` and `ZmPQTx` are operators from a receiver's or sender's state to the
next and what it sends, one per section under the lock; a job that is scheduled is a flag or a count,
and runs as an action of `PQChannel` whenever it likes. Packets travel in a set, so they overtake each other; a packet may stay (a duplicate)
or go (a loss) within `use.faults`, which failures to send, stops and snapshots share. `covered` is the
key up to which the receiver has taken a snapshot.

What an item does when another overlaps it in part is its type's affair (`Clips`): the tests' items clip
themselves, those of `MxQFn` (`MxQueue.hpp:85-86`) do not, which `ZmPQueue.hpp:85-88` allows only if none
ever overlap in part. Messages have one number each, so only a gap fill could be longer (`use.fills`): one
item as long as the gap, as `ZmPQueueTest3` logs it, one item per number, or nothing, as in
`sendGap_()` of every link of the repository. Where a fill of several numbers meets items that do not clip,
`NoPartialOverlap` is false, and what is said of the queues then is said in the properties.

The refinement maps `tx.seqNo`, the next number the sender gives, to `submitted` and what `process()` was called with to
`delivered`: delivered once each, in order, a gap only where messages were aborted.

### MxTOrderMgr

The order is one record: the event state of each of its three requests (`new`, `mod`, `cxl`: unset,
held, deferred, queued, aborted, sent, pending fill, acknowledged, rejected, closed), the flags that
mark a simulated modify and a modify of a queued order, the quantities, and `out`, the requests to be
sent. Each handler is an operator that returns the order after it, with the handlers it calls as
continuations, and `odd`: whether it called `abnormal()` or reached a place that says it never should be
reached.
The client asks for modifies and cancels as `filterModify()` and `filterCancel()` allow, within
`MaxRequests`; the application takes back a request that is still queued first (`Aborted`): its place in
the queue is passed over, or taken by what is queued instead. The market answers what it is sent, or rejects it, fills, expires, and, in some profiles, cancels or
restates the order unasked. A profile (chosen once, in `Init`) is a kind of market and of application:
whether requests may be sent before the order is acknowledged, whether modifies are simulated, whether
the rejection of a modify cancels, whether messages overtake each other.

### The order books

`MxMDOrderBook` is one side of a book: `orders`, `levels` (quantity, number and set of orders) and the
side's `qty` and `nv`. A handler returns the book, the changes it makes to the book this one is mapped
to, and the messages it streams. `MxMDStream` feeds orders to `ob` and price levels to `l2`, both mapped
to `out` (`Aggregate` applies their changes), and follows `ob` with a subscriber: `AskSnapshot` takes
the sequence number the stream resumes at, and from `StartSnapshot` to `EndSnapshot` the actions are
`MxMDCore::snapshot()` on its own thread, which takes no lock (`ZmNoLock`, `MxMD.hpp:460, 670`): `snap`
holds the order that is about to be sent, and the order and the level the iterators have taken next
already (`ZmRBTree.hpp:1099-1105`). An order is the node of its tree, so one that is moved leads the
iterator into the tree of its new level; one that is deleted, or a level that is, leads anywhere
(`Found`). `Deliver` applies the stream that was queued meanwhile. A call of the feed is one step, so what
the snapshot may read of a tree between the steps of an insertion, a deletion or a rotation is left out.
Sells are modelled; buys are the same with prices the other way round. The feed gives no ranks, as the
samples of the repository do not, so the book gives them.

The refinement maps `ob` to one queue per price, its orders by rank.

## 3. Runs

| Run | Instance | Shows |
|---|---|---|
| `engine_counters` | 2 links, rx and one caller, 3 calls of start/stop/up/down, 1 fault, reports on both threads | `TypeOK`, `CountersConserved`, `ConnectionMatchesLink`, `SettledWhenStarted`, `SettledWhenStopped` |
| `engine_startstop` | 2 links, 4 calls of start/stop, 2 faults, reports on the rx thread, fair | `ReconnectStaysPending`, `CallsComplete` |
| `zdb_pair` | 2 hosts, replication on write, fair; 1 connection; either 1 record, recovery or not, and nothing breaks; or a push during the recovery of another record; or no records, a break and a split | `TypeOK`, `ReplicasComplete`, `ReplicasConverge`, `DualResolves` |
| `zdb_broken` | 2 hosts, replication in put(); either 1 connection, 1 record, recovery or not, and a break or a stop of a host; or 2 connections, no records and a break; or a break and a split | `MasterAgreed`, `ReplicatesToNext`, `OneHistory`, `PutIsKept` |
| `zdb_silent` | 2 hosts, 2 connections, a break, 1 record, replication in put() | violation of `ReplicasComplete`: replication stops for good |
| `store_records` | 3 record numbers in files of 2, a cache of 1, 2 files open, 3 records in memory, all held, 2 writes queued, 1 purge, 1 crash | `TypeOK`, `Durable`, `Readable`, `VersionsErased` |
| `ring_use` | 2 writers (one blocking), ring of 2; 1 and 4 pushes with timeouts, or 2 and 1 with 2 calls of `eof()` at any time; fair | `TypeOK`, `IsFifo`, `EndMeansDrained`, `EveryoneWakes` |
| `sched_use` | 1 thread, ring of 1; up to 3 calls of run/add and of start/drain/stop, or two deferred calls on one timer with 2 such calls; fair | `TypeOK`, `NothingLost`, `CancelledNeverRuns`, `RunsInOrder`, `CallsEnd` |
| `pq_order` | items that do not clip; 3 messages, 2 aborts and 1 fault, or 2 of each; every kind of gap fill, snapshots, `stop()` in a failing send | `TypeOK`, `NothingDropped`, `IsSequenced` |
| `pq_resend` | items that clip; 2 messages, 2 aborts, 2 faults; every kind of gap fill; snapshots, with fills of one number; fair | `CatchesUp` |
| `orders` | every profile but two kinds, quantities to 3, 3 modifies and cancels, 1 unasked message | `TypeOK`, `Agrees`, `Orderly` |
| `books` | 3 orders, 2 prices and the market level, quantities to 2, 4 calls, 2 messages queued, snapshots and reconnections at will | `TypeOK`, `BooksAddUp`, `SnapshotAgrees`, `KeepsPriority` |

`Init` of `ZdbCluster`, `ZmRing`, `ZmScheduler`, `PQChannel` and `MxMDStream` chooses one of several
uses (`Uses`), so that one run covers each use without the product of them.

Why the bounds are enough. Two links and two threads give every overlap of two reports, and of
a report with a queued call, which is what the counters and the settled properties are about;
the theorems remove the bound. Three or four calls let a start overtake a stop and be overtaken
again. Two hosts show everything but chains of replicas: election, dual master, recovery,
replacement. One record shows replication against recovery, and against a put that comes late; two show
a push that overtakes a recovery.
Three numbers in files of two give a file that is full, one that is begun, gaps before and after a
file's end, and a removal; a cache of one evicts at every turn. A ring of two goes round, sees full
and empty, and lets each side sleep on the other. Three calls on a ring of one use both queues and the
way from one to the other, with a drain or a stop before, between and after. Three messages with two
aborts give gaps before, between and after messages. Three modifies and cancels of an
order of three cross each other and everything the market says, answers to earlier ones included. Three orders on
three levels give an order before, at and after the one that changes, and a snapshot that has read
some orders and levels and not others. What the bounds exclude is where the passing properties fail, and is said
under "Findings".

`CHECK_DEADLOCK FALSE` is set in every run but `orders`, because these systems may rest: nobody has to
start an engine or a scheduler, push a record, write to a ring or send a message. That they do not stop
while there is work is what the liveness properties say. In `orders` only an order that is done, with
nothing on its way, may rest (`Stopped`), and TLC looks for any other.

### Fairness

* `MxEngine`: the rx thread runs what is queued, a thread that is in a call finishes it, a timer
  fires, a connection that is being opened or closed is reported. Nothing makes an operator call
  or a connection fail. This is what a running `ZmScheduler` and `ZiMultiplex` give.
* `ZdbCluster`: queued work, armed timers, the write thread, delivery on connections and the
  application's put or abort of what it pushed are weakly fair; start, stop, push and faults are
  not. The reconnect timer and the election timer are armed by the code itself.
* `ZmRing`: the reader, each writer and a started `eof()` go on. Weak fairness is enough because
  a sleeping thread is disabled until it is woken. A wait ends by its timeout only in the use that
  has timeouts, so that no timeout hides a lost wakeup in the other. The history `spoilt` marks the behaviours in
  which the code's own limits (see "Findings") have struck; both uses have them, and every property but `TypeOK` names it.
* `ZmScheduler`: each thread, the timer thread, a started call of `run()`, `start()`, `drain()` or
  `stop()`, and time go on; making such a call is nobody's duty. The ring's timeout is on, as it is
  by default (`ZmScheduler.hpp:148`), and `CallsEnd` needs it.
* `PQChannel`: scheduled jobs run, a packet that is not lost arrives, the receiver's timer fires, and
  a sender that stopped or failed is started again, as a link that reconnects does. Sending, failing
  and losing are nobody's duty.

`CallsComplete` names its exceptions. The engine leaves a state only when a link reports a change; if
every link has settled before (all Failed or Disabled, or no link at all) there is no report to wait
for, and `stop()` leaves the engine in Stopping. And a `stop()` that comes before the queued `up_()`
calls leaves links Down with the engine in StopPending.

## 4. Proofs

The theorems hold for every value of the constants, within the assumptions the modules state by name
(`LinkAssumption`, `ThreadAssumption`, `SizeAssumption`, ...: finite sets, distinguishable values,
naturals), which TLC evaluates on every run. Bounds such as `MaxCalls`, `MaxFaults` or those of a use are
arbitrary naturals, so they do not weaken a theorem.

Each proof has the same plan: an inductive invariant, one lemma per action, and a temporal step at the end.

**MxEngine** (`MxEngineProofs`).

* `TypeCorrect`: `TypeOK`, which is inductive by itself.
* `CountersCorrect`: `CountersConserved`, inductive with `TypeOK`. Moving a link to another state adds it
  to `Leaving` and `Entering` of its classes as it leaves `LinksIn` of one and enters the other
  (`MoveConserves`); reporting takes it away and changes the counters (`ReportConserves`); what stays in
  one class is never reported. The argument is about cardinalities of finite sets, one element added or
  removed at a time (`AddOne`, `RemoveOne`).
* `StartedCorrect`, `StoppedCorrect`: `SettledWhenStarted` and `SettledWhenStopped`: when nobody has a
  change to report each counter is the number of links in its class, so the zero that `linkState()` tests
  means that there is no such link (`ZeroSumIsEmpty`).
* `LinksMatch`: `ConnectionMatchesLink`. The invariant is `Matched`: for each link at most one call of
  `connect()` and one of `disconnect()` is due (held by the thread that decided it, in the rx thread's
  queue, or under way), and which are due, the link's state and the connection's determine one another.
* `ReconnectsStayPending`: `ReconnectStaysPending`, for `AdminCalls = FALSE` as in `engine_startstop`. What
  could take the timer away is `up_()`; the invariant `UpFromOff` says that an `up_()` in the queue meets a
  link that is off, or has a `down_()` of that link before it, since the engine only starts from a state in
  which it has stopped or has queued its stop. With `up()` called on a link the property is false (see
  "Findings").

**ZdbCluster** (`ZdbClusterProofs`).

* `ClusterTypeCorrect`: `TypeOK`. `FirstRanked` is a `CHOOSE`, so that `setMaster()` and `setNext()` name one
  of the hosts they compare rests on its existence: database state, activity and priority, with ties broken by
  ID, order the hosts totally (`BeforeTransitive`, `BeforeTotal`), and a finite set has a first
  (`FirstExists`, by a least counterexample in its size).
* `ReplicationDirected`: `ReplicatesToNext`. The invariant `Connections`: a connection has two ends or none
  (`Paired`); an end that is read may be associated, and only with the host at the other end (`Associates`);
  what is on the way to an end was sent by the other (`Carry`), which is why the first heartbeat associates an
  accepted connection with the right host; the connection of a host is open and associated with it (`Linked`);
  the connection of the next in line (`Directed`); a connection whose `connected()` is under way is not
  used yet (`Called`); and an election is under way while `disconnected()` waits to hold one (`Elects`). Until
  `disconnected()` has cleared the host's connection (`Dying`) that connection is closed, and an election
  that ends then takes it for `m_nextCxn`: it stays no longer than until `disconnected()` gets to `setNext()`
  (`Losing`), or to the election it holds. `ReplicatesToNext`
  alone is not inductive: it allows a connection associated with nobody, and only `Carry` says whom the next
  heartbeat on it will name.
* `HistoriesAgree`: `OneHistory`. Two hosts that hold records may have them from a third, over connections
  long closed, so the invariant `OneMaster` says that there is one function w from record numbers to the
  hosts that pushed them, and that every record is of the host w names and has a number some host has
  counted: those in the databases (`Written`), those the applications have yet to put (`Pending`), those the
  write threads have yet to send (`Queued`) and those on the way (`Fitting`). A push extends w; that its
  number is new is `Leads`: an active host is the only one and has counted every number. An election that
  is won by an `Entitled` host establishes `Leads`, the hypothesis `splits = 0` leaves no other, and nothing
  else makes a host active: a heartbeat never changes what a host knows of itself, because it comes from
  the other end of the connection (`Connections`).
* `PairAgrees`: `MasterAgreed` for two hosts (`Pair`), as in the runs; with three it is false (see "Findings").
  Both hosts are elected by what each knows of the other, so that the first part needs to say how well
  they know each other. The invariant `CalmInv` is about hosts that are not stopped and hold elections
  they are entitled to, or no records. Until one is active, what a host that has voted is known to hold is
  exact, as is what every heartbeat on its way says of it (`Still`); so one of the two precedes the other for both,
  and a host that lost its election lost it to one that precedes it (`Lost`): they cannot both have lost. Whoever is
  known to be active, or said to be by a heartbeat on its way, still is, or is outranked by a host that is
  (`Claims`), and a host is to deactivate only if it is so outranked: it never leaves the two without an
  active one. Whom a host takes for its master goes with its state (`Seats`). For the second part, which is about
  hosts whose connection does not break, `Unbroken`: there is one connection, on which the first message each host
  reads is the other's heartbeat, since `connected()` sends it before anything else can be sent (`Spoken`,
  `Silent`); so nobody calls a connection orphaned, the vote that is counted then stays counted, and
  a host is outranked only by one it has counted.

**ZdbStore** (`ZdbStoreProofs`, `ZdbStoreErasureProofs`).

* `TypeCorrect`: `TypeOK`: a record is freed only when nothing refers to it, and an open file is in the list of
  used files once, and exists. The invariant `TypeInv` adds the record the write thread has in hand and the
  fields of its call and of a purge, that recovery finds the files of the records it has still to bring back, that
  no file is in the list of used files twice (`FilesOK`: closing one would leave it listed), and
  that a bitmap is a set of places of its file.
* `Durability`: `Durable`, for applications that delete no record whose write is queued (`DelQueued = FALSE`;
  without it the property is false, see "Findings"). What survives a crash is the files alone, and `recover()`
  reads each up to its first empty place, so the invariant `SafeInv` has a part about the files
  (`DiskPart`) and one about what is still to be written (`MemPart`). On disk, no place behind an
  empty one is used (`DiskInv`) and in the file that is being written every place before `m_fileRN`, or before
  the gap that is being filled, is used (`FileInv`): the two together say that a new record leaves no hole
  before it. A place that the bitmap has deleted holds nothing that is kept (`BitsInv`), so that the
  file that goes with its last record takes nothing along. In memory, whatever is committed and not yet written is
  queued once, pinned, and alone with its number (`LineInv`, `PendingInv`): so its place is still empty,
  nothing reads a stale version from it, and nobody deletes it before it is written. The write thread
  erases older versions only (`OlderInv`, `WriterInv`), and a purge reaches record 0 only when record 0 is
  not to be written (`PurgeInv`), since an empty place reads as record 0. `Durable` alone is not
  inductive: it says nothing of the places around a record, on which recovery depends, nor of what is still
  queued and will be written over them. The handlers are `LET` chains over functions with changing domains; a
  lemma per operator (`GetFile`, `DelFile`, `Erase`, `Cache`, `Del_`, ...) says first what each leaves alone.
* `Readability`: `Readable`, for the same applications. Where a record is found moves: the application commits it
  to the cache, the write thread writes it to its file, the cache evicts it, recovery and `get()` bring it back. The
  invariant `LiveInv`, on top of `SafeInv`, says that the newest version is on file or in the cache and
  to be written (`NewestInv`), which holds through `writeDone()` only because what is to be written is pinned and
  the list of used records holds no other with its number, whose turn there would take it from the cache (`UsedInv`).
  What erases a record comes with a record that replaces it: nothing that a queued update, or the one in the
  write thread's hand, will erase is live, nor what is to be written as deleted (`ReplacedInv`, `DoomedInv`).
  What a file takes along when its last record is deleted is marked in its bitmap, and a record on file
  is not (`UnmarkedInv`). The numbers of allocated records are new (`FreshInv`), so that committing one
  makes no other record old.
* `Erasure`: `VersionsErased`, for the same applications. What an update replaces may still be queued, half erased
  or lost when the update is committed, and the write thread follows the chain of versions back only
  until it finds one that is not on file; `VersionsErased` alone says nothing of either, so it is not inductive.
  The invariant `VersionInv`, on top of the two above, holds until a crash interrupts an erasure. The versions of a
  record form a chain through `prev`, on disk, in memory and in the write thread's hand (`LineageInv`, `DiskPrior`,
  `PodsPrior`, `WriterPrior`), from which only a filled place drops out. A version is written before those
  that replace it (`OrderInv`, `LineOrderInv`); for this
  the cache must hold a record once (`OnceInv`), and what is to be written and still in the cache must have been
  replaced only by records which the application holds (`FastInv`), and none of these may be erasing its
  way past it (`FastOrderInv`): otherwise an update could overtake it without `late` telling. Then the write thread never stops too early: where a version of the chain is on file or to be written, all
  that come after it are on file, or will be written before what replaces them, or are being erased with
  it (`ChainInv`). So what is on file of the chain it erases is still before it (`WalkInv`), and when it is done
  there is none (`ErasedInv`).

**ZmRing** (`ZmRingProofs`).

* `RingTypeCorrect`: `TypeOK`.
* `EndDrains`, `RingIsFifo`: `EndMeansDrained` and `IsFifo` (with every step of the ring mapped to
  `Fifo!Add`, `Fifo!Take` or a stutter). The invariant `RingInv` holds until a position is `spoilt`: no more than
  N positions are claimed; two writers never hold one position (`ClaimsApart`); a position between tail and head
  is filled or claimed, any other is free (`UsedFilled`, `FreeEmpty`); what the reader and the caller of `eof()` have
  loaded is still true when they use it (`ReaderKnows`, `EofKnows`). Only two steps can spoil it, both under
  "Findings": the exchange of head (`ZmRing.hpp:334`), which sees neither that head went round twice the ring since
  it was loaded nor an `eof()` under way, and the mark of `eof()` (`ZmRing.hpp:370`), which on a full ring replaces
  the oldest item.
* `OneWriterIsFifo`: with one writer and no `eof()` nothing is spoilt.

**ZmScheduler** (`ZmSchedulerProofs`).

* `SchedulerTypeCorrect`: `TypeOK`, with the invariant `Held`: who has a call or a
  count in hand, which caller is in charge of the state and which threads run. It is what makes `overCount_` and
  `m_runThreads` the numbers of calls, and of threads, that are still to decrement them.
* `SchedulerLosesNothing`, `SchedulerCancels`: `NothingLost` and `CancelledNeverRuns`. The invariant
  `Safe` says that every call is in one place: in the hand of its caller, in the schedule, in one thread's
  line (ring, the worker's hand, overflow ring) or executed; and that a drain's own calls are behind those
  it waits for.
* `OneThreadRunsInOrder`: `RunsInOrder`. `Lined` orders the line of a thread: what a producer ran first is
  nearer to its end, whichever of the two rings each call is in.

**The sequenced queues** (`PQChannelProofs`), under the contract of `ZmPQueue.hpp:85-88` (`Fitting`):
items clip themselves, or no use has fills of several numbers. The second is the case of `MxQFn`.

* The lemmas about `ZmPQueue` say of each operator what the items, head and tail are after it, for any
  queue whose items do not overlap, lie at or after the head and end at or before the tail, and clip
  themselves or are of one number (`Fits`): an item that would have to be clipped is longer than one number.
* `ChannelTypeCorrect`, `MessagesAreKept`: `TypeOK` and `NothingDropped`.
* `ImplementsSequencedChannel`: `IsSequenced`: every step maps to a step of `SequencedChannel` or a
  stutter. The invariant `PQInv`: the sender's queue and archive hold single messages that were submitted
  (`Kept`); whatever is on the network or in the receiver's queue was sent, and covers as a gap only what
  was aborted (`Sent`); what was asked for was known to be missing (`Asked`); the receiver's tail is the
  end of its last item (`Tight`); what was delivered ends at its head (`Delivered`).

**MxTOrderMgr** (`MxTOrderMgrProofs`).

* `OrderTypeCorrect`: `TypeOK`. The quantity of a new order on its way is at least 1, which is not
  inductive: what is sent is `leaves`, and fills and the replacement of a simulated modify change it while
  the order is queued. `TypeInv` adds that from the time a new order is queued until it is answered the
  market has no order and only rejections are on their way back (`Generation`), which rests on
  what may follow the message that ends an order (`AfterEnd`); and that what a message counts was filled by
  the messages before it (`Behind`, a bound for each place in `back`), so that an acknowledged cancel that
  comes in its turn is never pending fill. The hypothesis on the profiles is that of `MCProfiles`.
* `OrderlyHolds`: `Orderly`. The invariant `InOrderInv` is about markets that answer in order and only what
  they were asked. Every request that was sent is on its way, or its answer is, exactly once (`Once`), so an
  answer always finds the event it is for in state Sent; the new order and its answer come before anything
  else (`NewFirst`); nothing but rejections comes to an order that has ended (`Ended`), and nothing to one that is
  not sent (`Idle`); messages count what the messages before them say was filled (`Chain`, `Rising`).
* `AgreesInOrder`: `Agrees` for the same markets. What the market fills is bounded by the quantity the manager
  will have when the messages before the fill have come, its own or that of the last modify among them (`Bounded`),
  and an order that ended by itself was filled up to that quantity or has the message that says so on its
  way (`Over`); while the market has the order, a request that is deferred waits for one that will be answered,
  or is the modify whose cancel was rejected (`Open`). With nothing on its way these are the three parts of `Agrees` (`SettledAgrees`).

Only model-checked:

* All liveness (`CallsComplete`, `EveryoneWakes`, `CallsEnd`, `CatchesUp`, `ReplicasConverge`,
  `DualResolves`): TLAPS does not handle `ENABLED` and weak fairness.
* Of `ZdbCluster`: `ReplicasComplete` and `PutIsKept`.
* Of `MxTOrderMgr`: `Agrees` with markets that answer early or act unasked.
* Of `ZdbStore`: `Durable`, `Readable` and `VersionsErased` with applications that delete what is queued.
* `MxMDStream`. `BooksAddUp` and some handlers are defined by sums and folds over sets and sequences: what
  these compute for every input needs induction over data, which the installed provers cannot instantiate.

## 5. Findings

One run ends with a counterexample; `PROJECT.json` quotes the line of the repository that says
otherwise.

* `zdb_silent`: the end of a replaced connection clears `m_nextCxn`, and `vote()` skips a host
  that is next in line already: nothing is replicated any more.

The same models show more, which no run is spent on; each is found by changing constants of a
run above, or by leaving out what a property exempts.

MxEngine:

* `start()` calls `up_()` on every link, and `up_()` connects a Disabled link without looking at
  `m_enabled` (`MxEngine.cpp:325`), although `MxEngine.hpp:61` calls it "intentionally down".
* `up_()` deletes the reconnect timer, then ignores the link because it is in ReconnectPending
  (`MxEngine.cpp:316`): `ReconnectStaysPending` in `engine_startstop` with `AdminCalls = TRUE`.
* So does a connection of an earlier attempt that is still there and fails: `disconnected()` and
  `reconnect()` cancel the timer of a link in ReconnectPending. `ReconnectStaysPending` names that one
  exception, which is why it is about steps and not about states.

Zdb cluster:

* `stop()` waits for ever when a connection that no host is associated with yet is among
  those it closes (`Zdb.cpp:719`): `StopReturns` in `zdb_broken` under `FairSpec`.
* It returns with a host still connected (`Zdb.cpp:291` "close all connections (and wait for them to be
  disconnected)"): it waits for one disconnect where there may be several (line 874), that one is counted down
  before the host's connection is cleared (line 730), and `connected()` associates a connection that had found
  the host running before `stop()` began (line 608). `StoppedIsDisconnected` in `zdb_broken`.
* An election that ends while `disconnected()` is under way takes the dying connection for `m_nextCxn`
  (`Zdb.cpp:847`), until `disconnected()` or the election it holds sets it anew; records sent meanwhile are lost and
  recovered later: `ReplicatesToNext` in `zdb_broken` without its last two disjuncts.
* `hbRcvd()` and `hbDataRcvd()` are two callbacks; when a newer connection of the same host orphans this one in
  between, `hbDataRcvd()` dereferences a null pointer (`Zdb.cpp:943`). The model goes no further with it.
* A record pushed during a recovery overtakes it, and the end of the election then drops the
  recovery (`Zdb.cpp:836`): `ReplicasComplete` in `zdb_pair` without its exemption of `recovery.cut`.
* A record allocated and not yet put is recovered as deleted; if the connection breaks before its put
  is replicated, the replica keeps the deletion (`Zdb.cpp:1050`): `ReplicasComplete` in `zdb_broken`.
* Two hosts that stop and meet again may each be the other's next in line, and a deletion sent
  for a record not yet put comes back over the record: `PutIsKept` in `zdb_broken` without its
  `stops' = 0`.
* A stale `deactivate()` leaves two inactive hosts, each the other's master (`Zdb.cpp:996`):
  `MasterAgreed` in `zdb_broken` without its `stops = 0`.
* With a fault a queued `deactivate()` may find no master and dereference a null pointer
  (`Zdb.cpp:804`): the second part of `MasterAgreed` in `zdb_broken` without its `faults = 0`.
* `deactivate()` does not look again whether the host is still outranked when it runs (`Zdb.cpp:996`). Of two
  hosts elected apart the one to deactivate pushes a record and sends a heartbeat; now the other is outranked too,
  both deactivate, and each is the other's master for good: `MasterAgreed` in `zdb_pair` with a record in `Parted` and
  without its exemption of `splits`.
* Three hosts need not agree though nothing breaks: one that holds its election before it heard from the
  master takes another inactive host for its master and keeps it (`setMaster()` runs at elections only), and an
  inactive host that recovers its records to another may make that one outrank the master in the master's own
  election, which leaves three inactive hosts. `MasterAgreed` is about two hosts for this reason; with `Host =
  {1, 2, 3}` it does not hold.

Zdb store:

* A record whose place was filled as deleted by a later one that was written first stays marked deleted
  in its file's bitmap, and goes with the file when the others are deleted (`Zdb.cpp:2157`): `Durable`
  without its exemption of `filled`. The chain of a later update ends at what was lost, and the versions before it
  stay on disk: `VersionsErased` without that exemption, with six numbers.
* A record may be written behind a place of its file that never was: `write_()` fills the gap before a record
  in that record's own file only, and `m_fileRN` is then past what it left out of the file before
  (`Zdb.cpp:2148`). With three records held, 2 of the next file written first and then 1, place 0 is
  empty, `recover(file)` stops there (`Zdb.cpp:1615`), and 1, committed and written, is lost at the next start:
  `Durable` without its exemption of `gapped`. Had 1 been aborted instead, the next start gives its number to a new
  record, and when the file is opened again after the new 0 was written, the abort is marked in its bitmap
  (`Zdb.cpp:1676`): the new 1 goes with the file when 0 is deleted. `Readable` without that exemption fails with
  seven numbers; and since an update of what was lost finds no older version to erase, so does
  `VersionsErased`, with nine.
* An application that deletes records whose write is queued, as `ZdbTest.cpp:115-116` does, loses what
  it keeps: `Durable` with `DelQueued = TRUE`.
* `m_minRN` is set by `recover()` and `purge()` only, so a purge begins at the numbers of the last start.
* `get()` of a record between its `putUpdate()` or `del()` and the write brings its stale version
  back into the cache.
* A crash in the middle of the erasure of a chain leaves an older version on disk (`torn`).
* Of two threads the one that updates a record may queue its write before the other has queued the write of the
  version it replaces (`Zdb.cpp:1958`). The update finds nothing to erase, and the older version is written
  after it and stays: `VersionsErased` without its exemption of `late`.
* `recover()` ignores a last file of empty slots, and takes a record it finds deleted from the cache
  but not from the LRU list; `purge()` of a slot that was never written deletes record number 0.
* So `purge()` overlooks a version whose write is queued and that left the cache to an update without replace,
  and when it comes to that update, whose place a later record's write has marked deleted by then, it writes
  the mark again as a deletion with nothing to erase: the version stays on disk with a number below the
  purge. `VersionsErased` without the update itself in its exemption of `filled`, with five numbers.

ZmRing:

* `push_()` takes an empty ring for a full one when the head it loaded is old (`ZmRing.hpp:323`), and
  waits, when a writer is held up while the ring goes round.
* A writer held up between its loads and its exchange for exactly twice the ring claims a position
  that is in use (`ZmRing.hpp:334`), and that of others that wait to claim it: `IsFifo` without its `spoilt`.
* Of two writers that wait for room one is never woken (`ZmRing.hpp:427`): `EveryoneWakes` with both
  writers blocking and `N = 1`.
* `eof()` on a full ring replaces the oldest item by the mark (`ZmRing.hpp:370`): `EndMeansDrained` without its
  `spoilt`. `eof()` that overlaps a push may store back a head without it and never reach the reader
  (`ZmRing.hpp:374`), which `ZmScheduler::stop()` joins: `EveryoneWakes` without its `spoilt`.

ZmScheduler:

* A deferred call that finds no room when it is due is put back, and its caller's timer no longer
  knows it (`ZmScheduler.cpp:323`): `del()`, which `ZmScheduler.hpp:266` calls "cancel timer", does
  nothing, and the call runs. `CancelledNeverRuns` exempts what was `retried`.
* A call added to the overflow ring of a thread that has gone to sleep waits for the ring's timeout,
  and for ever without one (`ZmScheduler.cpp:429`): `CallsEnd` with `Timeout = FALSE`.
* Calls in the overflow ring when `stop()` ends their thread stay there until the next `start()`.
* Of two threads that end together one decrement of `m_runThreads` may be lost, and `start()` then
  starts one of them only (`ZmScheduler.cpp:510`): `CallsEnd` with `NThreads = 2`.
* A call of `start()`, `drain()` or `stop()` that waits for a state does not return if another call
  leaves that state first (`ZmScheduler.cpp:203`).
* Deferred calls that are due together are queued latest first: the iterator goes down
  (`ZmScheduler.cpp:305`, `TimerDue`).
* `add()` and deferred calls may overtake the caller's earlier calls, which are in the overflow ring
  (`ZmScheduler.cpp:465`): `RunsInOrder` without its `added`.

Sequenced queues:

* `MxQFn` (`MxQueue.hpp:85-86`) does not clip. If a fill of several numbers came to a queue of its
  items (`MxQMsgData::skip(n)`, which nothing in the repository calls), the order would still be kept
  (`pq_order`), but an assertion (`ZmPQueue.hpp:882`) would fail, and with three messages and one fault the
  receiver would not catch up: `TypeOK` and `CatchesUp` without `NoPartialOverlap`.
* No link fills a gap: an aborted message leaves its receiver asking for it for good, `CatchesUp` without
  `NeverFilled`.
* A `send_()` that fails and calls `stop()`, as `ZmPQueue.hpp:1246-1252` tells it to, has its flag cleared
  under it, and `CatchesUp` fails without its `~use.stopInSend`.
* `stopQueuing()` notes the gap it finds without asking for it (`ZmPQueue.hpp:1144`, as against `1218`),
  so a lost message is asked for only when another one arrives: `CatchesUp` without `LeftBySnapshot`.
* `m_gap` stays when its gap is filled; `rxReset()` leaves a scheduled dequeue behind.
* `MxQueueTx` takes `% n` of its number of senders, which is 0 when none is ready.

MxT:

* A simulated modify's cancel whose acknowledgement overtakes a fill leaves the two sides with
  different quantities (`MxTOrderMgr.hpp:1155`): `Agrees` with a profile both simulated and early
  in answers, which `MCProfiles` leaves out. The replacement is queued all the same, and the fills that
  come then may leave nothing of it: a new order of quantity 0 is sent (`TypeOK` with a profile that is
  also unasked).
* A market that rejects the cancel of a simulated modify leaves the modify deferred on a live order
  (`MxTOrderMgr.hpp:1026-1034`): nothing sends it or answers it, and `filterModify()` refuses every later
  modify until a cancel of the client's takes it away. `Agrees` exempts it; without the exemption it is violated.
* Markets that act unasked and out of order break `Agrees`; unasked cancels and modifies are taken for
  the answers to the client's, whose real answers are then abnormal: `Orderly` without `~unasked`.
* After early fills have implied a modify, its late acknowledgement acknowledges the next modify.
* After a simulated modify the replacement's acknowledgement also sends the modify to the market.
* mxt's own legs never copy `cumQty`, so that the event state pending fill is out of reach, and a
  closed order may keep `leavesQty` (`copiesCum`).
* `closed()` answers no request that is deferred or queued; a cancel of an order that is still queued
  closes it without clearing `leavesQty`; `modRejectCxl()` ends one path without a return value.

MxMD:

* An order that moves to a level a snapshot has read, or never comes to because its iterator has taken
  the next level already, is in the snapshot nowhere, and its modify finds no order at the subscriber
  (`MxMD.cpp:722`): it is missing there until it is added again. `SnapshotAgrees` exempts it (`passed`).
* The iterators hold the node they come to next, and nothing keeps it: if the feed deletes that order or
  level the snapshot reads freed memory, and if it moves the order the rest of its level is skipped.
  `SnapshotAgrees` says nothing of such a snapshot (`strayed`); without that condition it is violated.
* `reduceOrder()` keeps the order's place but streams a modify without rank (`MxMD.cpp:836`): at the
  subscriber the order goes to the end of its level. `match()` closes no ranks and the subscriber's
  cancel does. So no property says that the subscriber's priorities are those of the publisher.
* `OBSide::reset()` does not tell the book above of the market level (`MxMD.cpp:902`): what it held
  stays there. `BooksAddUp` asks only for an inequality at that level.
* The book above is streamed as differences (`MxMD.cpp:555`): replayed after a snapshot that has
  them already they count twice. The model's subscriber follows a book of orders.
* `addOrder()` of quantity 0, or a failed deletion, leaves no level to tell the book above of, and a mapped
  book dereferences a null pointer (`MxMD.cpp:699`); the feed of the model makes no such call.

## 6. Not modelled, and the plan

The operating system, formatting, configuration, cryptography, terminals, JNI and the telemetry
monitor have no logic this method would help with. Most of the repository's lines are of that kind,
or are containers and vocabulary types used by one thread at a time, which is why the map covers a
small share of them. Also left out: the low-latency mode of the rings and their Windows semaphores;
telemetry; links added or removed while an engine runs; several databases in one environment and
deltas of records; `push(rn)` and the store of a replica; the pool of senders of `MxQueueTx`; what MxT
tells its client, held orders, several legs and its database; MxMD's top of book, trades, decimal
places, reference data and sessions; the venue's own `modifyOrder()`, `reduceOrder()` and
`cancelOrder()` (`MxMD.cpp:730`, `801`, `868`), which change the index on the caller's thread and the
book later on the shard's, and which nothing here calls.

Planned, most important first:

1. `ZdbCluster`: `PutIsKept`, which needs the order of the copies of a record on the way; three hosts (a
   chain).
2. Proofs about `MxMDOrderBook`: adding to a level, taking from one and `Replace` change the sums of
   `BooksAddUp` by the same differences, one addition at a time, as the engine's counters are.
3. `MxTOrderMgr`: `Agrees` for markets that answer early.
4. `ZiRing`: attach, detach, dead readers. The recorder and the replayer of MxMD, composed from
   `MxMDStream` and `ZmRing`.
