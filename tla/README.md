# ServerPlatform in TLA+

ServerPlatform is a small star of servers. **ServerCenter** is the hub: every
other server process links **CenterClientLibrary** (or its variants), connects
to the center over TCP, registers a name, and from then on sends data and
commands to other servers by name or by handle, all through the center.
A script thread in the center executes commands that are addressed to no server.

The modules here model the protocol of the star, the session objects under it,
the script thread beside it and the interpreter that it runs, the library for
processes with several centers, the addon for Node, and the containers that all
of them use. TLC checks them on small instances; the proof system TLAPS proves
the central invariants for every value of the constants. All paths below are
relative to `src/`.

Run `tlc -config MCX.cfg MCX` for a model (`MCStarNetwork` has two configurations,
`MCStarConverges.cfg` and `MCStarAnswered.cfg`) and `tlapm XProofs.tla` for the
proofs. `PROJECT.json` lists the runs, the theorems, the source lines behind each definition, the hazards of the code with the properties that cover them, and
for every property a change of the code that the property detects.
Operators marked `Mutant:` in a comment, or named like one beside the operator
they vary (`PushLineEarly` beside `PushLine`), are those changes; no
specification uses them.

## 1. The system

| Component | State | Operations | Interacts with |
|---|---|---|---|
| TCP session, `Common/NetBase/tcp_session.cc` | `TcpSession` object, reference-counted `Impl`, `bufferevent` | construct, SetCB, Send, IsValid, destructor; `recv_cb`, `event_cb` | libevent calls it; it calls its owner's receive and error callbacks, in which the owner may delete it |
| Event loop, acceptor, connector, `Common/NetBase/` | event base, listener, one pending connect each | poll, accept, connect | hand new sessions to the session managers |
| Messages, `SessionInfo/SessionInfo.h` | none | eight message classes, `IsValid` | sent both ways between center and clients |
| ServerCenter, `ServerCenter/` | `m_Sessions` (handle to session and name), the last sync time, `m_CurSrc` | OnAccept, AddSession, OnSessionReceive with a handler per message, OnSessionError, Tick | all clients; pushes lines to the script thread and pops its results |
| CenterClientLibrary, `CenterClientLibrary/` | session, own handle, `m_NameHandles`, sequence, `g_ConnectFinish` | Tick, connect callbacks, a handler per message, SendByHandle, SendByName, the two SendCommand functions, Disconnect | the center; the application through callbacks |
| Script thread, `Common/ConfigScript/ScriptThread.cpp`, `Common/Thread.cpp` | queue of lines, two line buffers, run flags, the interpreter, thread counters | PushLine, PopLine, Load, run, stop | shares its flags with the main thread without a lock |
| CenterHubLibrary, `CenterHubLibrary/` | the configuration; a session manager per world, with its address, name and session | Init, Tick, ReloadConfigScript, Disconnect, Release | a center for each world; the application through callbacks, in which it may reload or disconnect |
| Node addon, `node_center_client/` | network thread, byte fifo `kfifo` | push and pop of messages, `core_quit` | the JavaScript thread |
| Lock-free queues, `Common/LockFree/` | ring of words, ring of bytes, linked list with a pool of nodes | Push, Pop | any number of threads, by compare-and-swap |
| Containers, `Common/Hashtable.h`, `Chain.inl`, `Queue.h`, `Heap.h`, `ObjectPool.h` | slots and chain, ring, array | add, find, remove, walk; push and pop | used by all of the above |
| AdminTool, `AdminTool/` | the objects of its script threads with their status, queue of lines and flags; the thread counters | startScriptThread, markWaitingQuit, runscript, stopScriptThread, quit; the rounds of the threads; the end of `main()` | its scripts talk to servers under test |
| SimpleScript, `Common/SimpleScript/calc.cpp` | runtime tree of a script; stack of frames, values, objects, a pool of value cells, the run flag | Execute of every kind of statement, call, operator and member access | the script thread runs it, and another thread stops it at any point |

### What is hard in it

* **Handles are file descriptors.** The center names a session by the number of
  its descriptor, which the kernel gives to the next connection as soon as the
  socket is closed. Messages addressed to a handle may be under way meanwhile.
* **Two directories that follow each other.** A client's table of names is
  patched by announcements, is not cleared when the connection is lost, and a
  removal goes by name only, so the late removal of an old session wipes out the
  name of the server that has already reconnected. A sync each minute is what
  repairs it.
* **Objects that delete themselves inside their own callbacks.** An error
  callback deletes the session whose event is being handled, and an application
  may call `Disconnect()` from its message handler.
* **Flags without a lock.** The main thread lowers the run flag when it pushes
  a "." line, the script thread raises it when it has come to that line, and
  the shutdown lowers it again; the queue is locked, the flags are not.
* **Compare-and-swap.** The queues of `Common/LockFree` move an index first and
  the data afterwards, and reuse cells and nodes that another thread may have
  read.
* **Callbacks that call back.** A reload of the hub drops sessions one world at a time
  and tells the application of each, which may reload or disconnect again.
* **A stop in the middle of an expression.** Every `Execute` of the interpreter
  gives up when the run flag is off, and whoever called it must not use what it returned.
* **One variable for several askers.** `m_CurSrc` holds one handle although
  several commands can be in the queue of the script thread.

### What makes each component correct

* TCP session: no use after free and no double free wherever the owner deletes
  it, no leak, `IsValid()` tells the truth between callbacks.
* Star: a handle names one session at a time, no client uses the handle of an
  earlier session of its own, directories follow the center's table and in the
  end agree with it, a client without a session gets one again.
* Transmits and commands: delivered at most once, acknowledged truthfully, to
  the server that was named, answered while the connections last, and results
  go to whoever asked.
* Hub: every world has the address and the name of the last configuration and a session that
  was made with them; each session is deleted once; the application hears the end of
  every name it was told.
* Lock-free queues: a call that succeeds is a step of one bounded first-in-first-out
  queue, a call that fails has a cause, no freed node is used.
* Containers: what a map in order of insertion, a sequence, a priority queue and a
  pool promise.
* Interpreter: a script ends with the variables and objects it means, calls leave
  their caller's variables alone, a stop ends every script without a further effect.
* Script thread: "." interrupts, the thread is never left ignoring statements,
  a stopped thread executes nothing, the process ends when a script calls
  `quit()`, the thread object is deleted after the thread is done with it.

What can go wrong in this code and a test would hardly reach is listed, at its
line, under `hazards` in `PROJECT.json`, with the properties that cover it or the
reason why none does.

## 2. The modules

```
TcpSession  <-  MCTcpSession, TcpSessionProofs

SessionInfo <- Connections <- ServerCenter --\
                          \<- CenterClient ---+-> StarNetwork <- StarProperties <- MCStarNetwork
StarProperties <- StarPropertiesProofs

ScriptThread <- MCScriptThread <- ScriptThreadProofs
MCScriptThread has an instance of AdminTool, which ScriptThreadProofs is about too

KFifo <- NodeAddon <- MCNodeAddon, NodeAddonProofs
         NodeAddon implements MessageQueue

StarProperties <- MCStarMessages

CenterHub <- MCCenterHub, CenterHubProofs

CalcOperators <- ScriptObject <- Interpreter <- MCInterpreter, InterpreterProofs

RingQueue, LinkQueue                 implement BoundedFifo
HashTable, call by call,             implements OrderedMap
Heap, call by call,                  implements PriorityQueue
Deque <- ObjectPool
RingQueue <- MCRingQueue, MCContainers
MCContainers <- ContainersProofs
LinkQueue <- MCLinkQueue, MCLinkQueuePushers, LinkQueueProofs
MCContainers has instances of the other containers
```
(`A <- B`: B extends A.)

### TcpSession

One process with any number of sessions on one event loop. `loop` says which
callback of which session is running and how far; `recv_cb` is split at each
frame and `event_cb` into its four parts, because between them the owner's
callback runs and can delete the session. An illegal access cannot be seen in
a value of C++, so `fault` collects them: each dereference of `Impl` or of the
bufferevent in the code adds the fault it would be if the object were gone.
libevent is external: callbacks of one loop do not overlap
(`BEV_OPT_DEFER_CALLBACKS`) and none starts after `bufferevent_free`.

The model reaches one illegal access, and `MemorySafe` names it: when a receive
callback deletes the session and another complete frame is in the buffer,
`recv_cb` hands the dangling `impl->session` to the next callback. The
comment at `tcp_session.cc:30` only speaks of the error callback.

### SessionInfo, Connections, ServerCenter, CenterClient, StarNetwork, StarProperties

`SessionInfo` has one constructor per message class. Payloads are numbers that
no two sends share; the field `of` of the results is not sent by the code and no
handler reads it, it lets the properties tell which request a result answers.

`Connections` is TCP as the session managers see it: numbered connections, two
ends that open and close on their own, a FIFO each way, writes to a closed peer
lost, and what is in flight lost with the reader's failure. The set `Faults`
says which kinds of failure a model has.

`ServerCenter` has one action per callback: `AddSession` (OnAccept),
`HandleMyName`, `HandleTransmit`, `HandleTransmitResult`, `HandleCommand`,
`OnSessionError`, and `Tick(due)` where `due` says whether the minute is over.
`m_Sessions` is the set `sessions` with the functions `fd` and `value`; its
order of insertion, which decides the order of the messages of a broadcast, is
the order of the connection numbers. `ScriptRun` is all the center sees of the
script thread: a line leaves the queue and a result may come back. Sessions
that find the table full are accepted but not registered, as in the code.

`CenterClient` has one action per handler and per call of the API. The
connector is three states: idle, pending (`g_ConnectFinish` is false and a
callback will come), thrown (it is false and none will: the handler for
`std::exception` at the end of `Tick` does not set it). `MessageClearNameHandleList` has no effect on a
client, because it is one byte long and `OnSessionReceive` requires more; the
model has it do nothing (`IgnoreClearNameHandleList`), which is why names that
are gone from the center leave a directory only by their own removal.

`StarNetwork` interleaves the two and states fairness and the invariants about
handles; `StarProperties` states what the star is for. `erased` is a history
variable: the names whose announcement was undone by the removal of an older
session of that name since the last sync.

Bounds of the star, all named constants: `MaxConn` connections per behaviour,
`MaxTransmits`, `MaxCommands`, `MaxBacklog` (a sync starts only while channels
hold fewer messages). `MaxSessions`, `MaxNames` and `MaxLines` are
capacities of the code's tables, made small.

### ScriptThread

Two threads. The main thread pushes lines, leaves its loop when `g_IsRun` is
false, announces the end, stops the thread (two stores), waits for the thread
count and deletes the object. The script thread goes round: clear the buffer,
parse (loading lines while the statement is unfinished), execute, answer what
is in the back buffer. Each unlocked load and store of a flag is its own step;
`PushLine` and `PopLine` hold the lock and are one step each.

Lines are abstracted to what becomes of them: an ordinary statement, one that
runs until it is interrupted, one that calls `quit()`, two kinds of unfinished
text, ".", another command, and `runfile`. The two kinds of unfinished text
differ in the code: when the input ends after a member operator (`a.`, `a->`,
`a::`) the parser's error handler fetches one more token
(`Common/SimpleScript/SlkError.cpp`, `no_entry`), which loads again and can
overwrite the "." in the back buffer. `lostDot` records that; `overtaken`
records that the reset for one "." came while another was queued.

The flags are plain `int`s used by two threads. The model takes them to be
read and written one after the other in the order of the source. A compiler may
merge the two adjacent stores of `stop()`; that is a behaviour of the model in
which nothing happens between them.

### AdminTool

The console program runs a script on its main thread, and that script starts,
feeds, stops and restarts script threads. They are the threads of
`Common/Thread.cpp` with a `ScriptThread` class of the tool's own, which differs
from that of the servers: `run()` first calls `Reset()`, and an object is used
again when its thread has ended. `m_Status`, a plain field, says whether it may
be. The variables with an `m_` are fields of each object; `threads` has the system
threads with where each one is. Every load and store of a flag, of the status
and of a counter is a step.

Four things the code lets happen are recorded in histories, and the properties
except them by name:

* `hasty`: `startScriptThread` starts every object whose status is READY, and it
  is READY until the new thread has stored RUNNING. A second call before that
  puts two threads into one object.
* `early`: a `stop()` before the thread's `Reset()` is undone by it. Between the
  stores of `Reset()` only one half is: the thread goes on with the run flag
  down, executes nothing, and looks at the run flag before it looks whether it
  should quit.
* `missed`: the same at the end of `main()`, which stops the objects that are
  RUNNING at that moment, and then waits for a thread that nobody will stop.
* `uncounted`: a thread counts itself in. `main()` may compare the counters before,
  and deletes the objects although one of their threads has still to run.

`MCScriptThread` puts a server and the tool side by side: a behaviour is of one
or of the other, and `which` says which.

### MessageQueue, KFifo, NodeAddon

`KFifo` is the ring of `kfifo.h`: cells, and two counters that run freely and
wrap at a power of two above the size of the ring. `NodeAddon` is `main.cc` of
`node_center_client`: the network thread ticks the client library and pushes
what its handlers receive, head first, payload second, each as a copy and a
store of the counter; the JavaScript thread takes messages out in
`core_process_message`, starts the network thread, and joins it in `core_quit`,
which a message's callback may call too. A callback that throws leaves
`core_process_message` as a C++ exception, because `binding.gyp` turns
exceptions on, and the message stays in the fifo.

A byte is a pair of its message and its offset, so a head or a payload that is
put together wrongly, or overwritten, shows. `MessageQueue` is what the
addon promises: what is pushed is handed over once, whole and in order, or
discarded when it is large. `WholeAndInOrder` says that `NodeAddon` implements it,
with the messages between `settled` and `accepted` as the abstract queue.

The order in which one thread sees the other's stores is taken to be that of
the program, as on x86; the source has no fence. The application is taken
to call `core_start` only when no network thread runs and not to call
`core_process_message` from a message's callback. The application that is in the repository,
`app.js`, only starts the addon.

### CenterHub

One application thread. The library is called by it, calls it back, and is called
again, so the state has the stack of calls that are under way: a reload with
the number of its next entry, a session that is being dropped, the application in a
callback. `DropSession` and `Drop` are the two halves of `SetSession(NULL)` around
the callback: the pointer is read again after the application returned, which is
why a session that it has dropped meanwhile is not deleted twice (`DeletedOnce`).

What the code does and the comments of the properties name: a connect that is
under way during a reload leads to the old center and stays there (`late`); a
world that is renamed while it has a session tells the application the end of the
new name (`renamed`); a world that left the configuration keeps its manager;
Release tells nobody; a world beyond `MaxManagers` gets a manager that
nothing refers to.

The message handlers of a session manager repeat those of CenterClient with the
number of the world added, and are modelled there.

### RingQueue, RingBuffer, LinkQueue, BoundedFifo

One action per load, compare-and-swap, exchange or copy of shared memory, with
tags that wrap; the counts of the list do not. `BoundedFifo` is what they promise; a call takes effect at its
compare-and-swap. The ring of words and the list implement it. `FailsForCause` adds what a
trace of the abstract queue cannot say: a Push or Pop that fails has had a cause at some moment of the call (a full queue
or an unfinished pop, an empty queue or an unfinished push), or was overtaken by a call that succeeded.

The ring of bytes promises less, and `BufferKeepsMessages` says what: Pop moves the head
before it copies, so a push may overwrite the bytes of the message; the flag of
the record holds it back only until the record is cleared. `overrun` marks the messages
that this happened to.

Memory is sequentially consistent. The atomics of `Atomic.inl` are full barriers; plain
reads between them are not, but on x86 loads are not reordered with each other.

### HashTable, OrderedMap, Heap, PriorityQueue, Deque, ObjectPool

Each function of the containers is one step, because their callers hold a lock or are one
thread. `HashTable` has the slots with their double hashing and the chain of used
slots with its links, `OrderedMap` a sequence of entries and what is left of a walk.
The walk is the loop of the sweeps in both session managers, which removes
entries from the table it walks over. The heap is checked against a bag.
`TableAndHeap` compares call with call: a `Get`, `Remove` or `Add` is the call of the map
with the same key and value, a visit of the walk removes when that of the table does, a `Push`
or `Build` puts the same numbers into the bag, and a `Pop` takes out one of the largest and nothing else.
That each step is some step of the map or of the queue would say less: a `Remove` that does
nothing is what the map does for a key that it has not.
The deque, whose ids are also walked both ways as `CopyFrom` does, is checked against a
sequence that is kept beside it. The pool's free objects wait in such a deque.

### CalcOperators, ScriptObject, Interpreter

`CalcOperators` has the operators on integers of a given width. `ScriptObject`
is `ObjectBase`: named and numbered members in the order of their coming, a capacity that
grows by `CapacityDelta`, and accessors that a growth deletes. `Interpreter` runs a
script as a tree of statements. The C++ call stack is the sequence `acts` of
activations, each an `Execute` with the place it has come to; a step enters one,
leaves one, or does the next thing of the innermost. The frames, the array of
values they share, the objects and the pool of cells are as in `calc.h`. Another
thread may lower the run flag between any two steps, and each `IsRunFlagEnable()` of the code is
a read of it.

What a script can be is `Translated`, after the `PrepareRuntimeObject` functions: which variables a
statement in a function may name, what the operands of each kind of statement are, and what its
statements are, inside functions and outside. `MCInterpreter` has scripts, which TLC finds to be
`Translated`, and beside them the meaning of a script: a recursive
evaluation over values, with no stack, no cells and no flags. `EndsAsItMeans`
compares the two at the end of every script.

What the model does beyond the properties, and where the language surprises:

* an assignment of a variable to a variable stores a reference, and a swap of two
  variables makes a cycle in which `ReplaceVariableWithValue` recurses for ever (`calc.cpp:30`);
* a call deeper than the limit of levels pushes no frame but pops one
  (`calc.cpp:5257`): `full` marks it, and the caller's variables are lost then;
* a bare `return;` does nothing (`calc.cpp:2787`), and a constant that is Invalid is an operand left
  out: `while` goes on without a test, `foreach` runs a round without assigning, `goto` does nothing;
* `arg(i)` with an index that is no integer is Invalid, a negative index counts the parameters, and
  `arg(i, v)` writes one (`calc.cpp:1802`); outside of functions it goes through a null pointer: `crashed`;
* `||` takes only 1 for true;
* a goto to before the start of its list reads in front of the array (`calc.cpp:4722`): `crashed`;
* `if(c) goto(2);` with a constant takes whatever value a cell of the pool was left with
  (`calc.cpp:2664`), because cells are not reset; so does a call of what a statement
  returns, when a stop has cut that statement (`calc.cpp:4806`);
* an operator that computes Invalid and stores it in a member reads the member instead (`calc.cpp:3549`).

Scripts that do so are the set `Others`, which is run for everything except what it means.

## 3. What is checked

| Run | Instance | Question |
|---|---|---|
| `tcp_session` | 2 sessions, 2 frames | `MemorySafe`, `NothingLeaks`, `IsValidMeansOpen`: can the owner's deletion, wherever it happens, hurt `Impl` or the bufferevent, or leak them? |
| `star_converges` | 2 clients, 3 connections, lowest free descriptor, fair | `DirectoryTracksCenter`, `DirectoryConverges`: do the announcements under way always lead a directory to the center's table, except for erased names, and when no more connections are made, does every directory end up right? |
| `star_messages` | 2 clients whose end of a connection closes first; 1 transmit with 3 connections, 3 descriptors, a table of 2 sessions and no restart of a process; or 2 commands with 2 connections, a queue of 1 line and restarts, once the names have been told | `HandlesUnique`, `OwnHandle`: do handles stay unambiguous when descriptors are used again? `AtMostOnce`, `AcksAreTruthful`, `NamedDelivery`, `ResultReachesAsker`: what can reconnects and reused descriptors do to a transmit, and does the result of the newest command find its sender? |
| `star_answered` | 2 clients, 2 connections, 1 transmit, all faults, fair | `TransmitAnswered`, `ReconnectsUnlessThrown`: is a transmit answered unless a connection fails, and is a client without a session connected again? |
| `script_thread` | server: every kind of line, queue of 2, 4 pushed lines, a file of 2 lines; admin tool: 2 objects, 2 threads, 3 calls of the main script, queue of 2; fair | `NothingRunsAfterStop`, `NeverDeaf`, `NothingHeldBack`, `DotInterrupts`, `ShutdownCompletes`: do interrupts and the shutdown work in every interleaving? `ToolObjectsHaveOneUser`, `ToolThreadsEnd`: does an object of the tool have one thread, does it outlive it, and does a thread end when it is told to? |
| `node_addon` | ring of 8 cells, counters modulo 16, heads of 2 cells, payloads of 0, 1 and 3, packets up to 4, 5 messages, 2 starts, a callback that throws, fair | `ReleasedWhenUnused`, `WholeAndInOrder`, `QuitReturns`, `MessagesArrive` |
| `center_hub` | 2 worlds that change addresses and names, the first load and 2 reloads, 2 connections, callbacks one deep, fair | `DeletedOnce`, `SessionFollowsConfig`, `EndsAreTold`, `EveryWorldConnects` |
| `containers` | ring of 2 words: 2 pushers, 2 poppers, tags modulo 4; ring of 3 bytes: 2 pushers, 1 popper, messages of 1 and 2; table of 3 slots and 4 keys; heap of 4; deque and pool of 3 | `ImplementsFifo` (of the ring), `FailsForCause`, `BufferKeepsMessages`, `TableAndHeap`, `DequeAndPool` |
| `link_queue` | list of 3 nodes that are recycled, room for 3 values: 1 pusher with 3 pushes, or 2 with 1 each; 2 poppers | `ImplementsFifo`, `NodesAccountedFor`, `NoFreedNodeUsed`: is the list a queue, is each node in one place, and does no thread but an overtaken one use one that was given back? |
| `interpreter` | 4-bit integers, 12 cells, 3 levels, 12 values; 256 generated functions, every operator on a few operands, recursion, objects, parameters that are read and written, operands left out, endless scripts; a stop anywhere | `EndsAsItMeans`, `CallsKeepTheirVariables`, `StopEndsScript`, `NothingActsOnCutResult` |
| `ring_queue_win64` | 1 pusher, 2 poppers | a finding: `ImplementsFifo` is violated by the swap of the 64-bit Windows build |
| `link_queue_pushers` | 2 pushers, 2 pushes each, 1 popper | a finding: `ImplementsFifo` is violated |

The first ten hold. Exceptions that the code makes are part of the property and
are named in its comment: an erased name until the next sync, a descriptor that
was given out twice, an exception thrown by Connect, a "." overwritten by the
parser, a second "." under one flag, `core_quit` while the network thread waits
for room in the fifo, a last message without payload, a connect during a reload, a
message overwritten while it is popped, a foreach cut by a stop. Each was found by stating the property
without it and reading TLC's counterexample.

Two runs show the code at odds with what it says of itself:

* **`ring_queue_win64`.** `Common/LockFree/Atomic.inl:560`: on 64-bit Windows the result of
  `compare_and_swap` is 0 after a swap and 0xff otherwise, and its caller compares it with 1.
  Every swap is taken for a failure, so Push moves the tail without
  storing a value. On the other platforms the ring is a queue (`ImplementsFifo` holds in `containers`, and `RingIsOneQueue` is the proof).
* **`link_queue_pushers`.** `Common/LockFree/LinkQueue.h:137` swaps the next pointer of the
  node that is the tail by then, not of the one it has read and checked. When the
  tail has moved to a node that another push has just taken from the pool, Push returns true and
  the value is not in the list. It takes nodes that come back: with one pushing thread, or with two that push
  once each, the list is a queue (`link_queue`; `ListIsOneQueue` is the proof for one).

**Why these bounds.** Two clients are enough for every relation the star has
(a sender and a receiver, an old and a new session of one server, two askers);
three connections let one of them reconnect while the other stays, which is
what erased names and reused descriptors need. In the run with symmetry any free
descriptor may be given out, which includes the POSIX rule of the lowest; the runs with
fairness use the lowest, because symmetry is not sound for liveness. A table
of two sessions lets the third go unregistered, a queue of one line lets a command be
dropped after `m_CurSrc` was set. In the script thread two places in the queue are enough
for a full queue and for a "." in front of another line, and four pushes for
two dots with a statement and an unfinished line between them. In the admin
tool three calls start an object, have its thread quit and start it again, or
start it twice and stop it, or run a loop and interrupt it. In the node
addon the sizes 2, 3 and 5 in a ring of 8 put the end of the ring into a head,
between head and payload and into a payload; five messages take the counters
past their wrap.

In the ring of words four threads have a push, a pop that lost its place and another
push and pop under way at once, and tags modulo 4 wrap within a behaviour. A ring of 3 bytes
has messages across its end.
Three nodes in the list let a node come back from the pool, and
into the list, while a pop holds an old copy of it. A table of 3 slots with 4 keys is full, and
has no slot left that was never used, after a few calls. The scripts are every pair of
statements from a list, before a third that counts, in each kind of
loop inside a function: a jump and what it meets are always two statements at most.
12 values and 3 levels let recursion reach both limits.

The limits of `star_messages` (which end closes first, which failures meet a transmit) are of that
run alone: its six properties are proved for the specification without them, as
`DirectoryTracksCenter` is for that of `star_converges` with every kind of failure.
`star_converges` sends no transmits and `star_messages`
has no sync (`MaxBacklog = 0`): the messages of each kind do not change the state that
the other kind's handlers read, other than through sessions and descriptors, which both have.

**Deadlock** is checked everywhere but in `script_thread`, where the process
really ends, and in `node_addon`, where `core_quit` can wait for ever; `Stuck`
says when, and `QuitReturns` that there is no other way. It is not checked in `center_hub` either,
where the bounds on reloads and connections end a behaviour, nor in `interpreter`, whose scripts end.

### Fairness

* `TcpSession`: weak fairness of the steps inside a callback only: a callback
  that was entered returns. Nothing makes data arrive or owners act.
* Center: weak fairness per connection of accepting and handling what is
  there, and of the sync. `main()` polls and ticks in a loop, and the sync is
  due after each minute. A client that is gone is noticed, since the center
  writes to every registered session at each sync.
* Clients: weak fairness of handling messages and of `Tick`, which the
  application calls in its loop; strong fairness of `OnConnected`: the center
  is reachable again and again. That is an assumption on the network, and
  failed attempts between are possible.
* `ScriptThread`: both threads are scheduled. Nothing makes the main thread
  push lines, and nothing makes a loop end except the run flag.
* `AdminTool`: every thread is scheduled. Nothing makes the script of the main
  thread call anything, `quit()` included.

* `NodeAddon`: both threads are scheduled and the application calls
  `core_process_message` for ever. Callbacks throw a bounded number of times.

* `CenterHub`: the calls of the library return, the application ticks for ever, and strong
  fairness of `OnConnected`, as for the clients of the star.

* `Interpreter`: the thread that executes the script is scheduled. Nothing lowers the run flag.

## 4. What is proved

For every value of the constants that satisfies the assumptions named in the
modules (the empty name and the null handle are not a name or a handle,
capacities are natural numbers, a world has one entry in a configuration).

* `TcpSessionProofs`: `TypeCorrect`, `MemorySafety`, `LiveCallbacks`, `NoLeak`,
  `ExactIsValid`. `MemorySafe` is not inductive, because nothing in it says why
  an access is legal. `IInv` adds what the reference count means, one for the
  session while it lives and one for the callback while it runs, and that
  `Impl` owns the bufferevent except between `bufferevent_free` and the reset of
  `Impl::bev`. All five theorems follow from it.
* `StarPropertiesProofs`: `TypeCorrect`, `UniqueHandles`, `OwnHandles`, with any
  number of servers, connections, descriptors and messages under way.
  `OwnHandle` depends on what is under way to a client, so `IInv` adds
  `OwnMessagesOnly`: a MyHandle message on a connection carries the descriptor
  of that connection. `OpenHasHandle` (an open end has a descriptor) gives the
  type of what is sent and `MadeInOrder` (connections past the counter do not
  exist) makes a new connection fresh. There is a lemma per handler and per
  broadcast, and the step theorem only collects them.
* `ScriptThreadProofs`: `TypeCorrect`, `ObjectOutlives`, `StopStops`,
  `FlagIsOwned`, `HeldBackNever`. Besides the properties the invariant has
  `Counted` (what the two thread counters say of where the thread is, and that
  with an event base the main thread leaves its loop only after a script ran)
  and `Stopping` (after the first store of `stop()` the flag `m_IsContinue`
  stays down, so that a thread that starts another round leaves).
* `NodeAddonProofs`: `Released`, by the invariant `OneNetworkThread`: a network thread
  that runs has its handle set and the library live, so no second
  thread is started and `core_quit` joins the one there is. `TypeCorrect` and
  `MessagesWholeAndInOrder` (the addon implements `MessageQueue`), for a ring of any size,
  counters that wrap at any multiple of it, heads and payloads of any length that fits and
  any number of messages. The invariant is about bytes: a function `at` gives the number of
  bytes that were put in before each message, and `Placed` says that the bytes between
  what is taken and what is stored are in the cells that `out_` and their distance
  from the first of them name. `Room` says that the room the network thread has seen is still there when it
  copies, since only it fills the fifo: so put() never drops anything. `Counts` says that the fifo is longer
  than a head only when a whole message is in it (`LongerThanHead`), which is why
  ProcessCoreMessage can read a payload without looking for it. The lemmas before them are about the counters:
  cells less than a round apart differ (`CellsApart`), and a counter that wraps
  goes on in the same cell (`CellWraps`, where `Wrap` has to be a multiple of `Size`).
* `CenterHubProofs`: `TypeCorrect`, `EverySessionDeletedOnce`,
  `ConfigReachesSessions`, `EndsTold`, for any number of worlds and callbacks of
  any depth. The last two speak of the moment when no call is under way, and
  say nothing of the calls that lead there; the invariant reads the stack of
  calls. `ConfigInv`: every entry of the configuration is in force, or a loop of
  `ResetSessionManagers` on the stack has still to come to it (a nested reload
  replaces the configuration and pushes a loop over all of the new one, so the
  outer loop may go on with whatever it finds). `FollowInv`: a session follows
  its manager, or a frame on the stack is dropping it. `ToldInv`: a world with
  such a frame has had its end told. `SessionInv`: a connection has one owner,
  and a manager that is connecting has none, and `StackInv`: the first call of
  `Init` and the released state are never below another call. There is a lemma
  per action; `Push` and the lemmas about it say what a call adds to the worlds
  being dropped and the entries to come.

* `StarPropertiesProofs`, on top of that invariant, for any number
  of transmits, commands, restarts and failures and any reuse of descriptors:
  * `DeliveredAtMostOnce`, `AnswersAreTruthful`, `DeliveredByName`. `AtMostOnce` counts
    messages in all channels and histories, and no step can be seen to keep a count.
    `OnePlace` says instead that any two places that hold a transmit are the same place,
    which each handler keeps because it takes its message out before it forwards,
    refuses or delivers. `GoodMessages` says of every message under way that it is as it was
    sent, with the descriptor of its sender; `Known` that a name in a
    directory, or in an announcement, had the descriptor at some time. The
    invariant is `MInv`.
  * `ResultsReachTheAsker`: `RInv` adds that `m_CurSrc` is the source of the newest command
    (`NewestAsked`), and that the messages with commands are as the client asked.
  * `DirectoriesFollow`: `DInv` adds `Tracks`, which is the property without its bookkeeping:
    the last message under way that mentions a name decides what a client will
    resolve it to (`LastSays`), and if none does (`Silent`), its directory does now. A
    broadcast appends one mention, the sync mentions all the names in the order of the
    table, and a removal mentions the name of the session that goes: another session
    with that name is then in `erased`. `SessionsLive` and `NamedLate` say which
    connections can have a name at all.
* Also in `ScriptThreadProofs`, of the admin tool: `ToolTypeCorrect` and `ObjectsAreSafe`, for
  any number of objects and threads. The invariant says for each place in `run()` and in the
  calls of the main script what the status and the run flags of the object are, and counts
  the threads that have counted themselves in and not out. Each exception
  (`hasty`, `uncounted`) is set in the step that makes the statement false.
  `OneUserOfTheObjects` carries it over to `MCSpec`, the specification that the run checks:
  a step of the pair is a step of one instance, and the constants of `MCScriptThread` are any
  natural numbers.
* `ContainersProofs`: `RingIsOneQueue` (the ring implements `BoundedFifo`) and
  `FailuresHaveCauses`, for any number of threads, any size of the ring and any number of
  retries. The invariant has three ideas. `CellsOwned`: an empty cell between head and tail
  belongs to exactly one push that has moved the tail and not stored yet, a full cell
  outside to exactly one pop; so the content of a cell is known before it is there.
  `Checked`: what a call has read (room, an empty cell) is still true as long as its copy of
  position and tag is current. `Excuses`: a call whose copy is old has been overtaken. That
  a swap succeeds only with a current copy is the reason for the tag, and it is not quite
  true: the tag wraps. The specification of the theorems, `CountedSpec`, is that of the ring with a
  history variable `lag`, which counts how often others have moved the end since a call
  read the tag, and they assume that no count reaches `TagModulus` (`Awake`; 2^32 in
  the code). Their other assumption is `SoundUse`: the value that stands for
  an empty cell is not pushed, which the comment of the class demands, and `compare_and_swap`
  reports what it did, which the 64-bit Windows build does not (`ring_queue_win64`). Without an assumption
  of the first kind the refinement is false. The steps of the refinement are
  `PushRefines` and `PopRefines`: the swap is `Enqueue` or `Dequeue`, a failing return
  of Push is `Fail`, everything else is a stutter.
* Also in `ContainersProofs`, of the ring of bytes: `BufferTypeCorrect`, `MessagesWhole` and `MessagesKept`, for a ring of
  any size, messages of any length that is positive and any number of threads that push. With
  any number that pop, the flags, the bytes between head and tail and the whole message that
  Pop hands over are right; the size that a refused Pop stores is the needed one with one popping thread
  (`LonePopper`), since another pop may take the message meanwhile. Beside `bLag`, which is the `lag` of
  this ring with the same assumption (`BufferAwake`), there is a history `bStart`, where the bytes of
  each record begin: the code stores that in `m_StartPos` and never reads it. `BufferIInv` lays the
  messages out by it. `Laid`: from head to tail each record begins where the one before ends, and
  measured from the head (`Gap`) they never pass the tail, so that no two have a byte in common
  (`MessagesApart`) although every position wraps. `RecordsOwned`: a record between head and tail
  whose flag is down belongs to the one push that claimed it, one whose flag is up has its bytes,
  and one outside whose flag is up belongs to one pop, whose bytes are there unless they were
  overrun. `ChecksHold`: room, a free record and the end of the message, as read by a call, are still
  right while its copy of the pointer is current (`OthersKeep`: the other end only makes more room). The
  code loads the position in the bytes before the position in the records and the tag, so the two halves of a copy may
  be of different moments: the swap compares all three, hence a swap that succeeds has
  a copy of one moment. `TotalSize` is a recursive function; `MessagesAddUp` finds its value.
  `BufferKept` says the same of `MCSpec`, the specification that the run checks, in which the ring of bytes is beside
  the other containers and the constants may have any value.
* Also in `ContainersProofs`: `DequeAndPoolHold`, for a deque of any size and a pool of any
  finite number of objects that leaves a cell of its deque free, as `Init(num)` does. The
  invariant is that there is a sequence which the deque holds from its head on (`Holds`), and
  for the pool that it names every object that is not given out, once (`InPool`). The deque
  compares only head and tail, modulo its size; `NthFacts` and `NthShifts` say what such
  comparisons and steps mean for the cell that is k after the head, and there is a lemma for
  each push and pop. The ids that a walk follows are a recursive function: `WalkMeets` shows
  that there is one, and that it is the sequence of ids that a reader expects, by the same
  induction (`Climb`, below) that shows what `Init(num)` leaves in the deque.
* `LinkQueueProofs`: `TypeCorrect`, `NodesCorrect`, `ListIsOneQueue` (the list implements
  `BoundedFifo`), `FreedNodesUnused`, `LonePushNotOvertaken` and
  `LonePopNotOvertaken`, for any number of popping threads (one, in the last), nodes, pushes and
  retries and either pool. All of them assume one pushing thread, since the run
  `link_queue_pushers` shows the refinement to be false for two. `IInv` says that there
  is a path `l` of distinct nodes from `m_Head` to a null pointer, and relates the threads
  to it. `Places`: a node is on the path, in the pool, with the push or with one pop, never in two of
  these. `TailAtEnd`: `m_Tail` names the last node, or the last but one while the push that linked
  the last has not swung it. With it goes `PushKnows`: what the push has read of the end is still
  true, so that its link never fails and goes to the last node, although the code swaps the next
  pointer of whatever `m_Tail` names. `PopKnows`: a copy of `m_Head` or `m_Tail` is current or
  has a smaller count, and a copy of the next pointer that belongs to the current head is right;
  that the count only grows is why a node that is recycled under a pop does no harm. (The count
  is a word in the code, and wraps after as many pops as a word counts; here it does not.)
  `Counts`: the values on the path are `m_Num`, but for the calls that have not counted yet, which is
  what bounds the queue. The refinement maps the link to `Enqueue` and the swap of the head to
  `Dequeue`; everything else is a stutter. `FreedNodesUnused` is about uses through a copy of
  `m_Head`, or of `m_Tail` in a push, that is still right. The push never is overtaken
  (`LonePushNotOvertaken`); an overtaken pop may read a node that is free by then, so with
  several popping threads the pool must be the one that recycles. `Chain`, the list as the
  properties see it, follows the next pointers by a recursive function; `ChainIsPath` shows it to
  be `l`, by an induction that `Climb` makes for a set of numbers, from the pigeonhole principle.

* `InterpreterProofs`: `StackInvariant`, `VariablesKept` (the property `CallsKeepTheirVariables`) and `CutResultUnused`
  (`NothingActsOnCutResult`), for every script, any number of global variables, cells, frames and
  objects and a stop at any time. The properties speak of frames and of variables; the invariant `Inv` has to
  follow every `Execute` under way.
  `Stacked`: each activation is in a statement of the script, has come to a place which that
  kind of statement has, and holds the values of the operands it has passed (`GoodAct`). With each goes the number
  of closures that were under way when it began. A closure adds one to it (`Waiting`, `OnTop`), so
  a statement finds the frame of its own function again whatever its operands called, and its local
  variables are in that frame. `Apart`: the frames lie one below the other in
  `m_StackValuePool`, within its bounds, and every cell holds what the call that owns it wrote to it last.
  `Good`, `Plain`: what a value refers to exists, and what is passed on is not a reference.
  `Halted`: once an `Execute` has given up, the flag is off and the innermost activation is
  not about to define a function, so no statement gets as far as its effect.
  There is a lemma per action (`BlockRunsKeeps` to `RoundEndsKeeps`), on top of lemmas about what they share: `Returns`, `Changes` and `Descends`
  for the stack, `SetValueKeeps` for a write, `EnterKeeps` and `ClosureEndsKeeps` for the frames, `ExecuteKeeps` for calls of objects and
  their members. The recursive functions of the operators, of `Deref` and of the object of `args()` are met by `Climb`.

  The theorems assume `AreTranslated`: every script is `Translated`. Most of that is how the runtime tree is
  built. Four of its conditions restrict scripts, and without them the properties are false or the
  code does something else. No variable is
  assigned to an argument, `this` included: the reference is stored in the parameters of the call, `arg()` hands it out as it
  is, and it can outlive its frame. A function is defined by a statement in a list, not by an operand: a literal goes on
  with its operands after a stop and would define it. The key and the variable of a loop are both local or both global, and
  the first and the third part of a `for` are assignments: they are executed without a place for a result
  (`calc.cpp:1873`, `1896`), which other statements write to.

The type invariants of `TcpSession`, the star, `ScriptThread`, `AdminTool`, `LinkQueue`, `RingBuffer` and
`CenterHub` and the invariants of `LiveCallbacks`, `ObjectOutlives` and `StackInvariant` are proved and are not among
the properties of a run.

Only model-checked: the liveness properties (the prover handles neither
fairness nor `ENABLED`), that the calls of the table and the heap are those of `OrderedMap` and
`PriorityQueue` (`TableAndHeap`), and what a script means (`EndsAsItMeans`, which compares the interpreter with a recursive reference
definition, in a module that no theorem reaches). Liveness, recursive
operators, and the induction theorems of the library are out of the prover's reach for good.

## 5. What is not modelled

* libevent, TinyXml, miniLZO: third-party. libevent is the environment of
  `TcpSession` and `Connections`.
* The value of the millisecond clock: a sync may happen at any time. The wrap
  of the 32-bit sum `m_LastSyncTime + 60000`, near which the sync runs on every
  tick or once early, has no property.
* The bound of 256 sessions that one sync removes. In the models the sweep
  finds nothing, and `HandlesUnique` shows why.
* The calls by which JavaScript sends: they run on the JavaScript thread and
  read the session that the network thread may delete. The star takes all
  calls of a client to be made by one thread, as the other servers do.
* The characters of a script file: `runfile` pushes a sequence of lines.
* SimpleScript beyond integers, variables, control statements and calls: floating
  point, strings, structures, the library of native functions, and the parser
  that builds the tree the interpreter walks.
* The message handlers of `CenterHubLibrary`: they are those of
  `CenterClientLibrary` with the number of the world as one more argument, and
  are modelled there.
* Memory models weaker than sequential consistency in the lock-free queues: the
  code relies on `volatile` and on interlocked instructions, and the model has
  a step for each access, in program order.
* AdminTool beyond its script threads: the console, the files of lines, the
  message queues and the string map that the threads share, each behind a lock,
  and the TCP client that a script may use.
* C# wrappers and test programs: declarations and a manual test.

## 6. Plan

In the order of their weight for the system:

1. **Node addon**: the sending calls beside the network thread.
2. **Interpreter**: floating point numbers and strings, and the parser that builds the tree.
3. **Containers**: the invariant of the probe sequence and of the free list
   for any capacity.
4. **Abstract star.** A directory of names and a mailbox per server with at most
   one delivery per send; `StarNetwork` shown to implement the mailbox part by
   refinement, from the invariants that are proved.
5. **AdminTool**: the message queues between the threads.
6. **Clock**: the minute sync with a clock of fixed width, and the sweep bound.
