# A verification project for NuRTL

NuRTL is the run time library of the Felix language for *coroutines* that
communicate through *channels*: a header-only C++ library (`src/src/lib`), a few
reusable coroutines (`src/src/chips`), example programs (`src/src/prog`,
`src/freelist-test.cxx`) and a theory paper (`src/src/tex/csp_theory.tex`).

This directory holds TLA+ models of it, small instances that TLC checks, and
theorems that TLAPS has checked for instances of every size.

    tlc -workers 2 -config Kernel.cfg MCChannelKernel    # one run
    tlapm ChannelKernelProofs.tla                             # one proof module

Source lines below are in `src/src/lib/` unless a path is given.

## 1. The system

### Components, their state and their operations

| component | state | operations |
|---|---|---|
| fibre (`fibre.hpp`, `con.hpp`, `csp.hpp`) | a stack of continuations `cc`, the link `next`, the service request, the owning process | `run_fibre` resumes `cc` until it asks for a service or ends; the destructor deletes the whole continuation stack |
| process (`csp_process.hpp`) | the active set (a spin locked stack threaded through `fibre_t::next`), `async_count`, `running_thread_count`, `refcnt`, a condition variable | `push`, `pop`, `async_complete`, `share`, `forget` |
| scheduler (`csp_thread.hpp`) | `current` | `sync_run`, and a handler for each service: read, write, spawn fibre (at once or deferred), spawn process, spawn cothread |
| channel (`channel.hpp`) | `top`, a stack of fibres whose low pointer bit says writer, and `refcnt` | push and pop of readers and writers |
| endpoint (`channel.hpp`) | the channel, a reference count | `dup`, copies and destruction of `chan_epref_t`; its destructor may call `delete_channel` |
| sequential, concurrent, asynchronous channel | as channel; a spin lock; a condition variable | `read`, `write`, `signal` |
| clock (`clock.hpp`) | a request channel, a priority queue of alarms, `run` | `service` in a thread of its own, `start`, `stop`, `connect` |
| allocator handles (`allocator.hpp`) | of each allocator its parent, its delegate and `refcnt` | construction, copy, move, assignment and destruction of `alloc_ref_t`; the last one deletes the allocator through its parent |
| system allocator (`system_allocator.hpp`, `freelist.hpp`) | the arena, a free list per size | construction, `allocate`, `deallocate`, `push`, `pop` |
| allocator wrappers (`utility_allocators.hpp`) | a delegate; statistics | print or count, and pass on |
| chips (`src/src/chips`), programs (`src/src/prog`) | a coroutine's `pc`, and the members it keeps data in between two resumptions | one `resume` each, a switch whose cases ask to read, write or spawn, call a subroutine, or end |

### How they interact

A fibre never calls the kernel: it *returns* a request to its scheduler, which
serves it and resumes some fibre (`csp_thread.hpp:33-71`).  read and write meet
another fibre on the channel, or leave the requesting fibre there and pop the
next from the active set.  Several schedulers share a process through the
active set and three atomic counters.  Asynchronous devices take fibres off a
channel and push them onto the active set from threads of their own.  Store is
reclaimed by reference counts alone: of channels, endpoints, processes and
allocators; the destructor of a fibre releases endpoints, the last release of
an endpoint may delete a channel, which deletes the fibres on it.

### What is hard

* the count of a channel goes *down* when a fibre is suspended on it, so that
  the kernel can recognise a request that can never be satisfied, and the same
  count decides when the channel is freed;
* destructors recurse: fibre -> endpoint -> channel -> fibres;
* an idle scheduler decides from three shared words, read one after the other,
  whether more work can ever come;
* a fibre on a channel can be resumed, run and deleted by another thread before
  the thread that suspended it has finished doing so;
* the destructors that delete a channel take no lock, and the counts of endpoints
  are not atomic, so that stores of two threads may overwrite each other;
* devices race with idle schedulers, and notifications can be lost;
* a coroutine keeps its place in a number set by hand, and passes objects by
  address along with the duty to delete them;
* the destructor of an allocator drops the handle of the parent it is then
  returned to, and may delete a chain of others.

`PROJECT.json` lists each such hazard at its line, with the property that is
there to catch it.

## 2. The modules

| module | what it is |
|---|---|
| `Stacks`, `StackLemmas` | the intrusive lists as sequences; proved facts about pushing, popping and concatenating them, and induction on the numbers up to one |
| `ChannelKernel` | one process with one thread: the scheduler, sequential channels, endpoints, destructors |
| `CSPModel` | the abstract promise: fibres that are ready, or wait on a channel to read or to write |
| `KernelRefinement` | the mapping under which `ChannelKernel` implements `CSPModel` |
| `MCChannelKernel` | instances of the two for TLC |
| `ChannelKernelProofs` | theorems about `ChannelKernel`, among them that it implements `CSPModel` |
| `Scheduler` | several schedulers of one process, and a device |
| `MCScheduler` | instances for TLC |
| `SchedulerProofs` | theorems about `Scheduler` |
| `Rendezvous` | the abstract promise of a channel between processes |
| `ConcurrentChannel` | `concurrent_channel_t` and the threads of the processes that use it; implements `Rendezvous` |
| `MCConcurrentChannel` | instances for TLC |
| `ConcurrentProofs` | theorems about `ConcurrentChannel` |
| `AsyncClock` | the clock, its asynchronous channel and its clients |
| `MCAsyncClock` | instances for TLC |
| `ClockProofs` | theorems about `AsyncClock` |
| `BlockStore` | the abstract promise of the system allocator |
| `SystemAllocator` | `system_allocator_t` and its free lists; implements `BlockStore` |
| `MCSystemAllocator` | instances for TLC |
| `SystemAllocatorProofs` | theorems about `SystemAllocator` |
| `Pipeline` | the coroutines of the chips and of both example programs, joined into pipelines, over a process with atomic channels |
| `MCPipeline` | instances for TLC |
| `PipelineProofs` | theorems about `Pipeline` |
| `AllocRef` | the handles of allocators, with the nested destructors |
| `MCAllocRef` | instances for TLC |
| `AllocRefProofs` | theorems about `AllocRef` |

### ChannelKernel

A fibre is an element of `Fibre`; its continuation is abstracted to the set of
endpoints its references refer to (`eprefs`).  The program is arbitrary:
whenever a fibre runs, `Next` lets it ask for any service, make or duplicate an
endpoint, spawn a fibre with any copies of its references or giving any of them
away, drop a reference, or end.  A service is one step: nothing else runs
meanwhile.  Destructors nest, so the activations of `delete_concrete_object`
and of `delete_channel`'s loop are a stack, `unwind`, and each activation takes
its own steps:

| action | code |
|---|---|
| `SpawnFibre`, `SpawnFibreDeferred` | `do_spawn_fibre`, `do_spawn_fibre_deferred` |
| `Suicide` | `return_control` returns null and `sync_run` finds the fibre dead |
| `MakeChannel`, `Dup` | `make_sequential_channel` with `acquire_channel`; `channel_endpoint_t::dup` |
| `Read`, `Write` | `sequential_channel_t::read`, `write`: `HasPeer` and `PopPeer` are `st_pop_writer`, `st_pop_reader` and `++refcnt`; `Abandon` is the branch for `refcnt == 1`, `Suspend` the one for `--refcnt` and the push |
| `DropReference`, `DeleteEndpoint` | `~chan_epref_t`, and `~channel_endpoint_t` with its three cases `DeleteChannel`, `LeaveDeletedChannel`, `LeaveChannel` |
| `Discard` | the same, called from a running continuation |
| `FreeFibre`, `FreeChannel` | the end of `delete_concrete_object` and of `delete_channel` |
| `DeleteStaleEndpoint`, `UseStaleEndpoint` | a freed channel is used: `ub` is set and nothing more happens |

The variable `program`, which no step changes, separates two kinds of program.
If it is "owned", I/O is done, and a reference is passed on, only by the fibre an
endpoint was made for or last passed to, which is what `csp_theory.tex` asks
for; if it is "shared" (`Sharing`), fibres share endpoints at will.  One run has
programs of both kinds.  `LastWhenOne` is about both: a count of one is taken to
mean that nobody else can answer, and does, as long as the fibres hold at most one
reference more than the channel has endpoints.  The converse, that a channel goes
when nobody is left to answer (`ChannelsReclaimed`), is what the documents ask for
and the code does not do, in programs of the first kind above all.

Abstractions: several references of one fibre to the same endpoint count as one
(the code counts each, and the endpoint dies with the last of either); a
freed channel is not allocated again; which allocator returns the store is not
modelled (`delete_channel` uses that of the endpoint, `channel.hpp:172`); data
is not modelled here.

### Scheduler

Each thread has a program counter for its place in `sync_run` and
`~csp_thread_t`; a step is one access to what threads share.  `push` and `pop`
hold a spin lock throughout and are one step each.  The variable `services`,
which no step changes, says whether the program has asynchronous ones, that is
a device (`HasDevice`).  Channels are abstracted to
the set `suspended`, any of whose fibres a running fibre may resume.  The device
is `activate_fibre` of the clock: push, `--async_count`, `notify_all`.

| action | code |
|---|---|
| `Start` | `sync_run` up to `retry` |
| `SpawnFibre`, `SpawnChild` | the two halves of `do_spawn_fibre`: after the push, `req` belongs to a fibre that any thread may run |
| `Suspend`, `Pop`, `ResumeWriter`, `ResumeReader` | `concurrent_channel_t::read` and `write` |
| `AsyncWrite`, `AsyncSuspend` | `async_channel_t::write`: the count, then the push |
| `Die`, `Pop` | the end of a fibre |
| `StopRunning`, `CheckAsync`, `CheckRunning`, `Sleep`, `Timeout`, `Repop`, `RunAgain` | `sync_run` from line 74: the two loads of the condition are two steps, and so are `pop` and the increment |
| `Forget`, `ForgetLast` | `forget`, whose decrement and load are two steps |
| `SpawnCothread` | `do_spawn_cothread` |
| `UseFreedFibre`, `UseFreedProcess`, `DeviceUsesFreed` | a step that needs an object that was deleted: `ub` is set |

### ConcurrentChannel

A thread's program counter is its place in `read`, `write`, `chan_epref_t`,
`~chan_epref_t`, `~channel_endpoint_t` or `delete_channel`; a step is one access to
what threads share, and `link` and `loaded` are what a thread has loaded in one step
and uses in a later one.  Only the release of the lock is taken together with the
access before it: a thread that does not wait for the lock does not look at it.  The
fibres of one process that are ready are its active set; `word` is what a fibre is
given.  `given`, which no step changes, is the endpoint the program gives each fibre:
its own, or one that others have a reference to as well, or `None`, which means that
the fibre is spawned later, any number of times, with a copy of a reference that
another has (`Copying`).  Both of the latter are `Sharing`.

A behaviour stops at the first use of what was deleted (`ub` is "freed"), and at the
first store to `top` that overwrites what another thread has stored there since it was
loaded ("lost"): `delete_channel` takes no lock (`channel.hpp:165-167`), so it may
meet a push or a pop.  Where endpoints are shared `Rendezvous` allows that waiting
fibres are lost with the channel, and that the channel breaks at such a store, but no
other liberty.

| action | code |
|---|---|
| `Ask` | `do_read`, `do_write`: the request of the current fibre |
| `Lock` | the spin lock |
| `Match`, `Unlink`, `CountPeer`, `Copy`, `Resume` | the branch that finds a peer: load `top`, store its `next`, `++refcnt` and unlock, copy the word, and make the peer ready in its process or current |
| `Check`, `Subtract`, `Push`, `Link`, `Pop` | the branch that does not: test and lower the count, store `top` as the fibre's `next`, store the fibre to `top` and unlock, take the next fibre |
| `Starve` | the count is one: the fibre is deleted and the lock is kept |
| `Refer`, `Spawn` | the copy constructor of `chan_epref_t`, whose `refcnt++` is a load and a store, and the spawn of a fibre with the copy |
| `End`, `LoadReferences`, `ReloadReferences`, `DropReference` | the destructor of the reference: the test of the count, and the load and store of its decrement |
| `LoadRefcnt`, `LeaveChannel` | the destructor of the endpoint, the load apart from the decrement it decides |
| `DeleteChannel`, `ClearTop`, `ClearRefcnt` | the load of `top` and the two stores of `delete_channel`, without the lock |
| `FreeFibre`, `FreeChannel` | the ends of the nested destructors |
| `UseFreed` | a step that needs the channel or an endpoint that was deleted (`Stale`) |
| `Fetch`, `FindWork` | the active set of the thread's process |

What `Scheduler` models of a thread (its exit, the counters) is left out here,
and so is the use of a fibre after `unlock`: that a fibre is resumed and deleted
by another thread before `current->process` is read is `scheduler_resume`.

### AsyncClock

`pc` says where each client is in `async_channel_t::write` or in the destructor of
its endpoint, and where the owner of the clock is; `clock` where the thread of the
clock is in `service`; `link` and `found` what they have loaded from `top`.  The
channel's `top` and `refcnt`, the priority queue `q` (a set of clients with
their `alarm`), `run`, and the two local variables of `service` that outlive a
step, `t` and `sleep_until`, are as in the code.  Time is a variable that `Tick`
raises.

| action | code |
|---|---|
| `Sleep`, `Lock`, `Check`, `Subtract`, `Push`, `Link`, `Signal` | `async_channel_t::write` with no reader on the channel; `Push` and `Link` are the two stores of the push |
| `UseFreedFibre` | the branch of `write` for a count of one: the client is deleted and then read |
| `End`, `LoadRefcnt`, `LeaveChannel` | the end of a client's endpoint, or of the clock's |
| `DeleteChannel`, `ClearTop`, `ClearRefcnt`, `FreeClient`, `FreeChannel` | `delete_channel`, without the lock: the load of `top`, the two stores, the deletion of each client on the list and of the channel |
| `Loop`, `PopWriter`, `Unlink`, `ReadTime`, `ScanEnd`, `Activate`, `Complete`, `CheckRun`, `Wait` | `service` from top to bottom; `Activate` is `push`, `Complete` is `async_complete` |
| `UseFreedChannel` | a step that needs the channel that was deleted |
| `Timeout`, `WakeSpuriously` | `wait_until` returns |
| `Stop`, `Join` | `stop` |

A notification that finds the clock not yet waiting has no effect, as in the
code, where neither `signal` nor `stop` holds the mutex of the condition
variable.  The clock takes all the requests it finds one by one.  Between `Activate`
and `Complete` the client it has made ready (`woken`) may run, sleep again, and so be
counted twice, or end, in which case `async_complete` reads its process from a fibre
that was deleted.  A behaviour stops there, at any other use of what was deleted, and
where two stores to `top` meet, as in `ConcurrentChannel`.
`service` reads `run` without the lock at the head of its loop, a
data race with `stop`; a load is taken to give the value at some step, and the
test under the lock follows before any wait.  `start` on a running clock does nothing and is no action.

### SystemAllocator

The constructor is `Init`, for any of `Requirements`: `nblocks`, `arena_size`
and `arena_pointer` are its loops as functions of the sizes required, and the
addresses that follow from them are those the free lists work with.  Addresses
are offsets in the arena.  A thread's program counter is its place in
`allocate`, `deallocate`, `push` and `pop`, and each step is one access to the
free list.  `InUse` is the clients' side of the contract (`csp_theory.tex`: "no
more than the available number of blocks of any particular size may be
allocated").  The lock of each free list is clear at first: `freelist_t` does not
initialise its `atomic_flag` (`freelist.hpp:7-9`), whose value is unspecified before
C++20, but the constructor pushes every block through that lock, of which each list
has one at least, so it either never returns or leaves the lock clear.
`AllocatorAssumption` has the other side: a largest size that is
no multiple of eight makes the constructor write past `nblocks` (line 90), and a
size of zero has no free list.

### Pipeline

A program is a sequence of stages; stage *i* writes the channel that stage
*i* + 1 reads, and stage 0 is `init`.  `Joined` says which sequences are
pipelines: a source, bounds and transducers, and a sink, or the producer,
transducers and consumer of `ex01`, with any number of `hello` besides.  `pc` is that of the code: `switch(pc++)`
leaves it one higher than the case, and the actions take the value it has when
`resume` returns.  So case 0 of the stages that fall through to case 1 has no
action of its own.  A step is one resumption, or one service.  `Continue` and
`Ask` are the two ways of returning `this`: `run_fibre` tells them apart by
`svc_req`, which `Begin` has made null.

| action | code |
|---|---|
| `Source`; `ChipReads` and `Show`; `ChipReads` and `Transduce`; `BoundReads` and `BoundWrites` | `resume` of `chips::source`, `sink`, `transducer` and `bound` |
| `Produce`, `Hello`; `Reads` and `Consume`; `Reads`, `Call`, `CallerWrites`; `Square` | `resume` of `producer`, `hello`, `consumer`, `transducer` and `square` in `ex01.cxx` |
| `Construct`, `Spawn` | `resume` of `init`, and `do_spawn_fibre_deferred` |
| `Begin`, `Read`, `Write`, `Die`, `FindWork` | `sync_run` and the channels, as in the other modules |

A value is its place in the input and how often it was squared.  `heap` has the
objects the chips pass by address; the address taken is always the same free
one, so that deleted addresses come back at once.  What the other modules show
is taken from them: a read or write is one step (`ImplementsRendezvous`), no
channel is deleted (`OwnedChannelsStay`), threads that find no work wait
(`Scheduler`).  `init` of `ex01` also makes a clock and sleeps, which is in
`AsyncClock`.  The chips of `ex02` use sequential channels and one thread; two
threads are what `ex01`'s concurrent channels allow.

### AllocRef

`handle` has what each variable refers to, `parent`, `delegate` and `refcnt` the
fields of each allocator, and `todo` what each thread still has to do in the
destructors it is in.  The allocators differ in nothing but whether they have a
parent and a delegate.

| action | code |
|---|---|
| `Construct` | `new malloc_free_allocator_t`, `new(p) debugging_allocator_t(p, d, ..)` and the like, with the handle made of the result |
| `Copy`, `Move` | the two copy constructors |
| `Assign`, then `Assigned` | `operator=`: the destructor of the target, then the copy or the move; self-assignment is ignored |
| `Drop`, then `Shared` and `Decrement`, or `Delete` and `Deallocate` | `~alloc_ref_t`, with `FieldDrops` for the destructor of the allocator: the load of the count is one step, the decrement another; the deletion first copies the parent's handle, then runs the allocator's destructor, returns the memory to the parent and drops the copy |

The handles made for the time of a call that only passes them on are left out:
the caller keeps its own meanwhile.

## 3. The runs

| run | instance | question | result |
|---|---|---|---|
| `kernel` | 3 fibres, 2 channels, 3 endpoints, owned or shared | do the lists and the counts stay consistent through deletions, do nested destructors return, is a count of one met only by the last who could answer, and does the kernel keep its promise? | yes: `FibreInOnePlace`, `OnePolarity`, `RefcntAccounting`, `EndpointRefs`, `UnwindTerminates`, `LastWhenOne`, `ImplementsModel` |
| `kernel_starved` | the same kernel | are a channel and the fibres on it deleted when nobody is left who could answer them? | no, they wait for ever |
| `scheduler` | 2 threads, 4 requests, with and without a device | do the counters count, is no fibre lost or doubled, does the process outlive its requests, do all threads leave, and without a device nothing behind? | yes |
| `scheduler_resume` | no device | is a fibre used after it was deleted? | yes |
| `scheduler_lost` | one thread, a device | is a ready fibre left behind? | yes |
| `concurrent` | 2 processes of one thread, 3 fibres with an endpoint each, one for two, one for all three, or one for two that is copied for a third | does the lock exclude, is an endpoint deleted only by its last holder, a fibre or channel only when every other holder waits, is no fibre lost or doubled, does the channel keep its promise; and without sharing, is the count exact, and does whoever can be answered meet? | yes, until two stores to `top` meet, and where no reference is copied while another is dropped |
| `clock` | 2 clients, 3 sleeps, one client may end, the clock may be stopped | are requests counted and sleepers kept once, woken in time and not early, does every alarm ring, does `stop` return? | yes, unless something was deleted too early or two stores to `top` met |
| `clock_starved` | one client, 3 sleeps | does the endpoint of the clock keep its clients from starving? | no |
| `allocator` | 2 threads, three sets of required sizes | is the arena laid out as computed, do blocks never overlap, is none lost, does the allocator keep its promise? | yes |
| `pipeline` | both examples and two longer chains, 2 threads, 4 integers, a bound of 2 | do the values arrive once, in order and transformed, does each object have one owner, is the source held back, does everything arrive? | yes, but for the values `pipeline_squares` finds lost |
| `pipeline_squares` | ex01, 3 integers | are the squares of the whole list on the list of squares? | no |
| `alloc_refs` | 3 allocators, 3 variables of one thread and 1 of another | are counts exact, is nothing freed that is referred to, is each allocator deleted once, before its parent, and, in one thread, in the end? | yes |

`UnwindTerminates` is an action property: each step of a destructor makes
`Remaining`, a sum over the objects and activations that are left, smaller.

*Bounds.*  Three fibres are the least for which a channel holds two suspended
fibres while a third acts on it, or a fibre that is deleted deletes a channel
that deletes another fibre; two channels let deletions cascade; three endpoints
give every fibre one, or one fibre two of one channel.  A freed channel is not
made again, so the number of channels bounds the run; fibres and endpoints are
reused.  In `Scheduler`, `MaxRequests` bounds the services the program asks
for, and so the fibres made; four are enough for a spawn, a suspension, a
resumption and an asynchronous request or a cothread in one run.  In
`ConcurrentChannel` one channel and one thread per process suffice: threads
meet at the channel only, and nothing bounds the requests; `MaxReferences` bounds how
often a reference is counted when it is copied once more.  In `AsyncClock`,
`MaxSleeps` bounds the requests, `LastStart` and `MaxTime` the time; three
sleeps are one more than two clients need to wait at once, and with the end of a
client they bring the count of the channel down to one, so that both ways of
deleting too early occur, and a client that pushes while the other deletes.  When time stops every wait is over.  In
`SystemAllocator` the sizes of an instance are small, but each of rounding,
sharing of a free list and absence of a size occurs, and two blocks of one size
let a push and a pop of different blocks meet.  In `Scheduler` two threads suffice
for each to leave, or to be woken, while the other is anywhere; the theorems are of
any number.  In `Pipeline` nothing bounds the steps: the input, or the bound in
front of an endless source, ends.  Four integers are two more than ex01 loses;
six addresses are two more than the objects a chain of five ever has at once.
The last stage of a chain of chips is suspended for ever, and so is its source.
In `AllocRef` three allocators are an allocator whose parent and delegate
differ, which takes three variables of its maker, or a chain in which deleting
the last deletes all; the theorems are of any number, and so of the longest
chain of the examples, which is four (the allocator of C++, a wrapper, an
allocator on it, a wrapper of that).  Allocators are not made again, which
bounds the run.  Allocators, and the variables of one thread, are
symmetric.

*Fairness.*  `ChannelKernel`: none is needed.  `Scheduler`: weak fairness of
each thread and of the device.  Threads are preempted but not for ever; each
wait has a timeout; fibres ask for a service or end in finite time; the clock
answers a request when its alarm time has come.  `ConcurrentChannel`: weak
fairness of each thread, as in `Scheduler`; the lock is not assumed to be fair,
and a thread may spin for ever while others take it in turns.  `AsyncClock`: weak fairness of a client once it has begun
to write or its destructor, of the notification, of the thread of the clock, of the join, and of
time; nobody need make a request or stop the clock.  `SystemAllocator`: none,
for nothing in the code makes a spin lock fair.  `Pipeline`: weak fairness of each
thread, as in `Scheduler`; no coroutine computes for ever.  `AllocRef`: none.

*Deadlock* is not checked where the system may stop because its work is done or
what it needs was deleted; `SystemAllocator` never stops, and is checked.

### What the failing runs show

* `kernel_starved`: a channel is constructed with a count of one, and each
  endpoint adds one, so a sole holder finds two, not one, and waits for ever, and the
  last endpoint to go leaves one.  In fact, as `OwnedChannelsStay` proves, without
  sharing no channel is ever freed.
* `scheduler_resume`: `current->process->pop()` is evaluated after `unlock()`.
* `scheduler_lost`: the counters are tested after the active set, so a push
  followed by `async_complete` falls between the two.
* `pipeline_squares`: `transducer` and `consumer` of `ex01.cxx` fall from case 0
  into case 1 without setting `pc`, are resumed at case 1 after their first read,
  and read over it.  Compiled and run, ex01 prints 18 squares of 20.
* `clock_starved`: `pop_writer` does not give back what `write` took from the
  count, so every sleep lowers it.

### What the models show besides

These steps are in the models, and runs that pass stop at them; they have no run
of their own.

* A cothread is counted as running only once it runs (`csp_thread.hpp:139`), so
  the initial thread may leave, and `csp_run` return, before it has begun.
* `forget` (`csp_process.hpp:33`) decrements and then loads: of two threads that
  leave together one may delete the process before the other's load.  Likewise
  `async_complete` notifies a process it may just have let die.
* `~chan_epref_t` and `~channel_endpoint_t` use their counts without a lock.
  Where fibres of several threads share an endpoint a decrement is lost, and the
  endpoint stays; two endpoints that go at once take the count from two to zero and
  nobody deletes the channel; or it is deleted while a third thread uses it.
* The copy constructor of `chan_epref_t` increments without a lock too
  (`channel.hpp:186`).  Of an increment and another update of the count at once one may
  be lost, and if it is the increment, the count is too low and the endpoint is
  deleted while a fibre refers to it.  So `EndpointKept` excludes programs that copy
  references while their threads run.
* `delete_channel` loads `top` and stores to it without the lock
  (`channel.hpp:165-167`).  A fibre pushed between the two is nowhere; one that is being
  popped is deleted as well; a push or pop that loaded `top` before the store puts
  deleted fibres back on the channel.  In `ConcurrentChannel` this takes sharing; in
  `AsyncClock` a client that ends meets it when sleeps have brought the count down to
  one.  `FibreInOnePlace` and `InCareOfClock` hold up to there.
* A fibre is taken for the last, and deleted with the lock kept, or the channel
  deleted, only when every other holder waits (`DeletedWhenOthersWait`): so the lock
  that is kept harms nobody.  Where the references outnumber the endpoints by two or
  more, or are copied while threads run, the count says less: others may run, and
  then they spin for ever.
* `activate_fibre` pushes a fibre and then reads its process from it
  (`clock.hpp:53-54`), by when the fibre may have run and been deleted; or it may have
  slept again, so that `async_count` is for a time one more than the clients that sleep.
* A request that is made just before the clock begins to wait is noticed only at
  the end of the wait, which is the earliest alarm, or ten seconds if there is
  none.  `EveryWaitEnds` says that it rings all the same, late.
* Two threads that drop the last two handles of an allocator both find a count of
  two, and nobody deletes it (`allocator.hpp:79`); so `NothingOrphaned` is of one
  thread.
* When the bound ends, the object the source last made is never deleted, for its
  fibre stays on the channel.
* Where three fibres are suspended on an endpoint they share, the count of the
  channel comes down so far that two endpoints in turn delete the channel, or that
  the count falls below zero, where in the code it wraps.
* Once the count of the clock's channel has gone to zero without a test that saw
  it, every sleep takes it further down; so `TypeOK` of `AsyncClock` bounds it from
  above only.
* `stop` strands the clients that sleep, as a comment in the code says
  (`clock.hpp:107`).

## 4. The proofs

The theorems hold for any number of fibres, endpoints, channels, threads,
processes, requests, clients, allocators, variables and stages.  What they assume of the
constants is `KernelAssumption`, `SchedulerAssumption`, `ConcurrentAssumption`,
`ClockAssumption`, `AllocRefAssumption`, `AllocatorAssumption` and
`PipelineAssumption`: that fibres, endpoints, threads, clients, allocators and
variables are finite sets and do not contain the null pointer (or the owner of the
clock); that of each size required, which is not zero, at least one block is, the
largest size being a multiple of that of a pointer; that every program is a pipeline
(`Joined`), that memory has room for an object more than the pipeline has stages,
and that the null pointer is neither an address nor a value.  TLC checks them of every instance.  `DestructorsReturn` also takes the set of channels
to be finite, since it counts them.

### ChannelKernelProofs

`TypeOK`, `FibreInOnePlace`, `EndpointRefs`, `OnePolarity` and the accounting of
channel counts are proved together as `KernelInv`, since none is inductive by
itself.  That a count does not go below zero (`TypeOK`) needs what it counts;
that an endpoint is counted by its holders (`EndpointRefs`) needs that a fibre
made anew holds nothing, that is, that a deleted one was released entirely; that
`delete_channel` pushes each destructor once (`FibreInOnePlace`) needs that a
fibre is on one channel only.  `RefcntAccounting` is strengthened to
`ChannelInv`: a channel that exists is either `Marked`, with a count of zero, no
fibres and its own destructor under way, or `Counted`, with a count that is not
zero and obeys the equation; one not yet made has neither fibres nor endpoints.
There is a lemma for each action and in it a step for each conjunct.

`CountOfOneIsLast` is about any program.  A fibre suspended on a channel still holds an
endpoint of it (`SuspendedHold`), and is suspended there once.  A count of one means, by
`RefcntAccounting`, as many fibres suspended as endpoints; so if two more fibres held an
endpoint there would be two references more than endpoints (`LastHolder`).

`OwnedChannelsStay` is about `~Sharing`.  The inductive invariant adds `SuspendedOwn`: a
fibre suspended on a channel still holds, and owns, an endpoint of that channel.
Distinct fibres own distinct endpoints, so the fibres on a channel inject into its
endpoints (`SuspendedBound`); a fibre that does I/O or releases its last reference has
one endpoint more, so the count it meets is at least two (`MoreThanOne`), and neither
`Abandon` nor `DeleteChannel` is ever enabled.  This is the extent of what
`kernel_starved` shows of one channel: not a promise kept, but one broken always.

`DestructorsReturn` is `UnwindTerminates`: under `KernelInv` each step of a
destructor lowers `Remaining`.  Releasing a reference takes one away from
`References`, the end of a fibre or a channel pops an activation; a deletion that
starts the destructors of a channel's fibres adds activations, and is paid for by
the channel, which is live no longer, and its fibres, which leave it.

`KernelImplementsModel` is the refinement of `CSPModel`, under the mapping of
`KernelRefinement`: a step of the kernel from a state with `KernelInv` is a step
of the promise or a stutter.  A fibre is ready when it is current or active, and
waits when it is suspended on a channel; a nested destructor maps to a step that
takes fibres out of the promise, one for each fibre whose deletion begins.

### SchedulerProofs

`NothingLeftBehind` is about programs without a device.  The invariant is that while the
active set is not empty some thread is at a place from where it will look at it
before it can leave: whoever pushed a fibre has not looked for work since.  With
a device this is false, as `scheduler_lost` shows, because the device pushes and
then never looks.

The other theorems are about any program, and rest on `SchedulerInv`.
`CountersCount` is preserved by comparing the place a thread leaves with the one
it goes to (`AtMoves`): a counter must change by the difference of two
memberships (`Change`).  `FibreInOnePlace` is proved as `Placed`, about sets: what
each thread has, what is ready, suspended and pending are disjoint and make up
`live`; a step of a thread moves fibres between what it has itself and the three
sets (`Moves`).  That the number of a new fibre is in range needs `MadeFew`: the
requests not made yet and the threads that are about to construct a fibre are as
many as the numbers left.  `ProcessOutlivesRequests` rests on two facts.
`SomeoneStays`: while `async_count` is above zero a thread is at a place before
the test of that count, for the test sends a thread on only when it reads zero,
and a count is raised only by a thread that has still to come there.
`FreedLast`: the process is freed when `refcnt` is zero, that is, by
`CountersCount`, when no thread is at such a place.  That the test and the load
of `refcnt` are separate steps does no harm to this property, only to those that
the README lists above.

### ConcurrentProofs

`LockExcludes` is by `Exclusion`: the flag is set while a thread is between `lock`
and `unlock`, and no two are.

`EachFibreInOnePlace` is by `Placed`, as above, where a thread may also have a peer
that it has taken from the channel or is to spawn, and a nest of destructors in
`unwind`, or the list it has loaded in `delete_channel`.  A store to `top` moves the
fibres of the list that the thread loaded, which is what `top` is unless another has
stored to it (`StoredTop`); a store that finds another list is the last step
(`StepBeforeLost`), and the invariant ends there (`PlacedUntilLost`).

`SharedEndpointIsKept` is about programs that copy references only before their threads
run.  The destructor of a reference tests the count, loads it again, and later stores
one less, so of two decrements one may be lost.  `Referred` says that a count is never
*below* the number of fibres that refer to its endpoint, and a count that a thread has
loaded never below the number of those that will still be there when it stores: a lost
decrement leaves the count too high.  So a thread that finds a one holds the only
reference.  With increments while threads run `Referred` fails.

`TheLastIsAlone` rests on `Uncut`: until a thread begins to delete the channel, who is
about to store to `top` has loaded what it is, and the count, the fibres suspended and
the threads about to push or to count are at least one more than the endpoints.
(An endpoint that leaks because a decrement was lost is counted still, as is one that
found a count of zero, which makes them more.)  Where the
references are at most one more than the endpoints, a count of one therefore leaves at
most one fibre with a reference that neither waits nor is about to (`LastOne`).

`CountIsExact` is about fibres with an endpoint each.  The count is lowered before a
fibre is pushed and raised after it was popped, in steps of their own, and the
destructor of an endpoint takes no lock.  `Exact` is an equation over all of that: the
count, the fibres suspended and the threads about to push or to count add up to one more
than the fibres that still have their endpoint.  Those suspended, those being pushed and
those popped are different fibres (by `Placed`) that have theirs, and so has any fibre
that does I/O or ends; so the count it finds is at least two (`Enough`), whatever the
other threads are about to do.  Hence no thread comes to `Starve` or `DeleteChannel`
(`Kept`), no two stores to `top` meet, and a fibre's endpoint remains its own
(`OwnEndpoints`).

`ThreadsMeet` is the safety part of `ImplementsRendezvous`: each step of a thread maps
to a step of `Rendezvous` or to a stutter.  A fibre has asked from `Ask` until the step
that copies the word, at which it and its peer go on together; that the peer has asked
for the opposite, and that nobody else has it, are `Requested` and `Placed`.  `ClearTop`
and `Starve` lose the fibres that wait, and a store that overwrites another breaks the
channel.  `ChannelTypes` rests on the same invariants: where fibres have an endpoint
each, on the equation above, and where they share, the count is only known to be an
integer.

### ClockProofs

`CareInv`: until two stores to `top` meet, a client is asleep exactly when it is on the
channel, in the queue, or on the list of a thread that has taken it from the channel to
delete it, and it is there once.  Most steps of a client do not touch any of them
(`QuietSteps`), and this holds of a clock that was stopped, where clients sleep for ever.
`CountInv`: the count goes up in the step that begins a request, before the client can
be seen, and down in the one that completes it, *after* the client was made ready; in
between that client is in `woken`, and may be asking again.  `TimeInv`: what the clock
last read is not ahead of the time, and after the scan of its queue every alarm in it is
later than that and not before `sleep_until`, until it scans again, because only
`Unlink`, which comes before the scan, puts clients into the queue.  `NobodyWokenEarly`
follows: a client is resumed when its alarm is not after what the clock last read.

`ClockTypes` needs two more.  `BoundInv`: `async_count` lies between the clients with a
request, and the one in `woken`, and those with one or gone, and the one in `woken`; and
a notification belongs to a sleep of its own, so that the two together stay below
`MaxSleeps`.  `FlagInv`: the count of the channel only ever falls from its first value,
for what `write` takes off is not given back.

### AllocRefProofs

All four invariants of `AllocRef` are proved.  `HandleInv` says that the count of
an allocator that exists is `Handles`, a sum of how often variables, parents,
delegates and the tasks of destructors refer to it, and that what does not exist has
no handles.  Each action is a lemma about how it changes that sum (`TimesExcept`,
`TaskMoves`): a drop moves a handle from a variable to a task, a deletion moves those
of the fields to tasks and adds the copy of the parent's.  A count of one thus means
that the task that found it is the only handle, so that no allocator is its own
parent and its deletion leaves nothing that refers to it.  `Ordered` is needed
besides: the memory of an allocator is given back while the next task is the drop of
its parent's handle, from which `NothingDangles` follows; and an assignment is the
last task of a thread, whose target is empty.  `NothingIsOrphaned` adds, for a single
thread, that a destructor about to decrement found a count of at least two, and that
nothing happens before it does (`Steady`).

### SystemAllocatorProofs

The constructor is arithmetic: sums, over a list of required sizes of any length, that
say where each free list and its blocks begin.  The sums of the library are folds, and
the module first proves that a fold over a set of numbers has the value it should when
a number is added or removed (`SumAdd`, `SumRemove`), by induction stated with a *set*
of numbers (`SetInduction` of `StackLemmas`) since the library's theorem, with an operator as its
parameter, is of no use to the provers.  From there: there is a largest size; the lists
and `arena_pointer` exist and obey their defining equations (`Descent`, `PointerRule`);
the regions of the free lists follow one upon the other from the end of the arrays to
the last byte of the arena (`Regions`, `Filled`), so that no two blocks have a byte in
common (`BlockPlaces`, `SlotPlaces`, `Apart`), the blocks of a list being at multiples
of its size.

`AllocatorInv` is about the threads, and has for each list that each of its blocks is in
one place (`OncePlaced`): below the top of the stack, once, or with the client, or in
the hands of a thread on its way in or out.  That a push finds room and a pop a block
(`NotFull`, `NotEmpty`) is counting: the places below the top, the blocks that clients
have and those that threads have are as many as were required, and the clients ask for
no more (`Granted`).  `AllocatorKeepsPromise` maps the step that returns a block to the
allocation of `BlockStore`, the client's call of `deallocate` to its deallocation, and
all else to a stutter.

### PipelineProofs

The four invariants follow from `PipeInv`.  `Placed` has each stage that was spawned
in one place, a thread, `active` or `suspended`; `Within` says at which places of its
switch a coroutine asks for what, which is what the numbers kept by hand come to.
`PipelineTypes` says among other things that no `assert(false)` is reached.

`Flow` is about values.  It says that there are numbers *n*, of which *n*[*i*] is the
place in the input of the last value that stage *i* received, such that *n*[*i*] and
*n*[*i* + 1] differ by what stage *i* has in hand (`Holds`) and what it has yet to read
over (`Due`), and that the value it has in hand is the *n*[*i*]-th, squared by the
stages before it and, if it is `Done`, by itself.  The program has no such variable:
*n* is quantified, as a history variable would be, and the proof of each action that
moves a value gives the *n* that it leaves.  A transfer adds one to the *n* of the
reader (`PassedFlow`), which is the same as what the writer had in hand;
a value made adds to *n*[1] (`MadeFlow`) and one shown to the last (`ShownFlow`).  With
*n*[`Last` + 1] the number of values shown and lost, the value shown is the next one,
and so `ValuesArriveInOrder`.  `SourceIsHeldBack` is the sum of these equations over
the stages, by induction on the stage (`SetInduction`).

`Owned` has an object allocated just while one chip holds its address, so that it can
tell an address that is passed on, kept in the variable of the stage that wrote it,
from one still held.  That `new` finds a free address (`FreeAddress`) is by counting:
the objects map into the stages that hold them.  `Owned` and `Flow` need each other, for
the value of an object stays only while no other chip deletes or overwrites it.

### Only model-checked

Every invariant of the runs that pass is also proved.  The liveness properties,
`Termination` of `Scheduler`, `EveryWaitEnds` of `AsyncClock`, `AllShown` of `Pipeline`
and the fairness that `Rendezvous` promises, are out of the prover's reach.

## 5. Not modelled, and the plan

The plan is carried out.  Left out for good:

* `do_spawn_process`: its local variable is used in its own initialiser, undefined
  on every call;
* `connect_async`, declared and never defined; and so fibres that read an
  asynchronous channel: the only such channel a program can make is the clock's,
  whose reader is no fibre;
* `lock_free_freelist.hpp`: no file includes it;
* `garbage_collecting_allocator.hpp`: comments only;
* what `debugging_allocator_t` prints and `statistics_allocator_t` counts;
* logging, the drawings, and `freelist-test.cxx`, which is a test.
