------------------------------ MODULE Scheduler ------------------------------
(***************************************************************************)
(* Several schedulers (csp_thread_t) sharing one process (csp_process_t),  *)
(* and a device, an asynchronous service such as the clock.  The schedulers *)
(* share a stack of ready fibres, two counters that tell an idle scheduler *)
(* whether more work may come, and a reference count that frees the        *)
(* process.                                                                *)
(*                                                                         *)
(* A step is one access to what the threads share.  push and pop hold a    *)
(* spin lock, and are one step each.  Channels are abstracted to the set   *)
(* of the fibres suspended on them, any of which may be resumed; the       *)
(* allocator does not reuse the store of a fibre.                          *)
(***************************************************************************)
EXTENDS Integers, Sequences, FiniteSets

CONSTANTS
  Thread,       \* the threads of the process
  Initial,      \* the one that called csp_run
  None,         \* nullptr
  MaxRequests   \* how many service requests the program makes in all

ASSUME SchedulerAssumption ==
  /\ IsFiniteSet(Thread) /\ Initial \in Thread
  /\ MaxRequests \in Nat
  /\ None \notin Nat

\* Fibres are numbered in the order they are constructed.
Fibre == 1..(MaxRequests + 1)

VARIABLES
  services,       \* the kinds of services the program uses: see HasDevice
  pc,             \* where each thread is in sync_run and ~csp_thread_t
  current,        \* csp_thread_t::current
  made,           \* how many fibres were constructed
  live,           \* those not yet deleted
  active,         \* csp_process_t::active, top first
  suspended,      \* the fibres on channels between fibres
  pending,        \* the fibres whose request the device holds
  device,         \* the fibre the device is activating, or None
  devicepc,       \* where the device is in activate_fibre
  async_count, running_thread_count, refcnt,  \* of csp_process_t
  freed,          \* was the process deleted?
  requests,       \* the service requests left
  ub              \* what was used after it was deleted, if anything

fibreVars == <<made, live, active, suspended, pending>>
deviceVars == <<device, devicepc>>
processVars == <<async_count, running_thread_count, refcnt, freed>>
vars == <<pc, current, fibreVars, deviceVars, processVars, requests, ub, services>>

\* Does the program use an asynchronous service, or only its own fibres?
HasDevice == services = "asynchronous"

TypeOK ==
  /\ pc \in [Thread -> {"unborn", "start", "run", "spawn", "async", "pop", "dec",
                        "async?", "running?", "sleep", "asleep", "repop", "inc",
                        "forget", "last?", "done"}]
  /\ current \in [Thread -> Fibre \cup {None}]
  /\ made \in 0..(MaxRequests + 1)
  /\ live \subseteq 1..made
  /\ active \in Seq(Fibre)
  /\ suspended \subseteq Fibre
  /\ pending \subseteq Fibre
  /\ device \in Fibre \cup {None}
  /\ devicepc \in {"idle", "complete", "notify"}
  /\ async_count \in Nat
  /\ running_thread_count \in Nat
  /\ refcnt \in Nat
  /\ freed \in BOOLEAN
  /\ requests \in 0..MaxRequests
  /\ ub \in {"nothing", "fibre", "process"}
  /\ services \in {"synchronous", "asynchronous"}

\* csp_run makes a process and one thread, whose destructor will forget it.
Init ==
  /\ pc = [t \in Thread |-> IF t = Initial THEN "start" ELSE "unborn"]
  /\ current = [t \in Thread |-> None]
  /\ made = 0 /\ live = {} /\ active = << >> /\ suspended = {} /\ pending = {}
  /\ device = None /\ devicepc = "idle"
  /\ async_count = 0 /\ running_thread_count = 0 /\ refcnt = 1 /\ freed = FALSE
  /\ requests = MaxRequests
  /\ ub = "nothing"
  /\ services \in {"synchronous", "asynchronous"}

-----------------------------------------------------------------------------
\* Thread t goes from one place to another.
Go(t, from, to) ==
  /\ pc[t] = from
  /\ ub = "nothing"
  /\ pc' = [pc EXCEPT ![t] = to]

Push(f) == active' = <<f>> \o active

\* (Mutant of PopInto: the fibre popped stays on the active set.)
PopIntoKeeps(t) ==
  /\ current' = [current EXCEPT ![t] = IF active = << >> THEN None ELSE Head(active)]
  /\ UNCHANGED active

\* csp_process_t::pop into the current of t.
PopInto(t) ==
  \/ /\ active = << >>
     /\ current' = [current EXCEPT ![t] = None]
     /\ UNCHANGED active
  \/ /\ active # << >>
     /\ current' = [current EXCEPT ![t] = Head(active)]
     /\ active' = Tail(active)

\* new fibre_t
Construct(t) ==
  /\ made' = made + 1
  /\ live' = live \cup {made + 1}
  /\ current' = [current EXCEPT ![t] = made + 1]

\* The fibre t runs makes one of the service requests left to the program.
Request(t, to) ==
  /\ Go(t, "run", to)
  /\ requests > 0
  /\ requests' = requests - 1

-----------------------------------------------------------------------------
(***************************************************************************)
(* sync_run: from the start until there is no current fibre                *)
(***************************************************************************)

Start(t) ==
  /\ Go(t, "start", "run")
  /\ Construct(t)
  /\ running_thread_count' = running_thread_count + 1
  /\ UNCHANGED <<active, suspended, pending, deviceVars, async_count, refcnt,
                 freed, requests, ub>>

\* do_spawn_fibre, up to process->push(current) ...
SpawnFibre(t) ==
  /\ Request(t, "spawn")
  /\ Push(current[t])
  /\ UNCHANGED <<current, made, live, suspended, pending, deviceVars,
                 processVars, ub>>

\* ... and from req->tospawn.  The request is a variable of the parent.
SpawnChild(t) ==
  /\ current[t] \in live
  /\ Go(t, "spawn", "run")
  /\ Construct(t)
  /\ UNCHANGED <<active, suspended, pending, deviceVars, processVars, requests, ub>>

SpawnFibreDeferred(t) ==
  /\ Request(t, "run")
  /\ made' = made + 1
  /\ live' = live \cup {made + 1}
  /\ Push(made + 1)
  /\ UNCHANGED <<current, suspended, pending, deviceVars, processVars, ub>>

\* do_spawn_cothread: the count is raised for the new thread, u.
SpawnCothread(t, u) ==
  /\ pc[t] = "run" /\ pc[u] = "unborn" /\ ub = "nothing"
  /\ requests > 0
  /\ requests' = requests - 1
  /\ pc' = [pc EXCEPT ![u] = "start"]
  /\ refcnt' = refcnt + 1
  /\ UNCHANGED <<current, fibreVars, deviceVars, async_count,
                 running_thread_count, freed, ub>>

\* read or write finds no peer.
Suspend(t) ==
  /\ Request(t, "pop")
  /\ suspended' = suspended \cup {current[t]}
  /\ UNCHANGED <<current, made, live, active, pending, deviceVars, processVars, ub>>

\* read finds the writer f.
ResumeWriter(t, f) ==
  /\ Request(t, "run")
  /\ f \in suspended
  /\ suspended' = suspended \ {f}
  /\ Push(f)
  /\ UNCHANGED <<current, made, live, pending, deviceVars, processVars, ub>>

\* write finds the reader f, of the same process.
ResumeReader(t, f) ==
  /\ Request(t, "run")
  /\ f \in suspended
  /\ suspended' = suspended \ {f}
  /\ Push(current[t])
  /\ current' = [current EXCEPT ![t] = f]
  /\ UNCHANGED <<made, live, pending, deviceVars, processVars, ub>>

\* (Mutant of AsyncWrite: only the first of several requests is counted.)
AsyncWriteOnce(t) ==
  /\ HasDevice
  /\ Request(t, "async")
  /\ async_count' = IF pending = {} THEN async_count + 1 ELSE async_count
  /\ UNCHANGED <<current, fibreVars, deviceVars, running_thread_count, refcnt,
                 freed, ub>>

\* async_channel_t::write to the channel of the device: the count is raised,
AsyncWrite(t) ==
  /\ HasDevice
  /\ Request(t, "async")
  /\ async_count' = async_count + 1
  /\ UNCHANGED <<current, fibreVars, deviceVars, running_thread_count, refcnt,
                 freed, ub>>

\* then the fibre is pushed onto the channel, where the device finds it.
AsyncSuspend(t) ==
  /\ Go(t, "async", "pop")
  /\ pending' = pending \cup {current[t]}
  /\ UNCHANGED <<current, made, live, active, suspended, deviceVars,
                 processVars, requests, ub>>

\* (Mutant of Die: no more work is fetched.)
DieIdle(t) ==
  /\ Go(t, "run", "dec")
  /\ live' = live \ {current[t]}
  /\ current' = [current EXCEPT ![t] = None]
  /\ UNCHANGED <<made, active, suspended, pending, deviceVars, processVars,
                 requests, ub>>

\* The fibre ends and is deleted.
Die(t) ==
  /\ Go(t, "run", "pop")
  /\ live' = live \ {current[t]}
  /\ current' = [current EXCEPT ![t] = None]
  /\ UNCHANGED <<made, active, suspended, pending, deviceVars, processVars,
                 requests, ub>>

\* read and write call current->process->pop() after they suspended current,
\* when it may be resumed elsewhere; after an end it is process->pop().
Pop(t) ==
  /\ current[t] \in live \cup {None}
  /\ Go(t, "pop", IF active = << >> THEN "dec" ELSE "run")
  /\ PopInto(t)
  /\ UNCHANGED <<made, live, suspended, pending, deviceVars, processVars,
                 requests, ub>>

\* Pop or SpawnChild, but what current points to was deleted.
UseFreedFibre(t) ==
  /\ pc[t] \in {"pop", "spawn"} /\ ub = "nothing"
  /\ current[t] \notin live \cup {None}
  /\ ub' = "fibre"
  /\ UNCHANGED <<pc, current, fibreVars, deviceVars, processVars, requests>>

-----------------------------------------------------------------------------
(***************************************************************************)
(* sync_run: out of work                                                   *)
(***************************************************************************)

StopRunning(t) ==
  /\ Go(t, "dec", "async?")
  /\ running_thread_count' = running_thread_count - 1
  /\ UNCHANGED <<current, fibreVars, deviceVars, async_count, refcnt, freed,
                 requests, ub>>

\* (Mutant of CheckAsync: one request in flight is overlooked.)
CheckAsyncOffByOne(t) ==
  /\ Go(t, "async?", IF async_count > 1 THEN "sleep" ELSE "running?")
  /\ UNCHANGED <<current, fibreVars, deviceVars, processVars, requests, ub>>

\* The two halves of the condition to wait, which are two loads.
CheckAsync(t) ==
  /\ Go(t, "async?", IF async_count > 0 THEN "sleep" ELSE "running?")
  /\ UNCHANGED <<current, fibreVars, deviceVars, processVars, requests, ub>>

CheckRunning(t) ==
  /\ Go(t, "running?", IF running_thread_count > 0 THEN "sleep" ELSE "forget")
  /\ UNCHANGED <<current, fibreVars, deviceVars, processVars, requests, ub>>

\* async_wake.wait_for begins: a notification before this is lost,
Sleep(t) ==
  /\ Go(t, "sleep", "asleep")
  /\ UNCHANGED <<current, fibreVars, deviceVars, processVars, requests, ub>>

\* (Mutant of Timeout: the wait has none.)
NoTimeout(t) == Go(t, "asleep", "repop") /\ FALSE

\* and it ends for no reason at the latest after the timeout.
Timeout(t) ==
  /\ Go(t, "asleep", "repop")
  /\ UNCHANGED <<current, fibreVars, deviceVars, processVars, requests, ub>>

Repop(t) ==
  /\ Go(t, "repop", IF active = << >> THEN "async?" ELSE "inc")
  /\ PopInto(t)
  /\ UNCHANGED <<made, live, suspended, pending, deviceVars, processVars,
                 requests, ub>>

\* (Mutant of RunAgain: the thread is not counted again.)
RunAgainUncounted(t) == Go(t, "inc", "run") /\ UNCHANGED
  <<current, fibreVars, deviceVars, processVars, requests, ub>>

RunAgain(t) ==
  /\ Go(t, "inc", "run")
  /\ running_thread_count' = running_thread_count + 1
  /\ UNCHANGED <<current, fibreVars, deviceVars, async_count, refcnt, freed,
                 requests, ub>>

\* ~csp_thread_t calls forget, which decrements the count and then loads it.
Forget(t) ==
  /\ Go(t, "forget", "last?")
  /\ refcnt' = refcnt - 1
  /\ UNCHANGED <<current, fibreVars, deviceVars, async_count,
                 running_thread_count, freed, requests, ub>>

ForgetLast(t) ==
  /\ ~freed
  /\ Go(t, "last?", "done")
  /\ freed' = (refcnt = 0)
  /\ UNCHANGED <<current, fibreVars, deviceVars, async_count,
                 running_thread_count, refcnt, requests, ub>>

\* ForgetLast, but the process was deleted.
UseFreedProcess(t) ==
  /\ pc[t] = "last?" /\ freed /\ ub = "nothing"
  /\ ub' = "process"
  /\ UNCHANGED <<pc, current, fibreVars, deviceVars, processVars, requests>>

-----------------------------------------------------------------------------
(***************************************************************************)
(* activate_fibre, in the thread of the device                             *)
(***************************************************************************)

DevicePush(f) ==
  /\ devicepc = "idle" /\ ub = "nothing"
  /\ f \in pending
  /\ pending' = pending \ {f}
  /\ Push(f)
  /\ device' = f
  /\ devicepc' = "complete"
  /\ UNCHANGED <<pc, current, made, live, suspended, processVars, requests, ub>>

\* f->process->async_complete(), which decrements the count,
DeviceComplete ==
  /\ devicepc = "complete" /\ ub = "nothing"
  /\ device \in live
  /\ async_count' = async_count - 1
  /\ devicepc' = "notify"
  /\ UNCHANGED <<pc, current, fibreVars, device, running_thread_count, refcnt,
                 freed, requests, ub>>

\* then notifies every thread asleep.
DeviceNotify ==
  /\ devicepc = "notify" /\ ub = "nothing"
  /\ ~freed
  /\ pc' = [t \in Thread |-> IF pc[t] = "asleep" THEN "repop" ELSE pc[t]]
  /\ device' = None
  /\ devicepc' = "idle"
  /\ UNCHANGED <<current, fibreVars, processVars, requests, ub>>

\* DeviceComplete, but the fibre was deleted, or DeviceNotify, but the process.
DeviceUsesFreed ==
  /\ ub = "nothing"
  /\ \/ devicepc = "complete" /\ device \notin live /\ ub' = "fibre"
     \/ devicepc = "notify" /\ freed /\ ub' = "process"
  /\ UNCHANGED <<pc, current, fibreVars, deviceVars, processVars, requests>>

Device ==
  \/ \E f \in Fibre : DevicePush(f)
  \/ DeviceComplete
  \/ DeviceNotify
  \/ DeviceUsesFreed

-----------------------------------------------------------------------------
Service(t) ==
  \/ SpawnFibre(t) \/ SpawnChild(t) \/ SpawnFibreDeferred(t)
  \/ \E u \in Thread : SpawnCothread(t, u)
  \/ Suspend(t)
  \/ \E f \in Fibre : ResumeWriter(t, f) \/ ResumeReader(t, f)
  \/ AsyncWrite(t) \/ AsyncSuspend(t)

Step(t) ==
  \/ Start(t) \/ Service(t) \/ Die(t) \/ Pop(t) \/ UseFreedFibre(t)
  \/ StopRunning(t) \/ CheckAsync(t) \/ CheckRunning(t)
  \/ Sleep(t) \/ Timeout(t) \/ Repop(t) \/ RunAgain(t)
  \/ Forget(t) \/ ForgetLast(t) \/ UseFreedProcess(t)

Next == ((\E t \in Thread : Step(t)) \/ Device) /\ UNCHANGED services

\* Threads are preempted but run again, a wait ends at its timeout, and the
\* device answers every request: an alarm rings when its time has come.
Spec ==
  /\ Init /\ [][Next]_vars
  /\ \A t \in Thread : WF_vars(Step(t) /\ UNCHANGED services)
  /\ WF_vars(Device /\ UNCHANGED services)

-----------------------------------------------------------------------------
(***************************************************************************)
(* Properties                                                              *)
(***************************************************************************)

At(places) == {t \in Thread : pc[t] \in places}

\* The threads that running_thread_count counts, and those that refcnt counts.
RunningThread == At({"run", "spawn", "async", "pop", "dec"})
Sharer == Thread \ At({"unborn", "last?", "done"})

\* What an idle thread relies on.  running_thread_count is the number of
\* threads that may still make work, refcnt that of the threads that have not
\* forgotten the process, and async_count that of the requests an asynchronous
\* service has still to complete, counted from before the service can see them.
CountersCount ==
  /\ running_thread_count = Cardinality(RunningThread)
  /\ refcnt = Cardinality(Sharer)
  /\ async_count = Cardinality(pending) + Cardinality(At({"async"}))
                     + IF devicepc = "complete" THEN 1 ELSE 0

\* A fibre is in one place: run by one thread, ready once, suspended, or with
\* the device; and none is lost.  (A thread at "spawn" or "pop" has given its
\* fibre up.)
Runs(t, f) == current[t] = f /\ pc[t] \in {"run", "async", "inc"}

FibreInOnePlace ==
  \A f \in Fibre :
    Cardinality({t \in Thread : Runs(t, f)})
    + Cardinality({i \in DOMAIN active : active[i] = f})
    + Cardinality({f} \cap suspended) + Cardinality({f} \cap pending)
      = IF f \in live THEN 1 ELSE 0

\* The process outlives every request made to an asynchronous service, until
\* the service has counted it complete: (C) of the comment in clock.hpp.
PendingKeepsProcess == pending # {} \/ devicepc = "complete" => ~freed

\* clock.hpp (B): schedulers are kept alive until the active set is empty, so
\* when every thread has left no fibre is left that could run.
AllLeft == \A t \in Thread : pc[t] \in {"unborn", "last?", "done"}
NoFibreLeftBehind == AllLeft => active = << >>

\* That is so when nobody but the threads makes fibres ready.
NoFibreLeftBySchedulers == ~HasDevice => NoFibreLeftBehind

\* The threads of a program that makes finitely many requests all leave, though
\* notifications are lost and none is made for work that other fibres make.
Termination == <>(AllLeft \/ ub # "nothing")

\* csp_theory.tex, of a concurrent channel: "It is always safe between fibres of
\* the same system".  No thread uses a fibre after it was deleted.
FibreNotUsedAfterFree == ub # "fibre"
=============================================================================
