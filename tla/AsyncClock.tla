------------------------------ MODULE AsyncClock ------------------------------
(***************************************************************************)
(* csp_clock_t, the device that wakes fibres at a time they choose.  A     *)
(* client writes its alarm to the asynchronous channel of the clock and is *)
(* suspended there; the thread of the clock takes requests off the channel,*)
(* keeps them in a priority queue, and puts each client back on its active *)
(* set when its time has come.  Between whiles the thread waits, until the *)
(* next alarm, for a poll, or for the signal that follows a request.       *)
(*                                                                         *)
(* Every client holds an endpoint of its own and only writes.  It always   *)
(* finds a thread to run it, and a step of the thread that runs it or of   *)
(* the clock is one access to what they share.  The lock is taken together *)
(* with the access after it or released with the one before it, where who  *)
(* does not wait for the lock, in the destructors, cannot tell.  The ready *)
(* fibres and the threads that run them are in Scheduler.                  *)
(*                                                                         *)
(* The behaviour stops at the first use of what was deleted, and where a   *)
(* store to top overwrites what another thread has stored there.           *)
(***************************************************************************)
EXTENDS Integers, Sequences, FiniteSets

CONSTANTS
  Client,     \* the fibres that use the clock
  Owner,      \* who made the clock, and stops it
  Delay,      \* how far ahead an alarm may be set
  Poll,       \* how long the clock waits without an alarm, ten seconds
  MaxSleeps,  \* how many requests are made in all
  LastStart,  \* the last time at which one is made
  MaxTime,    \* when time stops
  Quitter     \* the clients that may end

ASSUME ClockAssumption ==
  /\ IsFiniteSet(Client) /\ Owner \notin Client
  /\ Quitter \subseteq Client
  /\ Delay \subseteq Nat \ {0} /\ Poll \in Nat \ {0}
  /\ {MaxSleeps, LastStart, MaxTime} \subseteq Nat
  /\ \A d \in Delay \cup {Poll} : LastStart + d <= MaxTime

VARIABLES
  pc,         \* where each client is, and the owner of the clock
  alarm,      \* the time each client has asked for
  sleeps,     \* the requests left
  async_count,  \* of the clients' process
  lk, top, refcnt,  \* of the channel
  freed,      \* was the channel deleted?
  link,       \* the list the thread of each has loaded from top, or stored as next
  signals,    \* the threads that have yet to signal a request
  clock,      \* where the thread of the clock is
  run, q,     \* of csp_clock_t
  found,      \* the list pop_writer has loaded
  woken,      \* the client made ready whose request is not complete yet, if any
  t, sleep_until,   \* of service()
  now,        \* the time
  ub          \* the "fibre" or "channel" used after it was deleted, a store to
              \* top that was "lost", or "nothing"

channelVars == <<lk, top, refcnt, freed>>
clockVars == <<clock, run, q, found, woken, t, sleep_until>>
vars == <<pc, alarm, sleeps, async_count, channelVars, link, signals, clockVars, now, ub>>

TypeOK ==
  /\ pc \in [Client \cup {Owner} ->
               {"run", "lock", "check", "subtract", "push", "link", "asleep", "starved",
                "join", "endpoint", "leave", "delete", "clear", "zero", "free", "gone"}]
  /\ alarm \in [Client -> 0..MaxTime]
  /\ sleeps \in 0..MaxSleeps
  /\ async_count \in 0..(Cardinality(Client) + 1)
  /\ lk \in BOOLEAN /\ freed \in BOOLEAN /\ run \in BOOLEAN
  /\ top \in Seq(Client) /\ q \subseteq Client
  /\ link \in [Client \cup {Owner} -> Seq(Client)] /\ found \in Seq(Client)
  /\ woken \subseteq Client /\ Cardinality(woken) <= 1
  \* (A count below zero is 2^64 more in the code.  Once an endpoint's destructor
  \* has made it zero unnoticed, it falls with every request.)
  /\ refcnt \in Int /\ refcnt <= Cardinality(Client) + 2
  /\ signals \in 0..MaxSleeps
  /\ clock \in {"loop", "pop", "unlink", "time", "scan", "complete", "check", "wait",
               "waiting", "returned"}
  /\ t \in 0..MaxTime /\ now \in 0..MaxTime /\ sleep_until \in 0..(MaxTime + Poll)
  /\ ub \in {"nothing", "fibre", "channel", "lost"}

\* The clock runs, and has been connected to each client: a channel starts
\* with a count of one, and the endpoints of the clock and the clients add to it.
Init ==
  /\ pc = [f \in Client \cup {Owner} |-> "run"]
  /\ alarm = [f \in Client |-> 0] /\ sleeps = MaxSleeps /\ async_count = 0
  /\ lk = FALSE /\ top = << >> /\ freed = FALSE
  /\ refcnt = 2 + Cardinality(Client)
  /\ link = [f \in Client \cup {Owner} |-> << >>] /\ signals = 0
  /\ clock = "loop" /\ run = TRUE /\ q = {} /\ found = << >> /\ woken = {}
  /\ t = 0 /\ sleep_until = 0 /\ now = 0
  /\ ub = "nothing"

-----------------------------------------------------------------------------
(***************************************************************************)
(* Clients                                                                 *)
(***************************************************************************)
Go(f, from, to) ==
  /\ pc[f] = from /\ ub = "nothing"
  /\ pc' = [pc EXCEPT ![f] = to]

\* A use of the channel, which must exist.
Use(f, from, to) == ~freed /\ Go(f, from, to)

UseFreedChannel ==
  /\ freed /\ ub = "nothing"
  /\ \/ \E f \in DOMAIN pc :
          pc[f] \in {"lock", "check", "subtract", "push", "link",
                    "endpoint", "leave", "delete", "clear", "zero", "free"}
     \/ clock \in {"pop", "unlink", "check", "wait"} \/ signals > 0
  /\ ub' = "channel"
  /\ UNCHANGED <<pc, alarm, sleeps, async_count, channelVars, link, signals, clockVars, now>>

\* A store to top, whatever it was when the thread loaded it.
StoreTop(loaded, list) ==
  /\ top' = list
  /\ ub' = IF top = loaded THEN ub ELSE "lost"

\* (Mutant of Sleep: the request is not counted.)
SleepUncounted(f, d) ==
  /\ Go(f, "run", "lock")
  /\ sleeps > 0 /\ now <= LastStart
  /\ sleeps' = sleeps - 1
  /\ alarm' = [alarm EXCEPT ![f] = now + d]
  /\ UNCHANGED <<async_count, channelVars, link, signals, clockVars, now, ub>>

\* async_channel_t::write raises the count first,
Sleep(f, d) ==
  /\ Go(f, "run", "lock")
  /\ sleeps > 0 /\ now <= LastStart
  /\ sleeps' = sleeps - 1
  /\ alarm' = [alarm EXCEPT ![f] = now + d]
  /\ async_count' = async_count + 1
  /\ UNCHANGED <<channelVars, link, signals, clockVars, now, ub>>

Lock(f) ==
  /\ Use(f, "lock", "check")
  /\ ~lk /\ lk' = TRUE
  /\ UNCHANGED <<alarm, sleeps, async_count, top, refcnt, freed, link, signals, clockVars, now, ub>>

\* and finds no reader on the channel,
Check(f) ==
  /\ Use(f, "check", IF refcnt = 1 THEN "starved" ELSE "subtract")
  /\ UNCHANGED <<alarm, sleeps, async_count, channelVars, link, signals, clockVars, now, ub>>

Subtract(f) ==
  /\ Use(f, "subtract", "push")
  /\ refcnt' = refcnt - 1
  /\ UNCHANGED <<alarm, sleeps, async_count, lk, top, freed, link, signals, clockVars, now, ub>>

\* so the client is suspended: its next is what top is,
Push(f) ==
  /\ Use(f, "push", "link")
  /\ link' = [link EXCEPT ![f] = top]
  /\ UNCHANGED <<alarm, sleeps, async_count, channelVars, signals, clockVars, now, ub>>

\* top becomes the client, and the lock is released,
Link(f) ==
  /\ Use(f, "link", "asleep")
  /\ StoreTop(link[f], <<f>> \o link[f])
  /\ lk' = FALSE
  /\ link' = [link EXCEPT ![f] = << >>]
  /\ signals' = signals + 1
  /\ UNCHANGED <<alarm, sleeps, async_count, refcnt, freed, clockVars, now>>

\* and then the clock is notified, if it waits.
Signal ==
  /\ signals > 0 /\ ~freed /\ ub = "nothing"
  /\ signals' = signals - 1
  /\ clock' = IF clock = "waiting" THEN "loop" ELSE clock
  /\ UNCHANGED <<pc, alarm, sleeps, async_count, channelVars, link, run, q, found, woken, t, sleep_until, now, ub>>

\* A client that starves is deleted, and its process read from it after that.
UseFreedFibre(f) ==
  /\ pc[f] = "starved" /\ ub = "nothing"
  /\ ub' = "fibre"
  /\ UNCHANGED <<pc, alarm, sleeps, async_count, channelVars, link, signals, clockVars, now>>

\* A client ends, and its endpoint with it.
End(f) ==
  /\ f \in Quitter
  /\ Go(f, "run", "endpoint")
  /\ UNCHANGED <<alarm, sleeps, async_count, channelVars, link, signals, clockVars, now, ub>>

\* ~channel_endpoint_t, of a client or of the clock.
LoadRefcnt(f) ==
  /\ Use(f, "endpoint", CASE refcnt = 0 -> "gone" [] refcnt = 1 -> "delete" [] OTHER -> "leave")
  /\ UNCHANGED <<alarm, sleeps, async_count, channelVars, link, signals, clockVars, now, ub>>

LeaveChannel(f) ==
  /\ Use(f, "leave", "gone")
  /\ refcnt' = refcnt - 1
  /\ UNCHANGED <<alarm, sleeps, async_count, lk, top, freed, link, signals, clockVars, now, ub>>

\* delete_channel, which does not take the lock: top is loaded,
DeleteChannel(f) ==
  /\ Use(f, "delete", "clear")
  /\ link' = [link EXCEPT ![f] = top]
  /\ UNCHANGED <<alarm, sleeps, async_count, channelVars, signals, clockVars, now, ub>>

\* set to nullptr,
ClearTop(f) ==
  /\ Use(f, "clear", "zero")
  /\ StoreTop(link[f], << >>)
  /\ UNCHANGED <<alarm, sleeps, async_count, lk, refcnt, freed, link, signals, clockVars, now>>

\* and the count to zero.
ClearRefcnt(f) ==
  /\ Use(f, "zero", "free")
  /\ refcnt' = 0
  /\ UNCHANGED <<alarm, sleeps, async_count, lk, top, freed, link, signals, clockVars, now, ub>>

\* The clients of the list are deleted, and their endpoints, which find a count of
\* zero, or below if others have lowered it since: never one,
FreeClient(f) ==
  /\ pc[f] = "free" /\ ~freed /\ ub = "nothing"
  /\ link[f] # << >>
  /\ pc' = [pc EXCEPT ![Head(link[f])] = "gone"]
  /\ link' = [link EXCEPT ![f] = Tail(@)]
  /\ refcnt' = IF refcnt = 0 THEN refcnt ELSE refcnt - 1
  /\ UNCHANGED <<alarm, sleeps, async_count, lk, top, freed, signals, clockVars, now, ub>>

\* then the channel.
FreeChannel(f) ==
  /\ Use(f, "free", "gone")
  /\ link[f] = << >>
  /\ freed' = TRUE
  /\ UNCHANGED <<alarm, sleeps, async_count, lk, top, refcnt, link, signals, clockVars, now, ub>>

-----------------------------------------------------------------------------
(***************************************************************************)
(* service(), in the thread of the clock                                   *)
(***************************************************************************)
GoClock(from, to) ==
  /\ clock = from /\ ub = "nothing"
  /\ clock' = to

\* run is read without the lock, against a write of stop() under it: a value read
\* late is that of an earlier step, and is read again in CheckRun.
Loop ==
  /\ GoClock("loop", IF run THEN "pop" ELSE "returned")
  /\ UNCHANGED <<pc, alarm, sleeps, async_count, channelVars, link, signals, run, q, found, woken, t, sleep_until, now, ub>>

\* pop_writer until there is none; it leaves the count of the channel as it is.
PopWriter ==
  /\ ~freed /\ ~lk
  /\ \/ /\ top = << >>
        /\ GoClock("pop", "time")
        /\ UNCHANGED <<lk, found>>
     \/ /\ top # << >>
        /\ GoClock("pop", "unlink")
        /\ lk' = TRUE /\ found' = top
  /\ UNCHANGED <<pc, alarm, sleeps, async_count, top, refcnt, freed, link, signals, run, q, woken,
                 t, sleep_until, now, ub>>

\* (Mutant of Unlink: the request stays on the channel.)
UnlinkNothing ==
  /\ ~freed
  /\ GoClock("unlink", "pop")
  /\ lk' = FALSE
  /\ q' = q \cup {Head(found)}
  /\ found' = << >>
  /\ UNCHANGED <<pc, alarm, sleeps, async_count, top, refcnt, freed, link, signals, run, woken,
                 t, sleep_until, now, ub>>

Unlink ==
  /\ ~freed
  /\ GoClock("unlink", "pop")
  /\ StoreTop(found, Tail(found))
  /\ lk' = FALSE
  /\ q' = q \cup {Head(found)}
  /\ found' = << >>
  /\ UNCHANGED <<pc, alarm, sleeps, async_count, refcnt, freed, link, signals, run, woken,
                 t, sleep_until, now>>

ReadTime ==
  /\ GoClock("time", "scan")
  /\ t' = now /\ sleep_until' = now + Poll
  /\ UNCHANGED <<pc, alarm, sleeps, async_count, channelVars, link, signals, run, q, found, woken, now, ub>>

\* (Mutant of Earlier: the order of the queue is not reversed.)
Later(f, g) == alarm[f] >= alarm[g]

\* operator < of the requests, which puts the earliest on top.
Earlier(f, g) == alarm[f] <= alarm[g]

OnTop(f) == f \in q /\ \A g \in q : Earlier(f, g)

\* The client on top is not yet due, or there is none.
ScanEnd ==
  /\ GoClock("scan", "check")
  /\ \/ q = {} /\ UNCHANGED sleep_until
     \/ \E f \in q : OnTop(f) /\ alarm[f] > t /\ sleep_until' = alarm[f]
  /\ UNCHANGED <<pc, alarm, sleeps, async_count, channelVars, link, signals, run, q, found, woken, t, now, ub>>

\* (Mutant of Activate: the alarm is not compared with the time.)
ActivateUndue(f) ==
  /\ GoClock("scan", "complete")
  /\ OnTop(f)
  /\ q' = q \ {f}
  /\ pc' = [pc EXCEPT ![f] = "run"]
  /\ woken' = {f}
  /\ UNCHANGED <<alarm, sleeps, async_count, channelVars, link, signals, run, found, t, sleep_until, now, ub>>

\* It is due: f->process->push(f) makes it ready,
Activate(f) ==
  /\ GoClock("scan", "complete")
  /\ OnTop(f) /\ alarm[f] <= t
  /\ q' = q \ {f}
  /\ pc' = [pc EXCEPT ![f] = "run"]
  /\ woken' = {f}
  /\ UNCHANGED <<alarm, sleeps, async_count, channelVars, link, signals, run, found, t, sleep_until, now, ub>>

\* (Mutant of Complete: the count stays.)
CompleteUncounted ==
  /\ GoClock("complete", "scan")
  /\ woken' = {}
  /\ UNCHANGED <<pc, alarm, sleeps, async_count, channelVars, link, signals, run, q, found, t, sleep_until, now, ub>>

\* and f->process->async_complete() lowers the count of its process.  By then it
\* may run, ask again, or have ended, in which case its process is read from
\* what was deleted.
Complete ==
  /\ GoClock("complete", "scan")
  /\ woken' = {}
  /\ async_count' = async_count - 1
  /\ ub' = IF \E f \in woken : pc[f] = "gone" THEN "fibre" ELSE ub
  /\ UNCHANGED <<pc, alarm, sleeps, channelVars, link, signals, run, q, found, t, sleep_until, now>>

\* lock, test run, unlock.
CheckRun ==
  /\ ~freed /\ ~lk
  /\ GoClock("check", IF run THEN "wait" ELSE "returned")
  /\ UNCHANGED <<pc, alarm, sleeps, async_count, channelVars, link, signals, run, q, found, woken, t, sleep_until, now, ub>>

\* wait_until begins: a notification before this is lost,
Wait ==
  /\ ~freed
  /\ GoClock("wait", "waiting")
  /\ UNCHANGED <<pc, alarm, sleeps, async_count, channelVars, link, signals, run, q, found, woken, t, sleep_until, now, ub>>

\* (Mutant of Timeout: the wait has none.)
NoTimeout == GoClock("waiting", "loop") /\ FALSE

\* and it ends at the latest at its time.  (Once time has stopped, at MaxTime,
\* every time to come is reached.)
Timeout ==
  /\ now >= sleep_until \/ now = MaxTime
  /\ GoClock("waiting", "loop")
  /\ UNCHANGED <<pc, alarm, sleeps, async_count, channelVars, link, signals, run, q, found, woken, t, sleep_until, now, ub>>

\* The wait has no predicate, and may end for no reason.
WakeSpuriously ==
  /\ GoClock("waiting", "loop")
  /\ UNCHANGED <<pc, alarm, sleeps, async_count, channelVars, link, signals, run, q, found, woken, t, sleep_until, now, ub>>

Service ==
  \/ Loop \/ PopWriter \/ Unlink \/ ReadTime
  \/ ScanEnd \/ (\E f \in Client : Activate(f)) \/ Complete
  \/ CheckRun \/ Wait \/ Timeout

-----------------------------------------------------------------------------
(***************************************************************************)
(* The owner of the clock, time, and all together                          *)
(***************************************************************************)

\* stop(), up to the join: lock, clear run, notify, unlock.
Stop ==
  /\ Use(Owner, "run", "join")
  /\ ~lk
  /\ run' = FALSE
  /\ clock' = IF clock = "waiting" THEN "loop" ELSE clock
  /\ UNCHANGED <<alarm, sleeps, async_count, channelVars, link, signals, q, found, woken, t, sleep_until, now, ub>>

\* The thread has returned, and the members of the clock are destroyed.
Join ==
  /\ clock = "returned"
  /\ Go(Owner, "join", "endpoint")
  /\ UNCHANGED <<alarm, sleeps, async_count, channelVars, link, signals, clockVars, now, ub>>

Tick ==
  /\ now < MaxTime /\ ub = "nothing"
  /\ now' = now + 1
  /\ UNCHANGED <<pc, alarm, sleeps, async_count, channelVars, link, signals, clockVars, ub>>

\* What a client does of itself, and what the thread that runs it goes on to do.
Request(f) == End(f) \/ \E d \in Delay : Sleep(f, d)
Write(f) == Lock(f) \/ Check(f) \/ Subtract(f) \/ Push(f) \/ Link(f) \/ UseFreedFibre(f)
Release(f) ==
  \/ LoadRefcnt(f) \/ LeaveChannel(f) \/ DeleteChannel(f) \/ ClearTop(f) \/ ClearRefcnt(f)
  \/ FreeClient(f) \/ FreeChannel(f)

Next ==
  \/ \E f \in Client : Request(f) \/ Write(f)
  \/ \E f \in Client \cup {Owner} : Release(f)
  \/ Signal \/ Service \/ WakeSpuriously \/ Stop \/ Join \/ Tick \/ UseFreedChannel

\* Threads are preempted but run again, and time passes.  Nobody need make a
\* request, or stop the clock.
Spec ==
  /\ Init /\ [][Next]_vars
  /\ \A f \in Client : WF_vars(Write(f))
  /\ \A f \in Client \cup {Owner} : WF_vars(Release(f))
  /\ WF_vars(Signal) /\ WF_vars(Service) /\ WF_vars(Join) /\ WF_vars(Tick)

-----------------------------------------------------------------------------
(***************************************************************************)
(* Properties                                                              *)
(***************************************************************************)

\* The clients whose request is not answered, which keep the schedulers of
\* their process from leaving: async_count counts them, from before the clock
\* can see them until after it has made them active; so a client that asks again
\* before the clock has completed its last request counts twice.  (Those deleted
\* with the channel are counted for ever.)
Requesting == {f \in Client : pc[f] \in {"lock", "check", "subtract", "push", "link",
                                        "asleep", "starved"}}
AsyncCountCounts ==
  ~freed /\ (\A f \in DOMAIN pc : pc[f] # "free") =>
    async_count = Cardinality(Requesting) + Cardinality(woken)

\* A client asleep is in the care of the clock, once: on the channel or in the
\* queue, or else on the list of one delete_channel; and nobody else is.  This
\* ends when a delete_channel and a client or the clock, which holds the lock,
\* overwrite each other's top: nothing in the code keeps them apart.
InCareOfClock ==
  ub # "lost" =>
    \A f \in Client :
      Cardinality({i \in DOMAIN top : top[i] = f}) + Cardinality({f} \cap q)
      + Cardinality({g \in DOMAIN pc : /\ pc[g] \in {"zero", "free"}
                                      /\ \E i \in DOMAIN link[g] : link[g][i] = f})
        = IF pc[f] = "asleep" THEN 1 ELSE 0

\* The clock never waits longer than until the first alarm it knows of, and
\* rings every alarm that was due when it looked.
WakesInTime ==
  clock \in {"check", "wait", "waiting"} =>
    \A f \in q : t < alarm[f] /\ sleep_until <= alarm[f]

\* Nobody is woken early.
NeverEarly ==
  [][\A f \in Client : pc[f] = "asleep" /\ pc'[f] = "run" => now >= alarm[f]]_vars

\* The channel or a client was deleted while it was in use (see NobodyStarves).
Broken == freed \/ ub # "nothing"

\* Each alarm rings, unless the clock is stopped first.
AlarmRings ==
  \A f \in Client : pc[f] = "asleep" ~> pc[f] # "asleep" \/ ~run \/ Broken

StopReturns == pc[Owner] = "join" ~> pc[Owner] # "join" \/ Broken

\* Whoever waits for the clock is answered: each alarm rings, and stop()
\* returns, although a notification that finds the clock not yet waiting is lost.
EveryWaitEnds == AlarmRings /\ StopReturns

\* async_channel.hpp: a fibre that "is the only holder of an endpoint ... must
\* be deleted", and devices "such as a clock MUST prevent this by holding an
\* endpoint to the channel".  True of few requests and false in the long run:
\* the clock holds its endpoint until it is destroyed, and a client starves.
NobodyStarves ==
  pc[Owner] \in {"run", "join"} => \A f \in Client : pc[f] # "starved"
=============================================================================
