---------------------------- MODULE SchedulerProofs ----------------------------
(***************************************************************************)
(* Theorems about Scheduler, for any number of threads and requests.       *)
(***************************************************************************)
EXTENDS Scheduler, StackLemmas, FiniteSetTheorems

\* A thread in one of these places looks at the active set, or has taken a
\* fibre from it, before it can leave.
Busy == {"run", "spawn", "async", "pop", "inc"}

\* Where a thread can be when there is no device.
SyncPlaces == {"unborn", "start", "run", "spawn", "pop", "dec", "async?",
               "running?", "sleep", "asleep", "repop", "inc", "forget",
               "last?", "done"}

\* The inductive invariant.  Its last conjunct is what makes it so: whoever
\* pushed a ready fibre has not looked for more work since.
LeftBehindInv ==
  /\ pc \in [Thread -> SyncPlaces]
  /\ made \in Nat
  /\ current \in [Thread -> Nat \cup {None}]
  /\ active \in Seq(Nat \cup {None})
  /\ pending = {} /\ devicepc = "idle"
  /\ active # << >> => \E t \in Thread : pc[t] \in Busy

LEMMA LeftBehindInit == Init => LeftBehindInv
BY SchedulerAssumption DEF Init, LeftBehindInv, SyncPlaces

LEMMA LeftBehindNext ==
  ASSUME ~HasDevice, LeftBehindInv, [Next]_vars
  PROVE  LeftBehindInv'
<1> USE DEF LeftBehindInv, SyncPlaces, Busy
<1>1. ASSUME NEW t \in Thread, Step(t) PROVE LeftBehindInv'
  \* A thread that pushes stays busy.
  <2>1. CASE Start(t)
    BY <2>1 DEF Start, Request, Go, Push, Construct, deviceVars
  <2>2. CASE SpawnFibre(t)
    BY <2>2 DEF SpawnFibre, Request, Go, Push, Construct, deviceVars
  <2>3. CASE SpawnChild(t)
    BY <2>3 DEF SpawnChild, Request, Go, Push, Construct, deviceVars
  <2>4. CASE SpawnFibreDeferred(t)
    BY <2>4 DEF SpawnFibreDeferred, Request, Go, Push, Construct, deviceVars
  <2>5. ASSUME NEW u \in Thread, SpawnCothread(t, u) PROVE LeftBehindInv'
    BY <2>5 DEF SpawnCothread, fibreVars, deviceVars
  <2>6. CASE Suspend(t)
    BY <2>6 DEF Suspend, Request, Go, deviceVars
  <2>7. ASSUME NEW f \in Fibre, ResumeWriter(t, f) PROVE LeftBehindInv'
    BY <2>7 DEF ResumeWriter, Request, Go, Push, Fibre, deviceVars
  <2>8. ASSUME NEW f \in Fibre, ResumeReader(t, f) PROVE LeftBehindInv'
    BY <2>8 DEF ResumeReader, Request, Go, Push, Fibre, deviceVars
  <2>9. CASE AsyncWrite(t)
    BY <2>9 DEF AsyncWrite
  <2>10. CASE AsyncSuspend(t)
    BY <2>10 DEF AsyncSuspend, Go
  <2>11. CASE Service(t)
    BY <2>2, <2>3, <2>4, <2>5, <2>6, <2>7, <2>8, <2>9, <2>10, <2>11 DEF Service
  <2>12. CASE Die(t)
    BY <2>12 DEF Die, Go, PopInto, fibreVars, deviceVars
  <2>13. CASE Pop(t)
    <3>1. CASE active = << >>
      BY <2>13, <3>1 DEF Pop, Go, PopInto, deviceVars
    <3>2. CASE active # << >>
      <4>1. Head(active) \in Nat \cup {None} /\ Tail(active) \in Seq(Nat \cup {None})
        BY <3>2
      <4>2. pc' = [pc EXCEPT ![t] = "run"]
        BY <2>13, <3>2 DEF Pop, Go
      <4> QED
        BY <2>13, <3>2, <4>1, <4>2 DEF Pop, PopInto, deviceVars
    <3> QED
      BY <3>1, <3>2
  <2>14. CASE UseFreedFibre(t)
    BY <2>14 DEF UseFreedFibre, Go, PopInto, fibreVars, deviceVars
  <2>15. CASE StopRunning(t)
    BY <2>15 DEF StopRunning, Go, PopInto, fibreVars, deviceVars
  <2>16. CASE CheckAsync(t)
    BY <2>16 DEF CheckAsync, Go, PopInto, fibreVars, deviceVars
  <2>17. CASE CheckRunning(t)
    BY <2>17 DEF CheckRunning, Go, PopInto, fibreVars, deviceVars
  <2>18. CASE Sleep(t)
    BY <2>18 DEF Sleep, Go, PopInto, fibreVars, deviceVars
  <2>19. CASE Timeout(t)
    BY <2>19 DEF Timeout, Go, PopInto, fibreVars, deviceVars
  <2>20. CASE Repop(t)
    <3>1. CASE active = << >>
      BY <2>20, <3>1 DEF Repop, Go, PopInto, deviceVars
    <3>2. CASE active # << >>
      <4>1. Head(active) \in Nat \cup {None} /\ Tail(active) \in Seq(Nat \cup {None})
        BY <3>2
      <4>2. pc' = [pc EXCEPT ![t] = "inc"]
        BY <2>20, <3>2 DEF Repop, Go
      <4> QED
        BY <2>20, <3>2, <4>1, <4>2 DEF Repop, PopInto, deviceVars
    <3> QED
      BY <3>1, <3>2
  <2>21. CASE RunAgain(t)
    BY <2>21 DEF RunAgain, Go, PopInto, fibreVars, deviceVars
  <2>22. CASE Forget(t)
    BY <2>22 DEF Forget, Go, PopInto, fibreVars, deviceVars
  <2>23. CASE ForgetLast(t)
    BY <2>23 DEF ForgetLast, Go, PopInto, fibreVars, deviceVars
  <2>24. CASE UseFreedProcess(t)
    BY <2>24 DEF UseFreedProcess, Go, PopInto, fibreVars, deviceVars
  <2> QED
    BY <1>1, <2>1, <2>11, <2>12, <2>13, <2>14, <2>15, <2>16, <2>17, <2>18, <2>19, <2>20, <2>21, <2>22, <2>23, <2>24 DEF Step
<1>2. CASE Device
  BY <1>2 DEF Device, DevicePush, DeviceComplete, DeviceNotify, DeviceUsesFreed
<1>3. CASE UNCHANGED vars
  BY <1>3 DEF vars, fibreVars, deviceVars
<1> QED
  BY <1>1, <1>2, <1>3 DEF Next

LEMMA LeftBehindStep ==
  (HasDevice \/ LeftBehindInv) /\ [Next]_vars => (HasDevice \/ LeftBehindInv)'
<1>1. ASSUME [Next]_vars PROVE services' = services
  BY <1>1 DEF Next, vars
<1> QED
  BY <1>1, LeftBehindNext DEF HasDevice

\* However many threads share a process, when they have all left no fibre that
\* could run is left on the active set, provided there is no device: the loop
\* of sync_run pops once more after its last push.
THEOREM NothingLeftBehind == Spec => []NoFibreLeftBySchedulers
<1>1. HasDevice \/ LeftBehindInv => NoFibreLeftBySchedulers
  BY DEF LeftBehindInv, NoFibreLeftBySchedulers, NoFibreLeftBehind, AllLeft, Busy
<1> QED
  BY <1>1, LeftBehindInit, LeftBehindStep, PTL DEF Spec

-----------------------------------------------------------------------------
(***************************************************************************)
(* The counters                                                            *)
(***************************************************************************)

RunningPlaces == {"run", "spawn", "async", "pop", "dec"}
WaitingPlaces == {"async?", "sleep", "asleep", "repop", "inc"}
SharerPlaces == {"start", "running?", "forget"} \cup RunningPlaces \cup WaitingPlaces
Places == {"unborn", "last?", "done"} \cup SharerPlaces

\* TypeOK, but for the counters, which may be negative for all it says.
Typed ==
  /\ pc \in [Thread -> Places]
  /\ current \in [Thread -> Fibre \cup {None}]
  /\ made \in Nat /\ made <= MaxRequests + 1 /\ live \subseteq 1..made
  /\ active \in Seq(Fibre) /\ suspended \subseteq Fibre /\ pending \subseteq Fibre
  /\ device \in Fibre \cup {None} /\ devicepc \in {"idle", "complete", "notify"}
  /\ async_count \in Int /\ running_thread_count \in Int /\ refcnt \in Int
  /\ freed \in BOOLEAN /\ requests \in 0..MaxRequests
  /\ ub \in {"nothing", "fibre", "process"}
  /\ services \in {"synchronous", "asynchronous"}

\* By how much the number of threads at some places changes when one of them
\* goes from one place to another.
Change(from, to, places) ==
  (IF to \in places THEN 1 ELSE 0) - (IF from \in places THEN 1 ELSE 0)

LEMMA FiniteParts ==
  ASSUME Typed
  PROVE  /\ \A places : /\ IsFiniteSet(At(places))
                        /\ Cardinality(At(places)) \in Nat
         /\ IsFiniteSet(pending) /\ Cardinality(pending) \in Nat
<1>1. \A places : At(places) \subseteq Thread
  BY DEF At
<1>2. IsFiniteSet(Fibre)
  BY SchedulerAssumption, FS_Interval DEF Fibre
<1> QED
  BY <1>1, <1>2, SchedulerAssumption, FS_Subset, FS_CardinalityType DEF Typed

LEMMA AtMoves ==
  ASSUME Typed, NEW t \in Thread, NEW from, NEW to, NEW places, Go(t, from, to)
  PROVE  Cardinality(At(places))' = Cardinality(At(places)) + Change(from, to, places)
<1>1. IsFiniteSet(At(places)) /\ Cardinality(At(places)) \in Nat
  BY FiniteParts
<1>2. /\ pc[t] = from /\ pc'[t] = to
      /\ \A u \in Thread \ {t} : pc'[u] = pc[u]
  BY DEF Go, Typed
<1>3. \A u \in Thread : u \in At(places) <=> pc[u] \in places
  BY DEF At
<1>4. \A u \in Thread : u \in At(places)' <=> pc'[u] \in places
  BY DEF At
<1>5. At(places) \subseteq Thread /\ At(places)' \subseteq Thread
  BY DEF At
<1>6. CASE from \in places /\ to \notin places
  <2>1. At(places)' = At(places) \ {t} /\ t \in At(places)
    BY <1>2, <1>3, <1>4, <1>5, <1>6
  <2>2. Cardinality(At(places) \ {t}) = Cardinality(At(places)) - 1
    BY <1>1, <2>1, FS_RemoveElement
  <2>3. Change(from, to, places) = -1
    BY <1>6 DEF Change
  <2> QED
    BY <1>1, <2>1, <2>2, <2>3
<1>7. CASE from \notin places /\ to \in places
  <2>1. At(places)' = At(places) \cup {t} /\ t \notin At(places)
    BY <1>2, <1>3, <1>4, <1>5, <1>7
  <2>2. Cardinality(At(places) \cup {t}) = Cardinality(At(places)) + 1
    BY <1>1, <2>1, FS_AddElement
  <2>3. Change(from, to, places) = 1
    BY <1>7 DEF Change
  <2> QED
    BY <1>1, <2>1, <2>2, <2>3
<1>8. CASE from \in places <=> to \in places
  <2>1. At(places)' = At(places)
    BY <1>2, <1>3, <1>4, <1>5, <1>8
  <2>2. Change(from, to, places) = 0
    BY <1>8 DEF Change
  <2> QED
    BY <1>1, <2>1, <2>2
<1> QED
  BY <1>6, <1>7, <1>8

LEMMA SharerIs ==
  /\ pc \in [Thread -> Places] => Sharer = At(SharerPlaces)
  /\ pc' \in [Thread -> Places] => Sharer' = At(SharerPlaces)'
BY DEF Sharer, At, Places, SharerPlaces, RunningPlaces, WaitingPlaces

\* What a thread's step must do to the counters.
LEMMA CountersStep ==
  ASSUME Typed, CountersCount, NEW t \in Thread, NEW from \in Places, NEW to \in Places,
         Go(t, from, to),
         running_thread_count' = running_thread_count + Change(from, to, RunningPlaces),
         refcnt' = refcnt + Change(from, to, SharerPlaces),
         async_count' - Cardinality(pending)'
           = async_count - Cardinality(pending) + Change(from, to, {"async"}),
         async_count' \in Int, Cardinality(pending') \in Nat,
         UNCHANGED devicepc
  PROVE  CountersCount'
<1>1. pc \in [Thread -> Places] /\ pc' \in [Thread -> Places]
  BY DEF Go, Typed
<1>2. Sharer = At(SharerPlaces) /\ Sharer' = At(SharerPlaces)'
  BY <1>1, SharerIs
<1>3. RunningThread = At(RunningPlaces) /\ RunningThread' = At(RunningPlaces)'
  BY DEF RunningThread, RunningPlaces
<1>4. /\ Cardinality(At(RunningPlaces))'
           = Cardinality(At(RunningPlaces)) + Change(from, to, RunningPlaces)
      /\ Cardinality(At(SharerPlaces))'
           = Cardinality(At(SharerPlaces)) + Change(from, to, SharerPlaces)
      /\ Cardinality(At({"async"}))'
           = Cardinality(At({"async"})) + Change(from, to, {"async"})
  BY AtMoves
<1>5. running_thread_count' = Cardinality(RunningThread)'
  BY <1>3, <1>4 DEF CountersCount
<1>6. refcnt' = Cardinality(Sharer)'
  BY <1>2, <1>4 DEF CountersCount
<1>7. Change(from, to, {"async"}) \in Int
  BY DEF Change
<1>8. /\ Cardinality(pending) \in Nat /\ async_count \in Int
      /\ Cardinality(At({"async"})) \in Nat
  BY FiniteParts DEF Typed
<1>9. async_count' = Cardinality(pending)' + Cardinality(At({"async"}))'
                       + IF devicepc' = "complete" THEN 1 ELSE 0
  BY <1>4, <1>7, <1>8 DEF CountersCount
<1> QED
  BY <1>5, <1>6, <1>9 DEF CountersCount

-----------------------------------------------------------------------------
(***************************************************************************)
(* Where the fibres are                                                    *)
(***************************************************************************)

Has(t) == {f \in Fibre : Runs(t, f)}
Ready == Elements(active)

\* A fibre that exists is in one place.
Placed ==
  /\ Distinct(active)
  /\ \A t, u \in Thread : t # u => Has(t) \cap Has(u) = {}
  /\ \A t \in Thread : Has(t) \cap (Ready \cup suspended \cup pending) = {}
  /\ Ready \cap suspended = {} /\ Ready \cap pending = {} /\ suspended \cap pending = {}
  /\ \A f \in Fibre :
       f \in live <=> \/ f \in Ready \cup suspended \cup pending
                      \/ \E t \in Thread : f \in Has(t)

\* A step of t moves fibres between what t has and the three sets, those of N
\* are new, and those of D are deleted.
LEMMA Moves ==
  ASSUME Placed, NEW t \in Thread, NEW N, NEW D,
         \A u \in Thread \ {t} : pc'[u] = pc[u] /\ current'[u] = current[u],
         Distinct(active)', Has(t)' \cap (Ready' \cup suspended' \cup pending') = {},
         Ready' \cap suspended' = {}, Ready' \cap pending' = {}, suspended' \cap pending' = {},
         N \cap live = {}, D \subseteq Has(t),
         Has(t)' \cup Ready' \cup suspended' \cup pending'
           = (Has(t) \cup Ready \cup suspended \cup pending \cup N) \ D,
         live' = (live \cup N) \ D
  PROVE  Placed'
<1> DEFINE Old == Has(t) \cup Ready \cup suspended \cup pending
           New == Has(t)' \cup Ready' \cup suspended' \cup pending'
<1>1. \A u \in Thread \ {t} : Has(u)' = Has(u)
  BY DEF Has, Runs
<1>2. \A u \in Thread \ {t} : Has(u) \cap Old = {} /\ Has(u) \cap N = {}
  BY DEF Placed, Has
<1>3. New = (Old \cup N) \ D
  OBVIOUS
<1>4. \A u \in Thread \ {t} : Has(u)' \cap New = {}
  BY <1>1, <1>2, <1>3
<1>5. \A u, v \in Thread : u # v => Has(u)' \cap Has(v)' = {}
  BY <1>1, <1>4 DEF Placed
<1>6. \A u \in Thread : Has(u)' \cap (Ready' \cup suspended' \cup pending') = {}
  BY <1>4
<1>7. ASSUME NEW f \in Fibre
      PROVE  f \in live' <=> \/ f \in Ready' \cup suspended' \cup pending'
                             \/ \E u \in Thread : f \in Has(u)'
  <2>1. f \in live <=> f \in Old \/ \E u \in Thread \ {t} : f \in Has(u)
    BY DEF Placed
  <2>2. (\E u \in Thread \ {t} : f \in Has(u)) => f \notin D /\ f \notin N
    BY <1>2
  <2>3. f \in live' <=> f \in New \/ \E u \in Thread \ {t} : f \in Has(u)
    BY <1>3, <2>1, <2>2
  <2>4. (\E u \in Thread : f \in Has(u)')
          <=> f \in Has(t)' \/ \E u \in Thread \ {t} : f \in Has(u)
    BY <1>1
  <2> QED
    BY <2>3, <2>4
<1> QED
  BY <1>5, <1>6, <1>7 DEF Placed

LEMMA NoneMoves ==
  ASSUME Placed, \A t \in Thread : Has(t)' = Has(t),
         UNCHANGED <<active, suspended, pending, live>>
  PROVE  Placed'
BY DEF Placed, Ready, Distinct, Elements

-----------------------------------------------------------------------------
(***************************************************************************)
(* The invariant                                                           *)
(***************************************************************************)

\* Where a thread's current was not given up.
Holding == {"run", "spawn", "async", "inc"}
Held == \A t \in Thread : pc[t] \in Holding => current[t] \in Fibre

\* There are numbers for the fibres still to be made.
MadeFew ==
  made + requests + Cardinality(At({"start"})) + Cardinality(At({"spawn"}))
    <= MaxRequests + 1

\* While an asynchronous request is counted some thread has still to look at
\* the count before it can leave.
Staying == RunningPlaces \cup WaitingPlaces
SomeoneStays == async_count > 0 => \E t \in Thread : pc[t] \in Staying

\* The process is freed by the last thread only.
FreedLast == freed = TRUE => \A t \in Thread : pc[t] \notin SharerPlaces

SchedulerInv ==
  /\ Typed /\ Held /\ MadeFew /\ CountersCount /\ Placed /\ SomeoneStays /\ FreedLast

LEMMA ChangeType == \A from, to, places : Change(from, to, places) \in Int
BY DEF Change

LEMMA CountersType ==
  ASSUME running_thread_count \in Int, refcnt \in Int, NEW from, NEW to,
         running_thread_count' = running_thread_count + Change(from, to, RunningPlaces),
         refcnt' = refcnt + Change(from, to, SharerPlaces)
  PROVE  running_thread_count' \in Int /\ refcnt' \in Int
<1>1. PICK c \in Int, d \in Int :
        c = Change(from, to, RunningPlaces) /\ d = Change(from, to, SharerPlaces)
  BY ChangeType
<1> QED
  BY <1>1

LEMMA PartIsLess ==
  \A m, r, a, b, n \in Nat : m + r + a + b <= n + 1 => m <= n + 1
OBVIOUS

LEMMA MadeStep ==
  ASSUME Typed, MadeFew, NEW t \in Thread, NEW from, NEW to, Go(t, from, to),
         made' \in Nat, requests' \in Nat,
         made' + requests' + Change(from, to, {"start"}) + Change(from, to, {"spawn"})
           <= made + requests
  PROVE  MadeFew' /\ made' <= MaxRequests + 1
<1> DEFINE a == Cardinality(At({"start"}))
           b == Cardinality(At({"spawn"}))
<1>1. a' = a + Change(from, to, {"start"}) /\ b' = b + Change(from, to, {"spawn"})
  BY AtMoves
<1>2. a \in Nat /\ b \in Nat /\ a' \in Nat /\ b' \in Nat
  <2>1. At({"start"})' \subseteq Thread /\ At({"spawn"})' \subseteq Thread
    BY DEF At
  <2>2. a' \in Nat /\ b' \in Nat
    BY <2>1, SchedulerAssumption, FS_Subset, FS_CardinalityType
  <2> QED
    BY <2>2, FiniteParts
<1>3. MaxRequests \in Nat
  BY SchedulerAssumption
<1>4. made \in Nat /\ requests \in Nat
  BY <1>3 DEF Typed
<1>5. made + requests + a + b <= MaxRequests + 1
  BY DEF MadeFew
<1> HIDE DEF a, b
<1>6. PICK c \in Int, d \in Int :
        c = Change(from, to, {"start"}) /\ d = Change(from, to, {"spawn"})
  BY ChangeType
<1>7. made' + requests' + a' + b' <= MaxRequests + 1
  BY <1>1, <1>2, <1>3, <1>4, <1>5, <1>6
<1>8. made' <= MaxRequests + 1
  BY <1>2, <1>3, <1>4, <1>7, PartIsLess
<1> QED
  BY <1>7, <1>8 DEF MadeFew, a, b

\* What a thread's step must do to keep it.
LEMMA GoStep ==
  ASSUME SchedulerInv, NEW t \in Thread, NEW from \in Places, NEW to \in Places,
         Go(t, from, to), UNCHANGED <<deviceVars, services, ub>>,
         \* the counters
         running_thread_count' = running_thread_count + Change(from, to, RunningPlaces),
         refcnt' = refcnt + Change(from, to, SharerPlaces),
         async_count' - Cardinality(pending)'
           = async_count - Cardinality(pending) + Change(from, to, {"async"}),
         async_count' \in Int, Cardinality(pending') \in Nat,
         \* the fibres
         current' \in [Thread -> Fibre \cup {None}],
         \A u \in Thread \ {t} : current'[u] = current[u],
         to \in Holding => current'[t] \in Fibre,
         made' \in Nat, live' \subseteq 1..made', active' \in Seq(Fibre),
         suspended' \subseteq Fibre, pending' \subseteq Fibre, Placed',
         requests' \in 0..MaxRequests,
         made' + requests' + Change(from, to, {"start"}) + Change(from, to, {"spawn"})
           <= made + requests,
         \* who stays, and who frees
         from \in Staying => to \in Staying \/ async_count' <= 0,
         async_count' <= async_count \/ to \in Staying,
         \/ freed' = freed /\ \E u \in Thread : pc[u] \in SharerPlaces
         \/ freed' = (refcnt = 0) /\ from \notin SharerPlaces /\ to \notin SharerPlaces
  PROVE  SchedulerInv'
<1>1. /\ Typed /\ Held /\ MadeFew /\ CountersCount /\ SomeoneStays /\ FreedLast
      /\ MaxRequests \in Nat
  BY SchedulerAssumption DEF SchedulerInv
<1>2. /\ pc[t] = from /\ pc'[t] = to /\ pc' \in [Thread -> Places]
      /\ \A u \in Thread \ {t} : pc'[u] = pc[u]
  BY <1>1 DEF Go, Typed
<1>3. CountersCount'
  BY <1>1, CountersStep DEF deviceVars
<1>4. MadeFew' /\ made' <= MaxRequests + 1
  <2>1. requests' \in Nat
    BY <1>1
  <2> QED
    BY <1>1, <2>1, MadeStep
<1>5. Typed'
  <2>1. running_thread_count \in Int /\ refcnt \in Int /\ freed \in BOOLEAN
    BY <1>1 DEF Typed
  <2>2. running_thread_count' \in Int /\ refcnt' \in Int
    BY <2>1, CountersType
  <2>3. freed' \in BOOLEAN
    BY <2>1
  <2> QED
    BY <1>1, <1>2, <1>4, <2>2, <2>3 DEF Typed, deviceVars
<1>6. Held'
  BY <1>1, <1>2 DEF Held
<1>7. SomeoneStays'
  <2>1. CASE to \in Staying
    BY <1>2, <2>1 DEF SomeoneStays
  <2>2. CASE to \notin Staying /\ async_count' > 0
    <3>1. from \notin Staying /\ async_count > 0
      BY <1>1, <2>2 DEF Typed
    <3>2. PICK u \in Thread : pc[u] \in Staying
      BY <1>1, <3>1 DEF SomeoneStays
    <3> QED
      BY <1>2, <3>1, <3>2 DEF SomeoneStays
  <2> QED
    BY <2>1, <2>2 DEF SomeoneStays
<1>8. FreedLast'
  <2>1. CASE freed' = freed /\ \E u \in Thread : pc[u] \in SharerPlaces
    BY <1>1, <2>1 DEF FreedLast
  <2>2. CASE freed' = (refcnt = 0) /\ from \notin SharerPlaces /\ to \notin SharerPlaces
    <3>1. Sharer = At(SharerPlaces)
      BY <1>1, SharerIs DEF Typed
    <3>2. refcnt = 0 => At(SharerPlaces) = {}
      BY <1>1, <3>1, FiniteParts, FS_EmptySet DEF CountersCount
    <3>3. refcnt = 0 => \A u \in Thread : pc[u] \notin SharerPlaces
      BY <3>2 DEF At
    <3> QED
      BY <1>2, <2>2, <3>3 DEF FreedLast
  <2> QED
    BY <2>1, <2>2
<1> QED
  BY <1>3, <1>4, <1>5, <1>6, <1>7, <1>8 DEF SchedulerInv

-----------------------------------------------------------------------------
(***************************************************************************)
(* The steps                                                               *)
(***************************************************************************)

\* What t has, by its place.
LEMMA HasWhat ==
  ASSUME NEW t \in Thread
  PROVE  /\ Has(t) = IF pc[t] \in {"run", "async", "inc"} THEN Fibre \cap {current[t]} ELSE {}
         /\ Has(t)' = IF pc'[t] \in {"run", "async", "inc"} THEN Fibre \cap {current'[t]} ELSE {}
BY DEF Has, Runs

LEMMA NoMore == \A m, q, r \in Nat : q <= r => m + q + 0 + 0 <= m + r
OBVIOUS

\* Nothing is made or moved.
LEMMA QuietStep ==
  ASSUME SchedulerInv, NEW t \in Thread, NEW from \in Places, NEW to \in Places,
         Go(t, from, to),
         UNCHANGED <<current, fibreVars, deviceVars, services, ub>>,
         running_thread_count' = running_thread_count + Change(from, to, RunningPlaces),
         refcnt' = refcnt + Change(from, to, SharerPlaces),
         async_count' = async_count + Change(from, to, {"async"}),
         to \in Holding => from \in Holding,
         from \in {"run", "async", "inc"} <=> to \in {"run", "async", "inc"},
         requests' \in 0..MaxRequests, requests' <= requests,
         from \notin {"start", "spawn"}, to \notin {"start", "spawn"},
         from \in Staying => to \in Staying \/ async_count' <= 0,
         \/ freed' = freed /\ \E u \in Thread : pc[u] \in SharerPlaces
         \/ freed' = (refcnt = 0) /\ from \notin SharerPlaces /\ to \notin SharerPlaces
  PROVE  SchedulerInv'
<1>1. Typed /\ Held /\ Placed
  BY DEF SchedulerInv
<1>2. pc[t] = from /\ pc'[t] = to /\ \A u \in Thread \ {t} : pc'[u] = pc[u]
  BY <1>1 DEF Go, Typed
<1>3. Placed'
  <2>1. \A u \in Thread : Has(u)' = Has(u)
    BY <1>2 DEF Has, Runs
  <2> QED
    BY <1>1, <2>1, NoneMoves DEF fibreVars
<1>4. /\ async_count \in Int /\ Cardinality(pending) \in Nat /\ pending' = pending
      /\ made \in Nat /\ requests \in Nat /\ requests' \in Nat
  BY <1>1, FiniteParts, SchedulerAssumption DEF Typed, fibreVars
<1>5. /\ async_count' - Cardinality(pending')
           = async_count - Cardinality(pending) + Change(from, to, {"async"})
      /\ async_count' \in Int
  <2>1. PICK c \in Int : c = Change(from, to, {"async"})
    BY ChangeType
  <2> QED
    BY <1>4, <2>1
<1>6. async_count' <= async_count \/ to \in Staying
  <2>1. to # "async" => Change(from, to, {"async"}) \in {0, -1}
    BY DEF Change
  <2> QED
    BY <1>4, <2>1 DEF Staying, RunningPlaces
<1>7. made' + requests' + Change(from, to, {"start"}) + Change(from, to, {"spawn"})
        <= made + requests
  <2>1. Change(from, to, {"start"}) = 0 /\ Change(from, to, {"spawn"}) = 0
    BY DEF Change
  <2>2. made' = made
    BY DEF fibreVars
  <2>3. made' + requests' + 0 + 0 <= made + requests
    BY <1>4, <2>2, NoMore
  <2> QED
    BY <2>1, <2>3, Zenon
<1>8. /\ current' \in [Thread -> Fibre \cup {None}]
      /\ \A u \in Thread \ {t} : current'[u] = current[u]
      /\ to \in Holding => current'[t] \in Fibre
      /\ made' \in Nat /\ live' \subseteq 1..made' /\ active' \in Seq(Fibre)
      /\ suspended' \subseteq Fibre /\ pending' \subseteq Fibre
  BY <1>1, <1>2 DEF Typed, Held, fibreVars
<1> QED
  BY <1>3, <1>4, <1>5, <1>6, <1>7, <1>8, GoStep

LEMMA QuietSteps ==
  ASSUME SchedulerInv, NEW t \in Thread, UNCHANGED services,
         \/ AsyncWrite(t) \/ StopRunning(t) \/ CheckAsync(t) \/ CheckRunning(t)
         \/ Sleep(t) \/ Timeout(t) \/ RunAgain(t) \/ Forget(t) \/ ForgetLast(t)
  PROVE  SchedulerInv'
<1>1. /\ Typed /\ requests \in 0..MaxRequests /\ requests <= requests
      /\ async_count \in Int /\ running_thread_count \in Int /\ refcnt \in Int
  BY SchedulerAssumption DEF SchedulerInv, Typed
<1>2. CASE AsyncWrite(t)
  <2>1. /\ Go(t, "run", "async") /\ async_count' = async_count + 1
        /\ UNCHANGED <<current, fibreVars, deviceVars, running_thread_count, refcnt, freed, ub>>
        /\ requests' \in 0..MaxRequests /\ requests' <= requests
    BY <1>1, <1>2, SchedulerAssumption DEF AsyncWrite, Request
  <2>2. /\ Change("run", "async", RunningPlaces) = 0 /\ Change("run", "async", SharerPlaces) = 0
        /\ Change("run", "async", {"async"}) = 1
    BY DEF Change, RunningPlaces, SharerPlaces
  <2>3. "run" \in Places /\ "async" \in Places /\ "async" \in Staying /\ pc[t] \in SharerPlaces
    BY <2>1 DEF Places, SharerPlaces, RunningPlaces, Staying, Go
  <2> QED
    BY <1>1, <2>1, <2>2, <2>3, QuietStep DEF Holding
<1>3. CASE StopRunning(t)
  <2>1. /\ Go(t, "dec", "async?") /\ running_thread_count' = running_thread_count - 1
        /\ UNCHANGED <<current, fibreVars, deviceVars, async_count, refcnt, freed, ub, requests>>
    BY <1>3 DEF StopRunning
  <2>2. /\ Change("dec", "async?", RunningPlaces) = -1 /\ Change("dec", "async?", SharerPlaces) = 0
        /\ Change("dec", "async?", {"async"}) = 0
    BY DEF Change, RunningPlaces, SharerPlaces, WaitingPlaces
  <2>3. "dec" \in Places /\ "async?" \in Places /\ "async?" \in Staying /\ pc[t] \in SharerPlaces
    BY <2>1 DEF Places, SharerPlaces, RunningPlaces, WaitingPlaces, Staying, Go
  <2> QED
    BY <1>1, <2>1, <2>2, <2>3, QuietStep DEF Holding
<1>4. CASE CheckAsync(t) \/ CheckRunning(t) \/ Sleep(t) \/ Timeout(t)
  <2>1. PICK from \in {"async?", "running?", "sleep", "asleep"},
             to \in {"running?", "forget", "sleep", "asleep", "repop"} :
          Go(t, from, to) /\ (from = "async?" /\ to # "sleep" => async_count <= 0)
                          /\ (from \in {"sleep", "asleep"} => to \in {"asleep", "repop"})
    <3>1. CASE CheckAsync(t)
      BY <1>1, <3>1 DEF CheckAsync
    <3>2. CASE CheckRunning(t)
      BY <3>2 DEF CheckRunning
    <3>3. CASE Sleep(t) \/ Timeout(t)
      BY <3>3 DEF Sleep, Timeout
    <3> QED
      BY <1>4, <3>1, <3>2, <3>3
  <2>2. UNCHANGED <<current, fibreVars, deviceVars, processVars, requests, ub>>
    BY <1>4 DEF CheckAsync, CheckRunning, Sleep, Timeout
  <2>3. /\ Change(from, to, RunningPlaces) = 0 /\ Change(from, to, SharerPlaces) = 0
        /\ Change(from, to, {"async"}) = 0
    BY DEF Change, RunningPlaces, SharerPlaces, WaitingPlaces
  <2>4. /\ from \in Places /\ to \in Places /\ pc[t] \in SharerPlaces
        /\ from \in Staying => to \in Staying \/ async_count' <= 0
    BY <1>1, <2>1, <2>2 DEF Places, SharerPlaces, RunningPlaces, WaitingPlaces, Staying, Go, processVars
  <2> QED
    BY <1>1, <2>1, <2>2, <2>3, <2>4, QuietStep DEF Holding, processVars
<1>5. CASE RunAgain(t)
  <2>1. /\ Go(t, "inc", "run") /\ running_thread_count' = running_thread_count + 1
        /\ UNCHANGED <<current, fibreVars, deviceVars, async_count, refcnt, freed, ub, requests>>
    BY <1>5 DEF RunAgain
  <2>2. /\ Change("inc", "run", RunningPlaces) = 1 /\ Change("inc", "run", SharerPlaces) = 0
        /\ Change("inc", "run", {"async"}) = 0
    BY DEF Change, RunningPlaces, SharerPlaces, WaitingPlaces
  <2>3. "inc" \in Places /\ "run" \in Places /\ "run" \in Staying /\ pc[t] \in SharerPlaces
    BY <2>1 DEF Places, SharerPlaces, RunningPlaces, WaitingPlaces, Staying, Go
  <2> QED
    BY <1>1, <2>1, <2>2, <2>3, QuietStep DEF Holding
<1>6. CASE Forget(t)
  <2>1. /\ Go(t, "forget", "last?") /\ refcnt' = refcnt - 1
        /\ UNCHANGED <<current, fibreVars, deviceVars, async_count, running_thread_count, freed, ub, requests>>
    BY <1>6 DEF Forget
  <2>2. /\ Change("forget", "last?", RunningPlaces) = 0
        /\ Change("forget", "last?", SharerPlaces) = -1
        /\ Change("forget", "last?", {"async"}) = 0
    BY DEF Change, RunningPlaces, SharerPlaces, WaitingPlaces
  <2>3. /\ "forget" \in Places /\ "last?" \in Places /\ "forget" \notin Staying
        /\ pc[t] \in SharerPlaces
    BY <2>1 DEF Places, SharerPlaces, RunningPlaces, WaitingPlaces, Staying, Go
  <2> QED
    BY <1>1, <2>1, <2>2, <2>3, QuietStep DEF Holding
<1>7. CASE ForgetLast(t)
  <2>1. /\ Go(t, "last?", "done") /\ freed' = (refcnt = 0)
        /\ UNCHANGED <<current, fibreVars, deviceVars, async_count, running_thread_count, refcnt, ub, requests>>
    BY <1>7 DEF ForgetLast
  <2>2. /\ Change("last?", "done", RunningPlaces) = 0
        /\ Change("last?", "done", SharerPlaces) = 0
        /\ Change("last?", "done", {"async"}) = 0
    BY DEF Change, RunningPlaces, SharerPlaces, WaitingPlaces
  <2>3. /\ "done" \in Places /\ "last?" \in Places /\ "last?" \notin Staying
        /\ "last?" \notin SharerPlaces /\ "done" \notin SharerPlaces
    BY DEF Places, SharerPlaces, RunningPlaces, WaitingPlaces, Staying
  <2> QED
    BY <1>1, <2>1, <2>2, <2>3, QuietStep DEF Holding
<1> QED
  BY <1>2, <1>3, <1>4, <1>5, <1>6, <1>7

\* A step that asks nothing of the device and leaves nothing of the process.
LEMMA FibreStep ==
  ASSUME SchedulerInv, NEW t \in Thread,
         NEW from \in SharerPlaces \ {"async"}, NEW to \in Staying \ {"async"},
         Go(t, from, to),
         UNCHANGED <<pending, async_count, refcnt, freed, deviceVars, services, ub>>,
         running_thread_count' = running_thread_count + Change(from, to, RunningPlaces),
         NEW a, NEW b,
         a = Change(from, to, {"start"}), b = Change(from, to, {"spawn"}),
         made' + requests' + a + b <= made + requests,
         current' \in [Thread -> Fibre \cup {None}],
         \A u \in Thread \ {t} : current'[u] = current[u],
         to \in Holding => current'[t] \in Fibre,
         made' \in Nat, live' \subseteq 1..made', active' \in Seq(Fibre),
         suspended' \subseteq Fibre, requests' \in 0..MaxRequests,
         Placed'
  PROVE  SchedulerInv'
<1>1. Typed
  BY DEF SchedulerInv
<1>2. /\ async_count \in Int /\ refcnt \in Int /\ Cardinality(pending) \in Nat
      /\ pending' = pending /\ pending \subseteq Fibre
  BY <1>1, FiniteParts DEF Typed
<1>3. from \in Places /\ to \in Places /\ to \in SharerPlaces /\ pc[t] = from
  BY DEF Places, SharerPlaces, Staying, Go
<1>4. Change(from, to, SharerPlaces) = 0 /\ Change(from, to, {"async"}) = 0
  BY <1>3 DEF Change
<1>5. /\ refcnt' = refcnt + Change(from, to, SharerPlaces)
      /\ async_count' - Cardinality(pending')
           = async_count - Cardinality(pending) + Change(from, to, {"async"})
      /\ async_count' \in Int /\ Cardinality(pending') \in Nat
  BY <1>2, <1>4
<1>6. made' + requests' + Change(from, to, {"start"}) + Change(from, to, {"spawn"})
        <= made + requests
  BY Zenon
<1>7. pending' \subseteq Fibre /\ freed' = freed /\ \E u \in Thread : pc[u] \in SharerPlaces
  BY <1>2, <1>3
<1> QED
  BY <1>3, <1>5, <1>6, <1>7, GoStep

\* There is a number for a new fibre.
LEMMA Fresh ==
  ASSUME SchedulerInv, NEW t \in Thread, pc[t] \in {"start", "spawn"} \/ requests > 0
  PROVE  /\ made + 1 \in Fibre /\ made + 1 \notin live
         /\ made \in Nat /\ made + 1 \in Nat
         /\ live \cup {made + 1} \subseteq 1..(made + 1)
<1>1. Typed /\ MadeFew /\ MaxRequests \in Nat
  BY SchedulerAssumption DEF SchedulerInv
<1>2. /\ IsFiniteSet(At({"start"})) /\ Cardinality(At({"start"})) \in Nat
      /\ IsFiniteSet(At({"spawn"})) /\ Cardinality(At({"spawn"})) \in Nat
      /\ made \in Nat /\ requests \in Nat /\ live \subseteq 1..made
  BY <1>1, FiniteParts DEF Typed
<1>3. made + 1 <= MaxRequests + 1
  <2>1. CASE requests > 0
    BY <1>1, <1>2, <2>1 DEF MadeFew
  <2>2. CASE pc[t] = "start"
    <3>1. At({"start"}) # {}
      BY <2>2 DEF At
    <3>2. Cardinality(At({"start"})) # 0
      BY <1>2, <3>1, FS_EmptySet
    <3> QED
      BY <1>1, <1>2, <3>2 DEF MadeFew
  <2>3. CASE pc[t] = "spawn"
    <3>1. At({"spawn"}) # {}
      BY <2>3 DEF At
    <3>2. Cardinality(At({"spawn"})) # 0
      BY <1>2, <3>1, FS_EmptySet
    <3> QED
      BY <1>1, <1>2, <3>2 DEF MadeFew
  <2> QED
    BY <2>1, <2>2, <2>3
<1>4. made + 1 \in Fibre /\ made + 1 \notin live
  BY <1>1, <1>2, <1>3 DEF Fibre
<1> QED
  BY <1>2, <1>4

\* What has gone nowhere is still in one place.
LEMMA PlacedParts ==
  ASSUME SchedulerInv, NEW t \in Thread
  PROVE  /\ Distinct(active) /\ active \in Seq(Fibre)
         /\ Ready \subseteq live /\ suspended \subseteq live /\ pending \subseteq live
         /\ Has(t) \subseteq live /\ Has(t) \subseteq Fibre
         /\ Has(t) \cap (Ready \cup suspended \cup pending) = {}
         /\ Ready \cap suspended = {} /\ Ready \cap pending = {} /\ suspended \cap pending = {}
         /\ Ready \subseteq Fibre
         /\ pc \in [Thread -> Places] /\ current \in [Thread -> Fibre \cup {None}]
         /\ made \in Nat /\ requests \in Nat /\ requests \in 0..MaxRequests
         /\ live \subseteq 1..made /\ suspended \subseteq Fibre /\ pending \subseteq Fibre
         /\ running_thread_count \in Int /\ None \notin Fibre
         /\ pc[t] \in Holding => current[t] \in Fibre
<1>1. Typed /\ Placed /\ Held /\ MaxRequests \in Nat /\ None \notin Nat
  BY SchedulerAssumption DEF SchedulerInv
<1>2. Ready \subseteq Fibre
  BY <1>1 DEF Ready, Elements, Typed
<1>3. /\ Ready \subseteq live /\ suspended \subseteq live /\ pending \subseteq live
      /\ Has(t) \subseteq live /\ Has(t) \subseteq Fibre
  BY <1>1, <1>2 DEF Placed, Has, Typed
<1>4. None \notin Fibre
  BY <1>1 DEF Fibre
<1> QED
  BY <1>1, <1>2, <1>3, <1>4 DEF Placed, Typed, Held

LEMMA StartSteps ==
  ASSUME SchedulerInv, NEW t \in Thread, UNCHANGED services, Start(t) \/ SpawnChild(t)
  PROVE  SchedulerInv'
<1>1. PICK from \in {"start", "spawn"} :
        /\ Go(t, from, "run") /\ Construct(t)
        /\ UNCHANGED <<active, suspended, pending, deviceVars, async_count, refcnt, freed,
                       requests, ub>>
        /\ running_thread_count' = running_thread_count + Change(from, "run", RunningPlaces)
  <2>1. CASE Start(t)
    <3>1. Change("start", "run", RunningPlaces) = 1
      BY DEF Change, RunningPlaces
    <3> QED
      BY <2>1, <3>1 DEF Start
  <2>2. CASE SpawnChild(t)
    <3>1. Change("spawn", "run", RunningPlaces) = 0
      BY DEF Change, RunningPlaces
    <3>2. running_thread_count \in Int
      BY PlacedParts
    <3> QED
      BY <2>2, <3>1, <3>2 DEF SpawnChild, processVars
  <2> QED
    BY <2>1, <2>2
<1>2. pc[t] = from /\ pc'[t] = "run" /\ \A u \in Thread \ {t} : pc'[u] = pc[u]
  BY <1>1, PlacedParts DEF Go
<1>3. PICK n : n = made + 1
  OBVIOUS
<1>4. /\ n \in Fibre /\ n \notin live /\ made \in Nat /\ n \in Nat
      /\ live \cup {n} \subseteq 1..n
  BY <1>2, <1>3, Fresh
<1>5. /\ made' = n /\ live' = live \cup {n} /\ current' = [current EXCEPT ![t] = n]
  BY <1>1, <1>3 DEF Construct
<1>6. Has(t) = {} /\ Has(t)' = {n}
  <2>1. current'[t] = n
    BY <1>5, PlacedParts
  <2> QED
    BY <1>2, <1>4, <2>1, HasWhat
<1>7. Placed'
  <2>1. Ready' = Ready /\ Distinct(active)'
    BY <1>1, PlacedParts DEF Ready, Distinct, Elements
  <2>2. \A u \in Thread \ {t} : current'[u] = current[u]
    BY <1>5, PlacedParts
  <2>3. live' = (live \cup {n}) \ {}
    BY <1>5
  <2>4. n \notin Ready /\ n \notin suspended /\ n \notin pending
    BY <1>4, PlacedParts
  <2>5. UNCHANGED <<suspended, pending>> /\ Placed
    BY <1>1 DEF SchedulerInv
  <2>6. /\ Ready \cap suspended = {} /\ Ready \cap pending = {} /\ suspended \cap pending = {}
    BY PlacedParts
  <2>7. /\ Has(t)' \cap (Ready' \cup suspended' \cup pending') = {}
        /\ Ready' \cap suspended' = {} /\ Ready' \cap pending' = {}
        /\ suspended' \cap pending' = {}
        /\ {n} \cap live = {} /\ {} \subseteq Has(t)
        /\ Has(t)' \cup Ready' \cup suspended' \cup pending'
             = (Has(t) \cup Ready \cup suspended \cup pending \cup {n}) \ {}
    BY <1>4, <1>6, <2>1, <2>4, <2>5, <2>6
  <2> QED
    BY <1>2, <2>1, <2>2, <2>3, <2>5, <2>7, Moves
<1>8. PICK a \in Int, b \in Int :
        /\ a = Change(from, "run", {"start"}) /\ b = Change(from, "run", {"spawn"})
        /\ a + b = -1
  BY DEF Change
<1>9. made' + requests' + a + b <= made + requests
  BY <1>1, <1>3, <1>5, <1>8, PlacedParts
<1>10. /\ current' \in [Thread -> Fibre \cup {None}]
       /\ \A u \in Thread \ {t} : current'[u] = current[u]
       /\ current'[t] \in Fibre
  BY <1>4, <1>5, PlacedParts
<1>11. /\ made' \in Nat /\ live' \subseteq 1..made' /\ active' \in Seq(Fibre)
       /\ suspended' \subseteq Fibre /\ requests' \in 0..MaxRequests
  BY <1>1, <1>4, <1>5, PlacedParts
<1>12. from \in SharerPlaces \ {"async"} /\ "run" \in Staying \ {"async"}
  BY DEF SharerPlaces, Staying, RunningPlaces
<1> QED
  BY <1>1, <1>7, <1>8, <1>9, <1>10, <1>11, <1>12, FibreStep

\* The fibre that t runs.
LEMMA RunFacts ==
  ASSUME SchedulerInv, NEW t \in Thread, NEW to, Go(t, "run", to)
  PROVE  /\ pc[t] = "run" /\ pc'[t] = to /\ \A u \in Thread \ {t} : pc'[u] = pc[u]
         /\ current[t] \in Fibre /\ Has(t) = {current[t]}
         /\ current[t] \in live /\ current[t] \notin Ready \cup suspended \cup pending
<1>1. pc[t] = "run" /\ pc'[t] = to /\ \A u \in Thread \ {t} : pc'[u] = pc[u]
  BY PlacedParts DEF Go
<1>2. current[t] \in Fibre
  BY <1>1, PlacedParts DEF Holding
<1>3. Has(t) = {current[t]}
  BY <1>1, <1>2, HasWhat
<1> QED
  BY <1>1, <1>2, <1>3, PlacedParts

LEMMA PushFacts ==
  ASSUME SchedulerInv, NEW f \in Fibre, f \notin Ready, Push(f)
  PROVE  /\ active' \in Seq(Fibre) /\ Ready' = Ready \cup {f} /\ Distinct(active)'
<1>1. active \in Seq(Fibre) /\ Distinct(active)
  BY DEF SchedulerInv, Typed, Placed
<1>2. active' = <<f>> \o active
  BY DEF Push
<1>3. /\ <<f>> \o active \in Seq(Fibre) /\ Elements(<<f>> \o active) = Elements(active) \cup {f}
      /\ Distinct(<<f>> \o active)
  BY <1>1, PushElements DEF Ready
<1> QED
  BY <1>2, <1>3 DEF Ready

LEMMA MadeOrKept ==
  \A m, r, n, q \in Nat : \A a \in {0, 1} :
    n + q <= m + r /\ (a = 1 => n + q + 1 <= m + r) => n + q + 0 + a <= m + r
OBVIOUS

\* The services in which the fibres that t runs, or makes, go elsewhere.
LEMMA ServiceSteps ==
  ASSUME SchedulerInv, NEW t \in Thread, NEW to \in {"run", "spawn", "pop"},
         Go(t, "run", to),
         UNCHANGED <<async_count, running_thread_count, refcnt, freed, pending, deviceVars,
                     services, ub>>,
         NEW N, NEW D,
         made' + requests' <= made + requests,
         to = "spawn" => made' + requests' + 1 <= made + requests,
         requests' \in 0..MaxRequests,
         current' \in [Thread -> Fibre \cup {None}],
         \A u \in Thread \ {t} : current'[u] = current[u],
         to # "pop" => current'[t] \in Fibre,
         made' \in Nat, live' \subseteq 1..made', active' \in Seq(Fibre),
         suspended' \subseteq Fibre, Distinct(active)',
         N \cap live = {}, D \subseteq Has(t), live' = (live \cup N) \ D,
         Has(t)' \cup Ready' \cup suspended' \cup pending
           = (Has(t) \cup Ready \cup suspended \cup pending \cup N) \ D,
         Has(t)' \cap (Ready' \cup suspended' \cup pending) = {},
         Ready' \cap (suspended' \cup pending) = {}, suspended' \cap pending = {}
  PROVE  SchedulerInv'
<1>1. \A u \in Thread \ {t} : pc'[u] = pc[u]
  BY RunFacts
<1>2. Placed /\ pending' = pending
  BY DEF SchedulerInv
<1>3. Ready' \cap suspended' = {} /\ Ready' \cap pending' = {} /\ suspended' \cap pending' = {}
  BY <1>2
<1>4. Has(t)' \cap (Ready' \cup suspended' \cup pending') = {}
  BY <1>2
<1>5. Has(t)' \cup Ready' \cup suspended' \cup pending'
        = (Has(t) \cup Ready \cup suspended \cup pending \cup N) \ D
  BY <1>2
<1>6. Placed'
  BY <1>1, <1>2, <1>3, <1>4, <1>5, Moves
<1>7. PICK a \in {0, 1} :
        /\ Change("run", to, {"start"}) = 0 /\ Change("run", to, {"spawn"}) = a
        /\ Change("run", to, RunningPlaces) = 0
        /\ (a = 1 <=> to = "spawn")
  BY DEF Change, RunningPlaces
<1>8. /\ running_thread_count' = running_thread_count + Change("run", to, RunningPlaces)
      /\ made' + requests' + 0 + a <= made + requests
  <2>1. made' \in Nat /\ requests' \in Nat /\ made \in Nat /\ requests \in Nat
    BY PlacedParts, SchedulerAssumption
  <2>2. running_thread_count' = running_thread_count + 0
    BY PlacedParts
  <2>3. running_thread_count' = running_thread_count + Change("run", to, RunningPlaces)
    BY <1>7, <2>2, Zenon
  <2>4. made' + requests' <= made + requests /\ (a = 1 => made' + requests' + 1 <= made + requests)
    BY <1>7, Zenon
  <2>5. made' + requests' + 0 + a <= made + requests
    BY <2>1, <2>4, MadeOrKept, Zenon
  <2> QED
    BY <2>3, <2>5
<1>9. /\ "run" \in SharerPlaces \ {"async"} /\ to \in Staying \ {"async"}
      /\ to \in Holding => current'[t] \in Fibre
  BY DEF SharerPlaces, Staying, RunningPlaces, Holding
<1> QED
  BY <1>6, <1>7, <1>8, <1>9, FibreStep

LEMMA RunSteps ==
  ASSUME SchedulerInv, NEW t \in Thread, UNCHANGED services,
         \/ SpawnFibre(t) \/ SpawnFibreDeferred(t) \/ Suspend(t) \/ Die(t)
         \/ \E f \in Fibre : ResumeWriter(t, f) \/ ResumeReader(t, f)
  PROVE  SchedulerInv'
<1>1. /\ Ready \subseteq live /\ suspended \subseteq live /\ pending \subseteq live
      /\ Ready \cap suspended = {} /\ Ready \cap pending = {} /\ suspended \cap pending = {}
      /\ Distinct(active) /\ active \in Seq(Fibre)
      /\ pc \in [Thread -> Places] /\ current \in [Thread -> Fibre \cup {None}]
      /\ made \in Nat /\ requests \in Nat /\ requests \in 0..MaxRequests
      /\ live \subseteq 1..made /\ suspended \subseteq Fibre /\ None \notin Fibre
      /\ MaxRequests \in Nat
  BY PlacedParts, SchedulerAssumption
<1> PICK nothing : nothing = {}
  OBVIOUS
<1>2. CASE SpawnFibre(t)
  <2>1. /\ Go(t, "run", "spawn") /\ Push(current[t]) /\ requests' = requests - 1 /\ requests > 0
        /\ UNCHANGED <<current, made, live, suspended, pending, deviceVars, async_count,
                       running_thread_count, refcnt, freed, ub>>
    BY <1>2 DEF SpawnFibre, Request, processVars
  <2>2. PICK c \in Fibre : c = current[t]
    BY <2>1, RunFacts
  <2>3. Has(t) = {c} /\ c \notin Ready \cup suspended \cup pending /\ pc'[t] = "spawn"
    BY <2>1, <2>2, RunFacts
  <2>4. Has(t)' = {}
    BY <2>3, HasWhat
  <2>5. active' \in Seq(Fibre) /\ Ready' = Ready \cup {c} /\ Distinct(active)'
    BY <2>1, <2>2, <2>3, PushFacts
  <2>6. /\ Has(t)' \cup Ready' \cup suspended' \cup pending
             = (Has(t) \cup Ready \cup suspended \cup pending \cup nothing) \ nothing
        /\ Has(t)' \cap (Ready' \cup suspended' \cup pending) = {}
        /\ Ready' \cap (suspended' \cup pending) = {} /\ suspended' \cap pending = {}
        /\ nothing \cap live = {} /\ nothing \subseteq Has(t)
        /\ live' = (live \cup nothing) \ nothing
    BY <1>1, <2>1, <2>3, <2>4, <2>5
  <2>7. /\ made' + requests' + 1 <= made + requests /\ made' + requests' <= made + requests
        /\ requests' \in 0..MaxRequests /\ made' \in Nat /\ live' \subseteq 1..made'
    BY <1>1, <2>1
  <2> QED
    BY <1>1, <2>1, <2>2, <2>5, <2>6, <2>7, ServiceSteps
<1>3. CASE SpawnFibreDeferred(t)
  <2>1. /\ Go(t, "run", "run") /\ Push(made + 1) /\ requests' = requests - 1 /\ requests > 0
        /\ made' = made + 1 /\ live' = live \cup {made + 1}
        /\ UNCHANGED <<current, suspended, pending, deviceVars, async_count,
                       running_thread_count, refcnt, freed, ub>>
    BY <1>3 DEF SpawnFibreDeferred, Request, processVars
  <2>2. PICK n \in Fibre : n = made + 1 /\ n \notin live /\ live \cup {n} \subseteq 1..n
    BY <2>1, Fresh
  <2>3. /\ Has(t) = {current[t]} /\ current[t] \in Fibre /\ current[t] \in live
        /\ current[t] \notin Ready \cup suspended \cup pending /\ pc'[t] = "run"
    BY <2>1, RunFacts
  <2>4. Has(t)' = {current[t]}
    BY <2>1, <2>3, HasWhat
  <2>5. active' \in Seq(Fibre) /\ Ready' = Ready \cup {n} /\ Distinct(active)'
    BY <1>1, <2>1, <2>2, PushFacts
  <2> PICK N : N = {n}
    OBVIOUS
  <2>6. /\ Has(t)' \cup Ready' \cup suspended' \cup pending
             = (Has(t) \cup Ready \cup suspended \cup pending \cup N) \ nothing
        /\ Has(t)' \cap (Ready' \cup suspended' \cup pending) = {}
        /\ Ready' \cap (suspended' \cup pending) = {} /\ suspended' \cap pending = {}
        /\ N \cap live = {} /\ nothing \subseteq Has(t)
        /\ live' = (live \cup N) \ nothing
    BY <1>1, <2>1, <2>2, <2>3, <2>4, <2>5
  <2>7. /\ made' + requests' <= made + requests /\ requests' \in 0..MaxRequests
        /\ made' \in Nat /\ live' \subseteq 1..made'
    BY <1>1, <2>1, <2>2
  <2> QED
    BY <1>1, <2>1, <2>3, <2>5, <2>6, <2>7, ServiceSteps
<1>4. CASE Suspend(t)
  <2>1. /\ Go(t, "run", "pop") /\ requests' = requests - 1 /\ requests > 0
        /\ suspended' = suspended \cup {current[t]}
        /\ UNCHANGED <<current, made, live, active, pending, deviceVars, async_count,
                       running_thread_count, refcnt, freed, ub>>
    BY <1>4 DEF Suspend, Request, processVars
  <2>2. /\ Has(t) = {current[t]} /\ current[t] \in Fibre
        /\ current[t] \notin Ready \cup suspended \cup pending /\ pc'[t] = "pop"
    BY <2>1, RunFacts
  <2>3. Has(t)' = {}
    BY <2>2, HasWhat
  <2>4. active' \in Seq(Fibre) /\ Ready' = Ready /\ Distinct(active)'
    BY <1>1, <2>1 DEF Ready
  <2>5. /\ Has(t)' \cup Ready' \cup suspended' \cup pending
             = (Has(t) \cup Ready \cup suspended \cup pending \cup nothing) \ nothing
        /\ Has(t)' \cap (Ready' \cup suspended' \cup pending) = {}
        /\ Ready' \cap (suspended' \cup pending) = {} /\ suspended' \cap pending = {}
        /\ nothing \cap live = {} /\ nothing \subseteq Has(t)
        /\ live' = (live \cup nothing) \ nothing
        /\ suspended' \subseteq Fibre
    BY <1>1, <2>1, <2>2, <2>3, <2>4
  <2>6. /\ made' + requests' <= made + requests /\ requests' \in 0..MaxRequests
        /\ made' \in Nat /\ live' \subseteq 1..made'
    BY <1>1, <2>1
  <2> QED
    BY <1>1, <2>1, <2>4, <2>5, <2>6, ServiceSteps
<1>5. CASE Die(t)
  <2>1. /\ Go(t, "run", "pop") /\ live' = live \ {current[t]}
        /\ current' = [current EXCEPT ![t] = None]
        /\ UNCHANGED <<made, active, suspended, pending, deviceVars, async_count,
                       running_thread_count, refcnt, freed, requests, ub>>
    BY <1>5 DEF Die, processVars
  <2>2. /\ Has(t) = {current[t]} /\ current[t] \in Fibre
        /\ current[t] \notin Ready \cup suspended \cup pending /\ pc'[t] = "pop"
    BY <2>1, RunFacts
  <2>3. Has(t)' = {}
    BY <2>2, HasWhat
  <2>4. active' \in Seq(Fibre) /\ Ready' = Ready /\ Distinct(active)'
    BY <1>1, <2>1 DEF Ready
  <2>5. PICK D : D = {current[t]}
    OBVIOUS
  <2>6. /\ Has(t)' \cup Ready' \cup suspended' \cup pending
             = (Has(t) \cup Ready \cup suspended \cup pending \cup nothing) \ D
        /\ Has(t)' \cap (Ready' \cup suspended' \cup pending) = {}
        /\ Ready' \cap (suspended' \cup pending) = {} /\ suspended' \cap pending = {}
        /\ nothing \cap live = {} /\ D \subseteq Has(t)
        /\ live' = (live \cup nothing) \ D
    BY <1>1, <2>1, <2>2, <2>3, <2>4, <2>5
  <2>7. /\ made' + requests' <= made + requests /\ requests' \in 0..MaxRequests
        /\ made' \in Nat /\ suspended' \subseteq Fibre
    <3>1. made' = made /\ requests' = requests /\ suspended' = suspended
      BY <2>1
    <3> QED
      BY <1>1, <3>1
  <2>8. live' \subseteq 1..made'
    BY <1>1, <2>1
  <2>9. /\ current' \in [Thread -> Fibre \cup {None}]
        /\ \A u \in Thread \ {t} : current'[u] = current[u]
    BY <1>1, <2>1
  <2> QED
    BY <1>1, <2>1, <2>4, <2>6, <2>7, <2>8, <2>9, ServiceSteps
<1>6. ASSUME NEW f \in Fibre, ResumeWriter(t, f) PROVE SchedulerInv'
  <2>1. /\ Go(t, "run", "run") /\ Push(f) /\ requests' = requests - 1 /\ requests > 0
        /\ f \in suspended /\ suspended' = suspended \ {f}
        /\ UNCHANGED <<current, made, live, pending, deviceVars, async_count,
                       running_thread_count, refcnt, freed, ub>>
    BY <1>6 DEF ResumeWriter, Request, processVars
  <2>2. /\ Has(t) = {current[t]} /\ current[t] \in Fibre
        /\ current[t] \notin Ready \cup suspended \cup pending /\ pc'[t] = "run"
    BY <2>1, RunFacts
  <2>3. Has(t)' = {current[t]}
    BY <2>1, <2>2, HasWhat
  <2>4. active' \in Seq(Fibre) /\ Ready' = Ready \cup {f} /\ Distinct(active)'
    BY <1>1, <2>1, PushFacts
  <2>5. /\ Has(t)' \cup Ready' \cup suspended' \cup pending
             = (Has(t) \cup Ready \cup suspended \cup pending \cup nothing) \ nothing
        /\ Has(t)' \cap (Ready' \cup suspended' \cup pending) = {}
        /\ Ready' \cap (suspended' \cup pending) = {} /\ suspended' \cap pending = {}
        /\ nothing \cap live = {} /\ nothing \subseteq Has(t)
        /\ live' = (live \cup nothing) \ nothing
        /\ suspended' \subseteq Fibre
    BY <1>1, <2>1, <2>2, <2>3, <2>4
  <2>6. /\ made' + requests' <= made + requests /\ requests' \in 0..MaxRequests
        /\ made' \in Nat /\ live' \subseteq 1..made'
    BY <1>1, <2>1
  <2> QED
    BY <1>1, <2>1, <2>2, <2>4, <2>5, <2>6, ServiceSteps
<1>7. ASSUME NEW f \in Fibre, ResumeReader(t, f) PROVE SchedulerInv'
  <2>1. /\ Go(t, "run", "run") /\ Push(current[t]) /\ requests' = requests - 1 /\ requests > 0
        /\ f \in suspended /\ suspended' = suspended \ {f}
        /\ current' = [current EXCEPT ![t] = f]
        /\ UNCHANGED <<made, live, pending, deviceVars, async_count,
                       running_thread_count, refcnt, freed, ub>>
    BY <1>7 DEF ResumeReader, Request, processVars
  <2>2. PICK c \in Fibre : c = current[t]
    BY <2>1, RunFacts
  <2>3. /\ Has(t) = {c} /\ c \notin Ready \cup suspended \cup pending /\ pc'[t] = "run"
    BY <2>1, <2>2, RunFacts
  <2>4. /\ current' \in [Thread -> Fibre \cup {None}] /\ current'[t] = f
        /\ \A u \in Thread \ {t} : current'[u] = current[u]
    BY <1>1, <2>1
  <2>5. Has(t)' = {f}
    BY <2>3, <2>4, HasWhat
  <2>6. active' \in Seq(Fibre) /\ Ready' = Ready \cup {c} /\ Distinct(active)'
    BY <2>1, <2>2, <2>3, PushFacts
  <2>7. /\ Has(t)' \cup Ready' \cup suspended' \cup pending
             = (Has(t) \cup Ready \cup suspended \cup pending \cup nothing) \ nothing
        /\ Has(t)' \cap (Ready' \cup suspended' \cup pending) = {}
        /\ Ready' \cap (suspended' \cup pending) = {} /\ suspended' \cap pending = {}
        /\ nothing \cap live = {} /\ nothing \subseteq Has(t)
        /\ live' = (live \cup nothing) \ nothing
        /\ suspended' \subseteq Fibre
    BY <1>1, <2>1, <2>3, <2>5, <2>6
  <2>8. /\ made' + requests' <= made + requests /\ requests' \in 0..MaxRequests
        /\ made' \in Nat /\ live' \subseteq 1..made'
    BY <1>1, <2>1
  <2> QED
    BY <2>1, <2>4, <2>6, <2>7, <2>8, ServiceSteps
<1> QED
  BY <1>2, <1>3, <1>4, <1>5, <1>6, <1>7

LEMMA AsyncSuspendStep ==
  ASSUME SchedulerInv, NEW t \in Thread, UNCHANGED services, AsyncSuspend(t)
  PROVE  SchedulerInv'
<1>1. /\ Go(t, "async", "pop") /\ pending' = pending \cup {current[t]}
      /\ UNCHANGED <<current, made, live, active, suspended, deviceVars, async_count,
                     running_thread_count, refcnt, freed, requests, ub>>
  BY DEF AsyncSuspend, processVars
<1>2. pc[t] = "async" /\ pc'[t] = "pop" /\ \A u \in Thread \ {t} : pc'[u] = pc[u]
  BY <1>1, PlacedParts DEF Go
<1>3. PICK c \in Fibre : c = current[t]
  BY <1>2, PlacedParts DEF Holding
<1>4. Has(t) = {c} /\ Has(t)' = {}
  BY <1>2, <1>3, HasWhat
<1>5. c \notin Ready \cup suspended \cup pending
  BY <1>4, PlacedParts
<1>6. /\ Distinct(active) /\ Ready \cap suspended = {} /\ Ready \cap pending = {}
      /\ suspended \cap pending = {}
  BY PlacedParts
<1>7. /\ active' = active /\ suspended' = suspended /\ pending' = pending \cup {c}
      /\ live' = live /\ current' = current
  BY <1>1, <1>3
<1>8. Ready' = Ready /\ Distinct(active)'
  BY <1>6, <1>7 DEF Ready
<1>9. Placed'
  <2> PICK nothing : nothing = {}
    OBVIOUS
  <2>1. Placed
    BY DEF SchedulerInv
  <2>2. /\ Has(t)' \cap (Ready' \cup suspended' \cup pending') = {}
        /\ Ready' \cap suspended' = {} /\ Ready' \cap pending' = {} /\ suspended' \cap pending' = {}
        /\ nothing \cap live = {} /\ nothing \subseteq Has(t)
        /\ Has(t)' \cup Ready' \cup suspended' \cup pending'
             = (Has(t) \cup Ready \cup suspended \cup pending \cup nothing) \ nothing
        /\ live' = (live \cup nothing) \ nothing
    BY <1>4, <1>5, <1>6, <1>7, <1>8
  <2>3. \A u \in Thread \ {t} : pc'[u] = pc[u] /\ current'[u] = current[u]
    BY <1>2, <1>7
  <2> QED
    BY <1>8, <2>1, <2>2, <2>3, Moves
<1>10. /\ Cardinality(pending) \in Nat /\ Cardinality(pending') = Cardinality(pending) + 1
       /\ async_count \in Int
  <2>1. IsFiniteSet(pending) /\ Cardinality(pending) \in Nat /\ async_count \in Int
    BY FiniteParts DEF SchedulerInv, Typed
  <2>2. Cardinality(pending \cup {c}) = Cardinality(pending) + 1
    BY <1>5, <2>1, FS_AddElement
  <2> QED
    BY <1>7, <2>1, <2>2
<1>11. /\ Change("async", "pop", RunningPlaces) = 0 /\ Change("async", "pop", SharerPlaces) = 0
       /\ Change("async", "pop", {"async"}) = -1
       /\ Change("async", "pop", {"start"}) = 0 /\ Change("async", "pop", {"spawn"}) = 0
  BY DEF Change, RunningPlaces, SharerPlaces
<1>12. /\ running_thread_count' = running_thread_count + Change("async", "pop", RunningPlaces)
       /\ refcnt' = refcnt + Change("async", "pop", SharerPlaces)
       /\ async_count' - Cardinality(pending')
            = async_count - Cardinality(pending) + Change("async", "pop", {"async"})
       /\ async_count' \in Int /\ Cardinality(pending') \in Nat /\ async_count' <= async_count
  <2>1. running_thread_count \in Int /\ refcnt \in Int
    BY DEF SchedulerInv, Typed
  <2>2. running_thread_count' = running_thread_count + 0 /\ refcnt' = refcnt + 0
    BY <1>1, <2>1
  <2>3. async_count' - Cardinality(pending') = async_count - Cardinality(pending) + (-1)
    BY <1>1, <1>10
  <2>4. async_count' \in Int /\ Cardinality(pending') \in Nat /\ async_count' <= async_count
    BY <1>1, <1>10
  <2> QED
    BY <1>11, <2>2, <2>3, <2>4
<1>13. made' + requests' + Change("async", "pop", {"start"}) + Change("async", "pop", {"spawn"})
         <= made + requests
  <2>1. made' = made /\ requests' = requests /\ made \in Nat /\ requests \in Nat
    BY <1>1, PlacedParts
  <2>2. made' + requests' + 0 + 0 <= made + requests
    BY <2>1
  <2> QED
    BY <1>11, <2>2, Zenon
<1>14. /\ current' \in [Thread -> Fibre \cup {None}]
       /\ \A u \in Thread \ {t} : current'[u] = current[u]
       /\ made' \in Nat /\ live' \subseteq 1..made' /\ active' \in Seq(Fibre)
       /\ suspended' \subseteq Fibre /\ pending' \subseteq Fibre
  BY <1>1, <1>3, PlacedParts
<1>15. requests' \in 0..MaxRequests /\ UNCHANGED <<deviceVars, services, ub>> /\ freed' = freed
  BY <1>1, PlacedParts
<1>16. /\ "async" \in Places /\ "pop" \in Places /\ "pop" \in Staying /\ "pop" \notin Holding
       /\ pc[t] \in SharerPlaces
  BY <1>2 DEF Places, SharerPlaces, RunningPlaces, Staying, Holding
<1> QED
  BY <1>1, <1>9, <1>12, <1>13, <1>14, <1>15, <1>16, GoStep

LEMMA PopSteps ==
  ASSUME SchedulerInv, NEW t \in Thread, UNCHANGED services, Pop(t) \/ Repop(t)
  PROVE  SchedulerInv'
<1>1. PICK from \in {"pop", "repop"}, to \in {"dec", "run", "async?", "inc"} :
        /\ Go(t, from, to) /\ (active = << >> <=> to \in {"dec", "async?"})
        /\ PopInto(t) /\ (from = "pop" <=> to \in {"dec", "run"})
        /\ UNCHANGED <<made, live, suspended, pending, deviceVars, processVars, requests, ub>>
  BY DEF Pop, Repop
<1>2. /\ pc[t] = from /\ pc'[t] = to /\ \A u \in Thread \ {t} : pc'[u] = pc[u]
  BY <1>1, PlacedParts DEF Go
<1>3. Has(t) = {}
  BY <1>2, HasWhat
<1>4. /\ Placed /\ Distinct(active) /\ active \in Seq(Fibre)
      /\ current \in [Thread -> Fibre \cup {None}]
      /\ Ready \cap suspended = {} /\ Ready \cap pending = {} /\ suspended \cap pending = {}
  BY PlacedParts DEF SchedulerInv
<1>5. /\ Placed' /\ active' \in Seq(Fibre)
      /\ current' \in [Thread -> Fibre \cup {None}]
      /\ \A u \in Thread \ {t} : current'[u] = current[u]
      /\ to \in Holding => current'[t] \in Fibre
  <2>1. CASE active = << >>
    <3>1. active' = active /\ current' = [current EXCEPT ![t] = None]
      BY <1>1, <2>1 DEF PopInto
    <3>2. \A u \in Thread \ {t} : current'[u] = current[u]
      BY <1>4, <3>1
    <3>3. to \in {"dec", "async?"}
      BY <1>1, <2>1
    <3>4. Has(t)' = {}
      BY <1>2, <3>3, HasWhat
    <3>5. \A u \in Thread : Has(u)' = Has(u)
      BY <1>2, <1>3, <3>2, <3>4 DEF Has, Runs
    <3>6. Placed'
      BY <1>1, <1>4, <3>1, <3>5, NoneMoves
    <3> QED
      BY <1>4, <3>1, <3>2, <3>3, <3>6 DEF Holding
  <2>2. CASE active # << >>
    <3>1. PICK h \in Fibre : h = Head(active)
      BY <1>4, <2>2, PopElements
    <3>2. active' = Tail(active) /\ current' = [current EXCEPT ![t] = h]
      BY <1>1, <2>2, <3>1 DEF PopInto
    <3>3. \A u \in Thread \ {t} : current'[u] = current[u]
      BY <1>4, <3>2
    <3>4. current'[t] = h
      BY <1>4, <3>2
    <3>5. to \in {"run", "inc"}
      BY <1>1, <2>2
    <3>6. Has(t)' = {h}
      BY <1>2, <3>4, <3>5, HasWhat
    <3>7. /\ Tail(active) \in Seq(Fibre) /\ Elements(active) = Elements(Tail(active)) \cup {h}
          /\ Distinct(Tail(active)) /\ h \notin Elements(Tail(active))
      BY <1>4, <2>2, <3>1, PopElements
    <3>8. /\ active' \in Seq(Fibre) /\ Ready = Ready' \cup {h} /\ h \notin Ready'
          /\ Distinct(active)'
      BY <3>2, <3>7 DEF Ready
    <3> PICK nothing : nothing = {}
      OBVIOUS
    <3>9. suspended' = suspended /\ pending' = pending /\ live' = live
      BY <1>1
    <3>10. /\ Has(t)' \cap (Ready' \cup suspended' \cup pending') = {}
           /\ Ready' \cap suspended' = {} /\ Ready' \cap pending' = {}
           /\ suspended' \cap pending' = {}
           /\ nothing \cap live = {} /\ nothing \subseteq Has(t)
           /\ Has(t)' \cup Ready' \cup suspended' \cup pending'
                = (Has(t) \cup Ready \cup suspended \cup pending \cup nothing) \ nothing
           /\ live' = (live \cup nothing) \ nothing
      BY <1>3, <1>4, <3>6, <3>8, <3>9
    <3>11. \A u \in Thread \ {t} : pc'[u] = pc[u] /\ current'[u] = current[u]
      BY <1>2, <3>3
    <3>12. Placed'
      BY <1>4, <3>8, <3>10, <3>11, Moves
    <3>13. current' \in [Thread -> Fibre \cup {None}]
      BY <1>4, <3>1, <3>2
    <3> QED
      BY <3>1, <3>3, <3>4, <3>8, <3>12, <3>13
  <2> QED
    BY <2>1, <2>2
<1>6. /\ Change(from, to, RunningPlaces) = 0
      /\ Change(from, to, {"start"}) = 0 /\ Change(from, to, {"spawn"}) = 0
  <2>1. CASE from = "pop" /\ to \in {"dec", "run"}
    BY <2>1 DEF Change, RunningPlaces
  <2>2. CASE from = "repop" /\ to \in {"async?", "inc"}
    BY <2>2 DEF Change, RunningPlaces
  <2> QED
    BY <1>1, <2>1, <2>2
<1>7. running_thread_count' = running_thread_count + Change(from, to, RunningPlaces)
  <2>1. running_thread_count' = running_thread_count + 0
    BY <1>1, PlacedParts DEF processVars
  <2> QED
    BY <1>6, <2>1, Zenon
<1>8. made' + requests' + 0 + 0 <= made + requests
  <2>1. made' = made /\ requests' = requests /\ made \in Nat /\ requests \in Nat
    BY <1>1, PlacedParts
  <2> QED
    BY <2>1
<1>9. /\ made' \in Nat /\ live' \subseteq 1..made' /\ suspended' \subseteq Fibre
      /\ requests' \in 0..MaxRequests
  BY <1>1, PlacedParts
<1>10. from \in SharerPlaces \ {"async"} /\ to \in Staying \ {"async"}
  BY DEF SharerPlaces, Staying, RunningPlaces, WaitingPlaces
<1>11. UNCHANGED <<pending, async_count, refcnt, freed, deviceVars, services, ub>>
  BY <1>1 DEF processVars
<1> QED
  BY <1>1, <1>5, <1>6, <1>7, <1>8, <1>9, <1>10, <1>11, FibreStep

LEMMA SpawnCothreadStep ==
  ASSUME SchedulerInv, NEW t \in Thread, NEW u \in Thread, UNCHANGED services,
         SpawnCothread(t, u)
  PROVE  SchedulerInv'
<1>1. /\ Go(u, "unborn", "start") /\ pc[t] = "run" /\ requests > 0
      /\ requests' = requests - 1 /\ refcnt' = refcnt + 1
      /\ UNCHANGED <<current, made, live, active, suspended, pending, deviceVars,
                     async_count, running_thread_count, freed, ub>>
  BY DEF SpawnCothread, Go, fibreVars
<1>2. pc[u] = "unborn" /\ pc'[u] = "start" /\ \A v \in Thread \ {u} : pc'[v] = pc[v]
  BY <1>1, PlacedParts DEF Go
<1>3. /\ Change("unborn", "start", RunningPlaces) = 0
      /\ Change("unborn", "start", SharerPlaces) = 1
      /\ Change("unborn", "start", {"async"}) = 0
      /\ Change("unborn", "start", {"start"}) = 1 /\ Change("unborn", "start", {"spawn"}) = 0
  BY DEF Change, RunningPlaces, SharerPlaces, WaitingPlaces
<1>4. /\ running_thread_count \in Int /\ refcnt \in Int /\ async_count \in Int
      /\ Cardinality(pending) \in Nat /\ Placed
  BY FiniteParts DEF SchedulerInv, Typed
<1>5. /\ running_thread_count' = running_thread_count + Change("unborn", "start", RunningPlaces)
      /\ refcnt' = refcnt + Change("unborn", "start", SharerPlaces)
      /\ async_count' - Cardinality(pending')
           = async_count - Cardinality(pending) + Change("unborn", "start", {"async"})
      /\ async_count' \in Int /\ Cardinality(pending') \in Nat /\ async_count' <= async_count
  BY <1>1, <1>3, <1>4
<1>6. made' + requests' + Change("unborn", "start", {"start"})
        + Change("unborn", "start", {"spawn"}) <= made + requests
  <2>1. made' = made /\ requests' = requests - 1 /\ made \in Nat /\ requests \in Nat
    BY <1>1, PlacedParts
  <2>2. made' + requests' + 1 + 0 <= made + requests
    BY <2>1
  <2> QED
    BY <1>3, <2>2, Zenon
<1>7. Placed'
  <2>1. \A v \in Thread : Has(v)' = Has(v)
    BY <1>1, <1>2 DEF Has, Runs
  <2> QED
    BY <1>1, <1>4, <2>1, NoneMoves
<1>8. requests' \in 0..MaxRequests
  BY <1>1, PlacedParts, SchedulerAssumption
<1>9. /\ current' \in [Thread -> Fibre \cup {None}]
      /\ \A v \in Thread \ {u} : current'[v] = current[v]
      /\ made' \in Nat /\ live' \subseteq 1..made' /\ active' \in Seq(Fibre)
      /\ suspended' \subseteq Fibre /\ pending' \subseteq Fibre
  BY <1>1, PlacedParts
<1>10. /\ "unborn" \in Places /\ "start" \in Places /\ "unborn" \notin Staying
       /\ "start" \notin Holding /\ pc[t] \in SharerPlaces
  BY <1>1 DEF Places, SharerPlaces, RunningPlaces, WaitingPlaces, Staying, Holding
<1> QED
  BY <1>1, <1>5, <1>6, <1>7, <1>8, <1>9, <1>10, GoStep

\* The model stops at a use of what was freed.
LEMMA UseSteps ==
  ASSUME SchedulerInv, NEW t \in Thread, UNCHANGED services,
         UseFreedFibre(t) \/ UseFreedProcess(t) \/ DeviceUsesFreed
  PROVE  SchedulerInv'
<1>1. /\ UNCHANGED <<pc, current, fibreVars, deviceVars, processVars, requests>>
      /\ ub' \in {"fibre", "process"}
  BY DEF UseFreedFibre, UseFreedProcess, DeviceUsesFreed
<1> QED
  BY <1>1 DEF SchedulerInv, Typed, Held, MadeFew, CountersCount, SomeoneStays, FreedLast,
     Placed, Ready, Distinct, Elements, Has, Runs, At, RunningThread, Sharer,
     fibreVars, deviceVars, processVars

LEMMA DevicePushStep ==
  ASSUME SchedulerInv, NEW f \in Fibre, UNCHANGED services, DevicePush(f)
  PROVE  SchedulerInv'
<1>1. /\ devicepc = "idle" /\ f \in pending /\ pending' = pending \ {f} /\ Push(f)
      /\ device' = f /\ devicepc' = "complete"
      /\ UNCHANGED <<pc, current, made, live, suspended, async_count, running_thread_count,
                     refcnt, freed, requests, ub>>
  BY DEF DevicePush, processVars
<1>2. PICK t \in Thread : t = Initial
  BY SchedulerAssumption
<1>3. /\ Placed /\ Distinct(active) /\ active \in Seq(Fibre)
      /\ Has(t) \cap (Ready \cup suspended \cup pending) = {}
      /\ Ready \cap suspended = {} /\ Ready \cap pending = {} /\ suspended \cap pending = {}
  BY PlacedParts DEF SchedulerInv
<1>4. active' \in Seq(Fibre) /\ Ready' = Ready \cup {f} /\ Distinct(active)'
  BY <1>1, <1>3, PushFacts
<1>5. Placed'
  <2> PICK nothing : nothing = {}
    OBVIOUS
  <2>1. Has(t)' = Has(t) /\ \A u \in Thread \ {t} : pc'[u] = pc[u] /\ current'[u] = current[u]
    BY <1>1 DEF Has, Runs
  <2>2. suspended' = suspended /\ pending' = pending \ {f} /\ live' = live /\ f \in pending
    BY <1>1
  <2>3. /\ Has(t)' \cap (Ready' \cup suspended' \cup pending') = {}
        /\ Ready' \cap suspended' = {} /\ Ready' \cap pending' = {} /\ suspended' \cap pending' = {}
        /\ nothing \cap live = {} /\ nothing \subseteq Has(t)
        /\ Has(t)' \cup Ready' \cup suspended' \cup pending'
             = (Has(t) \cup Ready \cup suspended \cup pending \cup nothing) \ nothing
        /\ live' = (live \cup nothing) \ nothing
    BY <1>3, <1>4, <2>1, <2>2
  <2> QED
    BY <1>3, <1>4, <2>1, <2>3, Moves
<1>6. CountersCount'
  <2>1. /\ IsFiniteSet(pending) /\ Cardinality(pending) \in Nat
        /\ Cardinality(At({"async"})) \in Nat
    BY FiniteParts DEF SchedulerInv
  <2>2. Cardinality(pending') = Cardinality(pending) - 1
    BY <1>1, <2>1, FS_RemoveElement
  <2>3. At({"async"})' = At({"async"}) /\ RunningThread' = RunningThread /\ Sharer' = Sharer
    BY <1>1 DEF At, RunningThread, Sharer
  <2>4. async_count = Cardinality(pending) + Cardinality(At({"async"})) + 0
    BY <1>1 DEF SchedulerInv, CountersCount
  <2>5. async_count' = Cardinality(pending') + Cardinality(At({"async"}))' + 1
    BY <1>1, <2>1, <2>2, <2>3, <2>4
  <2>6. /\ running_thread_count' = Cardinality(RunningThread')
        /\ refcnt' = Cardinality(Sharer')
    BY <1>1, <2>3 DEF SchedulerInv, CountersCount
  <2> QED
    BY <1>1, <2>5, <2>6 DEF CountersCount
<1>7. Typed'
  BY <1>1, <1>4 DEF SchedulerInv, Typed
<1>8. Held' /\ MadeFew' /\ SomeoneStays' /\ FreedLast'
  BY <1>1 DEF SchedulerInv, Held, MadeFew, SomeoneStays, FreedLast, At
<1> QED
  BY <1>5, <1>6, <1>7, <1>8 DEF SchedulerInv

LEMMA DeviceCompleteStep ==
  ASSUME SchedulerInv, UNCHANGED services, DeviceComplete
  PROVE  SchedulerInv'
<1>1. /\ devicepc = "complete" /\ devicepc' = "notify" /\ async_count' = async_count - 1
      /\ UNCHANGED <<pc, current, made, live, active, suspended, pending, device,
                     running_thread_count, refcnt, freed, requests, ub>>
  BY DEF DeviceComplete, fibreVars
<1>2. CountersCount'
  <2>1. Cardinality(pending) \in Nat /\ Cardinality(At({"async"})) \in Nat
    BY FiniteParts DEF SchedulerInv
  <2>2. At({"async"})' = At({"async"}) /\ RunningThread' = RunningThread /\ Sharer' = Sharer
    BY <1>1 DEF At, RunningThread, Sharer
  <2>3. async_count = Cardinality(pending) + Cardinality(At({"async"})) + 1
    BY <1>1 DEF SchedulerInv, CountersCount
  <2>4. async_count' = Cardinality(pending') + Cardinality(At({"async"}))' + 0
    BY <1>1, <2>1, <2>2, <2>3
  <2>5. /\ running_thread_count' = Cardinality(RunningThread')
        /\ refcnt' = Cardinality(Sharer')
    BY <1>1, <2>2 DEF SchedulerInv, CountersCount
  <2> QED
    BY <1>1, <2>4, <2>5 DEF CountersCount
<1>3. Typed'
  BY <1>1 DEF SchedulerInv, Typed
<1>4. Placed'
  <2>1. \A t \in Thread : Has(t)' = Has(t)
    BY <1>1 DEF Has, Runs
  <2> QED
    BY <1>1, <2>1, NoneMoves DEF SchedulerInv
<1>5. SomeoneStays'
  <2>1. async_count' > 0 => async_count > 0
    BY <1>1 DEF SchedulerInv, Typed
  <2> QED
    BY <1>1, <2>1 DEF SchedulerInv, SomeoneStays
<1>6. Held' /\ MadeFew' /\ FreedLast'
  BY <1>1 DEF SchedulerInv, Held, MadeFew, FreedLast, At
<1> QED
  BY <1>2, <1>3, <1>4, <1>5, <1>6 DEF SchedulerInv

\* Those it wakes are counted where they were.
LEMMA DeviceNotifyStep ==
  ASSUME SchedulerInv, UNCHANGED services, DeviceNotify
  PROVE  SchedulerInv'
<1>1. /\ devicepc = "notify" /\ devicepc' = "idle" /\ device' = None
      /\ pc' = [t \in Thread |-> IF pc[t] = "asleep" THEN "repop" ELSE pc[t]]
      /\ UNCHANGED <<current, made, live, active, suspended, pending, async_count,
                     running_thread_count, refcnt, freed, requests, ub>>
  BY DEF DeviceNotify, fibreVars, processVars
<1>2. /\ Typed /\ Placed /\ CountersCount /\ pc \in [Thread -> Places]
  BY DEF SchedulerInv, Typed
<1>3. \A t \in Thread : pc'[t] = pc[t] \/ (pc[t] = "asleep" /\ pc'[t] = "repop")
  BY <1>1
<1>4. pc' \in [Thread -> Places]
  BY <1>1, <1>2 DEF Places, SharerPlaces, WaitingPlaces
<1>5. /\ At({"async"})' = At({"async"}) /\ At({"start"})' = At({"start"})
      /\ At({"spawn"})' = At({"spawn"}) /\ At(SharerPlaces)' = At(SharerPlaces)
      /\ RunningThread' = RunningThread
  BY <1>3 DEF At, RunningThread, SharerPlaces, WaitingPlaces
<1>6. Sharer' = Sharer
  BY <1>2, <1>4, <1>5, SharerIs
<1>7. CountersCount'
  BY <1>1, <1>2, <1>5, <1>6 DEF CountersCount
<1>8. Typed'
  BY <1>1, <1>2, <1>4 DEF Typed
<1>9. Placed'
  <2>1. \A t \in Thread : Has(t)' = Has(t)
    BY <1>1, <1>3 DEF Has, Runs
  <2> QED
    BY <1>1, <1>2, <2>1, NoneMoves
<1>10. Held'
  BY <1>1, <1>3 DEF SchedulerInv, Held, Holding
<1>11. MadeFew'
  BY <1>1, <1>5 DEF SchedulerInv, MadeFew
<1>12. SomeoneStays'
  BY <1>1, <1>3 DEF SchedulerInv, SomeoneStays, Staying, WaitingPlaces
<1>13. FreedLast'
  BY <1>1, <1>3 DEF SchedulerInv, FreedLast, SharerPlaces, WaitingPlaces
<1> QED
  BY <1>7, <1>8, <1>9, <1>10, <1>11, <1>12, <1>13 DEF SchedulerInv

-----------------------------------------------------------------------------
(***************************************************************************)
(* The theorems                                                            *)
(***************************************************************************)

LEMMA SchedulerInit == Init => SchedulerInv
<1> SUFFICES ASSUME Init PROVE SchedulerInv
  OBVIOUS
<1>1. /\ pc = [t \in Thread |-> IF t = Initial THEN "start" ELSE "unborn"]
      /\ current = [t \in Thread |-> None]
      /\ made = 0 /\ live = {} /\ active = << >> /\ suspended = {} /\ pending = {}
      /\ device = None /\ devicepc = "idle"
      /\ async_count = 0 /\ running_thread_count = 0 /\ refcnt = 1 /\ freed = FALSE
      /\ requests = MaxRequests /\ ub = "nothing"
      /\ services \in {"synchronous", "asynchronous"}
  BY DEF Init
<1>2. Initial \in Thread /\ MaxRequests \in Nat
  BY SchedulerAssumption
<1>3. Typed
  <2>1. pc \in [Thread -> Places] /\ current \in [Thread -> Fibre \cup {None}]
    BY <1>1 DEF Places, SharerPlaces
  <2>2. active \in Seq(Fibre) /\ live \subseteq 1..made
    BY <1>1
  <2>3. requests \in 0..MaxRequests /\ made <= MaxRequests + 1
    BY <1>1, <1>2
  <2>4. freed \in BOOLEAN /\ ub \in {"nothing", "fibre", "process"}
    BY <1>1
  <2>5. made \in Nat /\ async_count \in Int /\ running_thread_count \in Int /\ refcnt \in Int
    BY <1>1
  <2>6. /\ suspended \subseteq Fibre /\ pending \subseteq Fibre
        /\ device \in Fibre \cup {None} /\ devicepc \in {"idle", "complete", "notify"}
        /\ services \in {"synchronous", "asynchronous"}
    BY <1>1
  <2> QED
    BY <2>1, <2>2, <2>3, <2>4, <2>5, <2>6 DEF Typed
<1>4. /\ RunningThread = {} /\ At({"async"}) = {} /\ At({"spawn"}) = {}
      /\ At({"start"}) = {Initial} /\ Sharer = {Initial}
  BY <1>1, <1>2 DEF At, RunningThread, Sharer
<1>5. /\ Cardinality({}) = 0 /\ Cardinality({Initial}) = 1
  BY FS_EmptySet, FS_Singleton
<1>6. CountersCount
  <2>1. Cardinality(RunningThread) = 0 /\ Cardinality(Sharer) = 1
    BY <1>4, <1>5
  <2>2. Cardinality(pending) = 0 /\ Cardinality(At({"async"})) = 0
    BY <1>1, <1>4, <1>5
  <2> QED
    BY <1>1, <2>1, <2>2 DEF CountersCount
<1>7. MadeFew
  <2>1. Cardinality(At({"start"})) = 1 /\ Cardinality(At({"spawn"})) = 0
    BY <1>4, <1>5
  <2> QED
    BY <1>1, <1>2, <2>1 DEF MadeFew
<1>8. Held /\ SomeoneStays /\ FreedLast
  BY <1>1 DEF Held, Holding, SomeoneStays, FreedLast
<1>9. Placed
  <2>1. Ready = {} /\ Distinct(active)
    BY <1>1 DEF Ready, Elements, Distinct
  <2>2. \A t \in Thread : Has(t) = {}
    BY <1>1 DEF Has, Runs
  <2> QED
    BY <1>1, <2>1, <2>2 DEF Placed
<1> QED
  BY <1>3, <1>6, <1>7, <1>8, <1>9 DEF SchedulerInv

LEMMA SchedulerNext == SchedulerInv /\ [Next]_vars => SchedulerInv'
<1> SUFFICES ASSUME SchedulerInv, [Next]_vars PROVE SchedulerInv'
  OBVIOUS
<1>1. ASSUME NEW t \in Thread, Step(t), UNCHANGED services PROVE SchedulerInv'
  <2>1. CASE Start(t) \/ SpawnChild(t)
    BY <1>1, <2>1, StartSteps
  <2>2. CASE \/ SpawnFibre(t) \/ SpawnFibreDeferred(t) \/ Suspend(t) \/ Die(t)
             \/ \E f \in Fibre : ResumeWriter(t, f) \/ ResumeReader(t, f)
    BY <1>1, <2>2, RunSteps
  <2>3. ASSUME NEW u \in Thread, SpawnCothread(t, u) PROVE SchedulerInv'
    BY <1>1, <2>3, SpawnCothreadStep
  <2>4. CASE \/ AsyncWrite(t) \/ StopRunning(t) \/ CheckAsync(t) \/ CheckRunning(t)
             \/ Sleep(t) \/ Timeout(t) \/ RunAgain(t) \/ Forget(t) \/ ForgetLast(t)
    BY <1>1, <2>4, QuietSteps
  <2>5. CASE AsyncSuspend(t)
    BY <1>1, <2>5, AsyncSuspendStep
  <2>6. CASE Pop(t) \/ Repop(t)
    BY <1>1, <2>6, PopSteps
  <2>7. CASE UseFreedFibre(t) \/ UseFreedProcess(t)
    BY <1>1, <2>7, UseSteps
  <2>8. CASE Service(t)
    BY <2>1, <2>2, <2>3, <2>4, <2>5, <2>8 DEF Service
  <2> QED
    BY <1>1, <2>1, <2>2, <2>4, <2>6, <2>7, <2>8 DEF Step
<1>2. ASSUME Device, UNCHANGED services PROVE SchedulerInv'
  BY <1>2, DevicePushStep, DeviceCompleteStep, DeviceNotifyStep, UseSteps, SchedulerAssumption
     DEF Device
<1>3. CASE UNCHANGED vars
  BY <1>3 DEF vars, SchedulerInv, Typed, Held, MadeFew, CountersCount, SomeoneStays, FreedLast,
     Placed, Ready, Distinct, Elements, Has, Runs, At, RunningThread, Sharer,
     fibreVars, deviceVars, processVars
<1> QED
  BY <1>1, <1>2, <1>3 DEF Next

\* For any number of threads and requests the state stays within its types: a
\* counter never goes below zero, and there is a number for each new fibre.
THEOREM SchedulerTypeCorrect == Spec => []TypeOK
<1>1. ASSUME SchedulerInv PROVE TypeOK
  <2>1. Typed /\ CountersCount /\ MaxRequests \in Nat
    BY <1>1, SchedulerAssumption DEF SchedulerInv
  <2>2. running_thread_count \in Nat /\ refcnt \in Nat
    <3>1. RunningThread \subseteq Thread /\ Sharer \subseteq Thread
      BY DEF RunningThread, Sharer, At
    <3>2. Cardinality(RunningThread) \in Nat /\ Cardinality(Sharer) \in Nat
      BY <3>1, SchedulerAssumption, FS_Subset, FS_CardinalityType
    <3> QED
      BY <2>1, <3>2 DEF CountersCount
  <2>3. async_count \in Nat
    <3>1. Cardinality(pending) \in Nat /\ Cardinality(At({"async"})) \in Nat
      BY <2>1, FiniteParts
    <3> QED
      BY <2>1, <3>1 DEF CountersCount
  <2>4. made \in 0..(MaxRequests + 1)
    BY <2>1 DEF Typed
  <2>5. pc \in [Thread -> {"unborn", "start", "run", "spawn", "async", "pop", "dec",
                           "async?", "running?", "sleep", "asleep", "repop", "inc",
                           "forget", "last?", "done"}]
    BY <2>1 DEF Typed, Places, SharerPlaces, RunningPlaces, WaitingPlaces
  <2> QED
    BY <2>1, <2>2, <2>3, <2>4, <2>5 DEF Typed, TypeOK
<1> QED
  BY <1>1, SchedulerInit, SchedulerNext, PTL DEF Spec

\* What an idle scheduler reads is exact in every state: running_thread_count
\* the threads that may still make work, refcnt those that have not forgotten
\* the process, async_count the requests a service has still to complete.
THEOREM CountersAreExact == Spec => []CountersCount
<1>1. SchedulerInv => CountersCount
  BY DEF SchedulerInv
<1> QED
  BY <1>1, SchedulerInit, SchedulerNext, PTL DEF Spec

LEMMA AtMostOne ==
  ASSUME NEW S, \A x, y \in S : x = y
  PROVE  IsFiniteSet(S) /\ Cardinality(S) = IF S = {} THEN 0 ELSE 1
<1>1. CASE S = {}
  BY <1>1, FS_EmptySet
<1>2. CASE S # {}
  <2>1. PICK x : S = {x}
    BY <1>2
  <2> QED
    BY <1>2, <2>1, FS_Singleton
<1> QED
  BY <1>1, <1>2

\* However threads share the stack of ready fibres, and whoever resumes whom, a
\* fibre that exists is run by one thread, ready once, suspended, or with the
\* device, and it is in one of these places only.
THEOREM EachFibreInOnePlace == Spec => []FibreInOnePlace
<1>1. ASSUME Placed PROVE FibreInOnePlace
  <2> SUFFICES ASSUME NEW f \in Fibre
               PROVE  Cardinality({t \in Thread : Runs(t, f)})
                      + Cardinality({i \in DOMAIN active : active[i] = f})
                      + Cardinality({f} \cap suspended) + Cardinality({f} \cap pending)
                        = IF f \in live THEN 1 ELSE 0
    BY DEF FibreInOnePlace
  <2> DEFINE A == {t \in Thread : Runs(t, f)}
             B == {i \in DOMAIN active : active[i] = f}
             C == {f} \cap suspended
             D == {f} \cap pending
  <2>1. \A t \in Thread : f \in Has(t) <=> t \in A
    BY DEF Has
  <2>2. \A t, u \in A : t = u
    BY <1>1, <2>1 DEF Placed
  <2>3. B # {} <=> f \in Ready
    BY DEF Ready, Elements
  <2>4. \A i, j \in B : i = j
    BY <1>1 DEF Placed, Distinct
  <2>5. /\ f \in live <=> (A # {} \/ B # {} \/ C # {} \/ D # {})
        /\ A # {} => B = {} /\ C = {} /\ D = {}
        /\ (B = {} \/ C = {}) /\ (B = {} \/ D = {}) /\ (C = {} \/ D = {})
    BY <1>1, <2>1, <2>3 DEF Placed
  <2>6. \A x, y \in C : x = y
    OBVIOUS
  <2>7. \A x, y \in D : x = y
    OBVIOUS
  <2> HIDE DEF A, B, C, D
  <2>8. /\ Cardinality(A) = IF A = {} THEN 0 ELSE 1
        /\ Cardinality(B) = IF B = {} THEN 0 ELSE 1
        /\ Cardinality(C) = IF C = {} THEN 0 ELSE 1
        /\ Cardinality(D) = IF D = {} THEN 0 ELSE 1
    BY <2>2, <2>4, <2>6, <2>7, AtMostOne
  <2>9. Cardinality(A) + Cardinality(B) + Cardinality(C) + Cardinality(D)
          = IF f \in live THEN 1 ELSE 0
    BY <2>5, <2>8
  <2> QED
    BY <2>9 DEF A, B, C, D
<1>2. SchedulerInv => FibreInOnePlace
  BY <1>1 DEF SchedulerInv
<1> QED
  BY <1>2, SchedulerInit, SchedulerNext, PTL DEF Spec

\* A process with a request in flight is not freed, however its threads leave
\* and whenever the service answers: a thread that has still to look at the
\* count stays until the service has counted its answers.
THEOREM ProcessOutlivesRequests == Spec => []PendingKeepsProcess
<1>1. ASSUME SchedulerInv PROVE PendingKeepsProcess
  <2>1. CASE freed = TRUE
    <3>1. \A t \in Thread : pc[t] \notin Staying
      BY <1>1, <2>1 DEF SchedulerInv, FreedLast, SharerPlaces, Staying
    <3>2. ~(async_count > 0)
      BY <1>1, <3>1 DEF SchedulerInv, SomeoneStays
    <3>3. /\ IsFiniteSet(pending) /\ Cardinality(pending) \in Nat
          /\ Cardinality(At({"async"})) \in Nat
      BY <1>1, FiniteParts DEF SchedulerInv
    <3>4. async_count = Cardinality(pending) + Cardinality(At({"async"}))
                          + IF devicepc = "complete" THEN 1 ELSE 0
      BY <1>1 DEF SchedulerInv, CountersCount
    <3>5. Cardinality(pending) = 0 /\ devicepc # "complete"
      BY <3>2, <3>3, <3>4
    <3>6. pending = {}
      BY <3>3, <3>5, FS_EmptySet
    <3> QED
      BY <3>5, <3>6 DEF PendingKeepsProcess
  <2>2. CASE freed = FALSE
    BY <2>2 DEF PendingKeepsProcess
  <2> QED
    BY <1>1, <2>1, <2>2 DEF SchedulerInv, Typed
<1> QED
  BY <1>1, SchedulerInit, SchedulerNext, PTL DEF Spec
=============================================================================
