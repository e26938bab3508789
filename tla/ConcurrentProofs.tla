--------------------------- MODULE ConcurrentProofs ---------------------------
(***************************************************************************)
(* Theorems about ConcurrentChannel, for any number of threads, fibres,    *)
(* endpoints and processes.                                                *)
(***************************************************************************)
EXTENDS ConcurrentChannel, StackLemmas, FiniteSetTheorems, FunctionTheorems

\* The places in which a thread destroys something.
Destroying == {"unwind", "drop", "store", "endpoint", "leave", "delete", "clear", "zero"}

\* Those in which it has a peer.
WithPeer == {"refer", "count", "copy", "resume"}

Places == {"idle", "run", "lock", "match", "unlink", "check", "subtract", "push",
           "link", "pop", "starved"} \cup WithPeer \cup Destroying

Typed ==
  /\ pc \in [Thread -> Places]
  /\ current \in [Thread -> Fibre \cup {None}]
  /\ peer \in [Thread -> Fibre \cup {None}]
  /\ link \in [Thread -> Seq(Fibre)]
  /\ unwind \in [Thread -> Seq(Fibre \cup {ChannelFrame})]
  /\ live \subseteq Fibre /\ active \subseteq Fibre
  /\ top \in Seq(Fibre)

-----------------------------------------------------------------------------
(***************************************************************************)
(* The lock                                                                *)
(***************************************************************************)

\* What Go says of the place of a thread.
LEMMA GoPlaces ==
  ASSUME NEW t \in Thread, NEW from, NEW to, Go(t, from, to),
         pc \in [Thread -> Places]
  PROVE  /\ pc[t] = from /\ pc'[t] = to /\ ub = "nothing"
         /\ \A u \in Thread \ {t} : pc'[u] = pc[u]
BY DEF Go

\* No two threads are inside, and none is while the flag is clear.
Exclusion ==
  /\ pc \in [Thread -> Places]
  /\ \A t, u \in Thread :
       pc[t] \in InsidePlaces /\ pc[u] \in InsidePlaces => t = u
  /\ \A t \in Thread : pc[t] \in InsidePlaces => lk = TRUE

\* How a thread fetches a fibre.
LEMMA FetchPlaces ==
  ASSUME NEW t \in Thread, NEW from, NEW found, NEW none,
         Fetch(t, from, found, none)
  PROVE  Go(t, from, found) \/ Go(t, from, none)
BY DEF Fetch

\* A thread enters when the flag is clear, and sets it; leaves, and clears it;
\* or does neither.
LEMMA StepOfLock ==
  ASSUME pc \in [Thread -> Places], NEW t \in Thread, Step(t)
  PROVE  /\ pc' \in [Thread -> Places]
         /\ \A u \in Thread \ {t} : pc'[u] = pc[u]
         /\ \/ lk = FALSE /\ lk' = TRUE
            \/ pc[t] \in InsidePlaces /\ pc'[t] \notin InsidePlaces
            \/ lk' = lk /\ (pc'[t] \in InsidePlaces => pc[t] \in InsidePlaces)
<1>1. CASE Lock(t)
  BY <1>1, GoPlaces DEF Lock, InsidePlaces, Places, Go
<1>2. CASE CountPeer(t) \/ Link(t)
  <2>1. PICK from \in {"count", "link"}, to \in {"copy", "pop"} : Go(t, from, to)
    BY <1>2 DEF CountPeer, Link
  <2>2. from \in InsidePlaces /\ to \in Places /\ to \notin InsidePlaces
    BY DEF InsidePlaces, Places, WithPeer
  <2> QED
    BY <2>1, <2>2, GoPlaces DEF Go
<1>3. CASE \/ \E dir \in {"read", "write"} : Ask(t, dir)
           \/ Match(t) \/ Unlink(t) \/ Copy(t) \/ Resume(t) \/ Check(t) \/ Subtract(t)
           \/ Push(t) \/ Refer(t) \/ Spawn(t)
  <2> DEFINE Inward(from, to) ==
               Go(t, from, to) /\ (to \in InsidePlaces => from \in InsidePlaces)
  <2>1. lk' = lk /\ \E from, to \in Places : Inward(from, to)
    <3>1. CASE \E dir \in {"read", "write"} : Ask(t, dir)
      <4>1. Go(t, "run", "lock") /\ lk' = lk
        BY <3>1 DEF Ask, channelVars
      <4> QED
        BY <4>1 DEF Places, InsidePlaces
    <3>4. CASE Copy(t) \/ Resume(t) \/ Subtract(t)
      BY <3>4 DEF Copy, Resume, Subtract, channelVars, Places, WithPeer, InsidePlaces
    <3>5. CASE Unlink(t) \/ Push(t)
      BY <3>5 DEF Unlink, Push, channelVars, Places, WithPeer, InsidePlaces
    <3>6. CASE Refer(t)
      BY <3>6 DEF Refer, channelVars, Places, WithPeer, InsidePlaces
    <3>7. CASE Spawn(t)
      <4>1. Go(t, "refer", "run") /\ lk' = lk
        BY <3>7 DEF Spawn, channelVars
      <4> QED
        BY <4>1 DEF Places, WithPeer, InsidePlaces
    <3>2. CASE Match(t)
      <4>1. PICK to \in {"unlink", "check"} : Go(t, "match", to) /\ lk' = lk
        BY <3>2 DEF Match, channelVars
      <4> QED
        BY <4>1 DEF Places, InsidePlaces
    <3>3. CASE Check(t)
      <4>1. PICK to \in {"starved", "subtract"} : Go(t, "check", to) /\ lk' = lk
        BY <3>3 DEF Check, channelVars
      <4> QED
        BY <4>1 DEF Places, InsidePlaces
    <3> QED
      BY <1>3, <3>1, <3>2, <3>3, <3>4, <3>5, <3>6, <3>7
  <2> QED
    BY <2>1, GoPlaces DEF Go
<1>4. CASE Pop(t) \/ Starve(t) \/ FindWork(t) \/ End(t)
  <2>1. \E from, to \in Places :
          Go(t, from, to) /\ lk' = lk /\ to \notin InsidePlaces
    BY <1>4, FetchPlaces DEF Pop, Starve, FindWork, End, channelVars, Places,
                Destroying, InsidePlaces
  <2> QED
    BY <2>1, GoPlaces DEF Go
<1>5. CASE Destroy(t)
  <2>1. lk' = lk /\ \E from \in Places, to \in Places \ InsidePlaces : Go(t, from, to)
    <3>1. CASE LeaveChannel(t) \/ DeleteChannel(t) \/ ClearTop(t) \/ ClearRefcnt(t)
      <4>1. PICK from \in {"leave", "delete", "clear", "zero"},
                 to \in {"unwind", "clear", "zero"} : Go(t, from, to) /\ lk' = lk
        BY <3>1 DEF LeaveChannel, DeleteChannel, ClearTop, ClearRefcnt, channelVars
      <4> QED
        BY <4>1 DEF Places, Destroying, InsidePlaces
    <3>2. CASE ReloadReferences(t) \/ DropReference(t)
      BY <3>2 DEF ReloadReferences, DropReference, channelVars, Places, Destroying,
                  InsidePlaces
    <3>5. CASE LoadReferences(t)
      <4>1. PICK to \in {"endpoint", "drop"} : Go(t, "unwind", to) /\ lk' = lk
        BY <3>5 DEF LoadReferences, channelVars
      <4> QED
        BY <4>1 DEF Places, Destroying, InsidePlaces
    <3>3. CASE LoadRefcnt(t)
      <4>1. PICK to \in {"delete", "leave", "unwind"} : Go(t, "endpoint", to) /\ lk' = lk
        BY <3>3 DEF LoadRefcnt, channelVars
      <4> QED
        BY <4>1 DEF Places, Destroying, InsidePlaces
    <3>4. CASE FreeFibre(t) \/ FreeChannel(t)
      <4>1. PICK to \in {"unwind", "pop", "run"} : Go(t, "unwind", to) /\ lk' = lk
        BY <3>4 DEF FreeFibre, FreeChannel, Return, channelVars
      <4> QED
        BY <4>1 DEF Places, Destroying, InsidePlaces
    <3> QED
      BY <1>5, <3>1, <3>2, <3>3, <3>4, <3>5 DEF Destroy
  <2> QED
    BY <2>1, GoPlaces DEF Go
<1>6. CASE UseFreed(t)
  BY <1>6 DEF UseFreed, threadVars, channelVars
<1> QED
  BY <1>1, <1>2, <1>3, <1>4, <1>5, <1>6 DEF Step, Transfer

LEMMA ExclusionInit == Init => Exclusion
BY DEF Init, Exclusion, InsidePlaces, Places

LEMMA ExclusionNext ==
  ASSUME Exclusion, [Next]_vars
  PROVE  Exclusion'
<1>1. ASSUME NEW t \in Thread, Step(t) PROVE Exclusion'
  BY <1>1, StepOfLock DEF Exclusion
<1>2. CASE UNCHANGED vars
  BY <1>2 DEF Exclusion, vars, threadVars, channelVars
<1> QED
  BY <1>1, <1>2 DEF Next

\* lock and unlock bracket each operation, also when it deletes its fibre and
\* does not unlock.
THEOREM LockExcludes == Spec => []MutualExclusion
<1>1. ASSUME Exclusion PROVE MutualExclusion
  <2>1. CASE Inside = {}
    BY <2>1, FS_EmptySet DEF MutualExclusion
  <2>2. CASE Inside # {}
    <3>1. PICK t \in Thread : Inside = {t}
      BY <1>1, <2>2 DEF Exclusion, Inside, At
    <3>2. Cardinality(Inside) = 1
      BY <3>1, FS_Singleton
    <3>3. lk
      BY <1>1, <3>1 DEF Exclusion, Inside, At
    <3> QED
      BY <3>2, <3>3 DEF MutualExclusion
  <2> QED
    BY <2>1, <2>2
<1> QED
  BY <1>1, ExclusionInit, ExclusionNext, PTL DEF Spec

-----------------------------------------------------------------------------
(***************************************************************************)
(* Where the fibres are                                                    *)
(***************************************************************************)

\* The fibres a thread runs, has as a peer, or destroys.
Mine(t) ==
  {f \in Fibre : \/ Runs(t, f) \/ peer[t] = f \/ f \in Elements(unwind[t])
                 \/ pc[t] = "zero" /\ f \in Elements(link[t])}

\* No fibre is destroyed twice by these destructors.
FibresOnce(s) ==
  \A i, j \in DOMAIN s : s[i] = s[j] /\ s[i] \in Fibre => i = j

\* What the place of a thread says of its variables.
Local(t) ==
  /\ pc[t] \notin Destroying \cup {"idle", "pop"} => current[t] \in Fibre
  /\ pc[t] = "idle" => current[t] = None
  /\ peer[t] # None <=> pc[t] \in WithPeer
  /\ unwind[t] # << >> <=> pc[t] \in Destroying
  /\ pc[t] \in Destroying \ {"unwind"} => Head(unwind[t]) \in Fibre
  /\ FibresOnce(unwind[t])
  /\ peer[t] # None => peer[t] # current[t]
  /\ current[t] \in Fibre => current[t] \notin Elements(unwind[t])
  /\ pc[t] = "unlink" => link[t] # << >>
  /\ pc[t] = "zero" =>
       /\ Distinct(link[t])
       /\ Elements(link[t]) \cap Elements(unwind[t]) = {}
       /\ current[t] \notin Elements(link[t])

Placed ==
  /\ Typed
  /\ Distinct(top)
  /\ \A t \in Thread : Local(t)
  /\ \A t, u \in Thread : t # u => Mine(t) \cap Mine(u) = {}
  /\ \A t \in Thread : Mine(t) \cap (active \cup Suspended) = {}
  /\ active \cap Suspended = {}
  /\ \A f \in Fibre :
       f \in live <=> f \in active \cup Suspended \/ \E t \in Thread : f \in Mine(t)

\* Only the variables of thread t change.
Only(t) ==
  \A u \in Thread \ {t} :
    /\ pc'[u] = pc[u] /\ current'[u] = current[u]
    /\ peer'[u] = peer[u] /\ unwind'[u] = unwind[u] /\ link'[u] = link[u]

\* A step of t moves fibres between what t has, the active set and the channel;
\* those of D leave, and those of N come.
LEMMA Comings ==
  ASSUME Placed, NEW t \in Thread, NEW D, NEW N, Only(t),
         Typed', Distinct(top)', Local(t)',
         Mine(t)' \cap (active' \cup Suspended') = {}, active' \cap Suspended' = {},
         D \subseteq Mine(t) \cup active \cup Suspended, N \cap live = {},
         Mine(t)' \cup active' \cup Suspended'
           = ((Mine(t) \cup active \cup Suspended) \ D) \cup N,
         live' = (live \ D) \cup N
  PROVE  Placed'
<1>1. \A u \in Thread \ {t} : Mine(u)' = Mine(u) /\ (Local(u) => Local(u)')
  <2> SUFFICES ASSUME NEW u \in Thread \ {t}
               PROVE  Mine(u)' = Mine(u) /\ (Local(u) => Local(u)')
    OBVIOUS
  <2>1. /\ pc'[u] = pc[u] /\ current'[u] = current[u]
        /\ peer'[u] = peer[u] /\ unwind'[u] = unwind[u] /\ link'[u] = link[u]
    BY DEF Only
  <2>2. Mine(u)' = Mine(u)
    BY <2>1 DEF Mine, Runs
  <2>3. Local(u) => Local(u)'
    BY <2>1 DEF Local
  <2> QED
    BY <2>2, <2>3
<1>2. \A u \in Thread : Local(u)'
  BY <1>1 DEF Placed
<1>3. \A u \in Thread \ {t} :
        Mine(u) \cap (Mine(t) \cup active \cup Suspended \cup N) = {}
  <2>1. \A u \in Thread : Mine(u) \subseteq live
    BY DEF Placed, Mine
  <2> QED
    BY <2>1 DEF Placed
<1>4. \A u \in Thread \ {t} : Mine(u)' \cap (Mine(t)' \cup active' \cup Suspended') = {}
  BY <1>1, <1>3
<1>5. \A u, v \in Thread : u # v => Mine(u)' \cap Mine(v)' = {}
  BY <1>1, <1>4 DEF Placed
<1>6. \A u \in Thread : Mine(u)' \cap (active' \cup Suspended') = {}
  BY <1>4
<1>7. ASSUME NEW f \in Fibre
      PROVE  f \in live'
               <=> f \in active' \cup Suspended' \/ \E u \in Thread : f \in Mine(u)'
  <2>1. f \in live <=> \/ f \in Mine(t) \cup active \cup Suspended
                       \/ \E u \in Thread \ {t} : f \in Mine(u)
    BY DEF Placed
  <2>2. (\E u \in Thread \ {t} : f \in Mine(u)) => f \notin D
    BY <1>3
  <2> QED
    BY <1>1, <2>1, <2>2
<1> QED
  BY <1>2, <1>5, <1>6, <1>7 DEF Placed

LEMMA Moves ==
  ASSUME Placed, NEW t \in Thread, NEW D, Only(t),
         Typed', Distinct(top)', Local(t)',
         Mine(t)' \cap (active' \cup Suspended') = {}, active' \cap Suspended' = {},
         D \subseteq Mine(t) \cup active \cup Suspended,
         Mine(t)' \cup active' \cup Suspended'
           = (Mine(t) \cup active \cup Suspended) \ D,
         live' = live \ D
  PROVE  Placed'
<1>1. PICK N : N = {}
  OBVIOUS
<1>2. /\ N \cap live = {}
      /\ Mine(t)' \cup active' \cup Suspended'
           = ((Mine(t) \cup active \cup Suspended) \ D) \cup N
      /\ live' = (live \ D) \cup N
  BY <1>1
<1> QED
  BY <1>2, Comings

\* Thread t goes to another place, and takes its fibres along.
LEMMA Stays ==
  ASSUME Placed, NEW t \in Thread, NEW from \in Places, NEW to \in Places,
         Go(t, from, to), from \notin {"idle", "pop"}, to \notin {"idle", "pop"},
         from \in WithPeer <=> to \in WithPeer,
         from \in Destroying <=> to \in Destroying,
         to \in Destroying \ {"unwind"} => Head(unwind[t]) \in Fibre,
         from # "zero", to # "zero", to = "unlink" => link'[t] # << >>,
         link' \in [Thread -> Seq(Fibre)], \A u \in Thread \ {t} : link'[u] = link[u],
         UNCHANGED <<current, peer, unwind, live, active, top>>
  PROVE  Placed'
<1>1. /\ Typed /\ Local(t) /\ pc[t] = from /\ pc'[t] = to
      /\ \A u \in Thread \ {t} : pc'[u] = pc[u]
  BY GoPlaces DEF Placed, Typed
<1>2. Typed' /\ Only(t)
  BY <1>1 DEF Typed, Only, Go
<1>3. Local(t)'
  BY <1>1 DEF Local
<1>4. Mine(t)' = Mine(t) /\ Suspended' = Suspended
  BY <1>1 DEF Mine, Runs, Suspended
<1>5. /\ Distinct(top)' /\ Mine(t)' \cap (active' \cup Suspended') = {}
      /\ active' \cap Suspended' = {} /\ live' = live \ {}
      /\ Mine(t)' \cup active' \cup Suspended'
           = (Mine(t) \cup active \cup Suspended) \ {}
  BY <1>4 DEF Placed
<1> QED
  BY <1>2, <1>3, <1>5, Moves

\* The steps of read and write that move no fibre.
LEMMA TransferStays ==
  ASSUME Placed, NEW t \in Thread,
         \/ \E dir \in {"read", "write"} : Ask(t, dir)
         \/ Lock(t) \/ CountPeer(t) \/ Copy(t) \/ Check(t) \/ Subtract(t)
         \/ Match(t) \/ Push(t)
  PROVE  Placed'
<1>0. Typed
  BY DEF Placed
<1>1. /\ UNCHANGED <<current, peer, unwind, live, active, top>>
      /\ link' \in [Thread -> Seq(Fibre)]
      /\ \A u \in Thread \ {t} : link'[u] = link[u]
  <2>1. /\ UNCHANGED <<current, peer, unwind, live, active, top>>
        /\ UNCHANGED link \/ link' = [link EXCEPT ![t] = top]
    BY DEF Ask, Lock, CountPeer, Copy, Check, Subtract, Match, Push, fibreVars,
           channelVars
  <2> QED
    BY <1>0, <2>1 DEF Typed
<1>2. \E from, to \in Places \ (Destroying \cup {"idle", "pop"}) :
        /\ Go(t, from, to) /\ (from \in WithPeer <=> to \in WithPeer)
        /\ to = "unlink" => link'[t] # << >>
  <2>1. CASE \/ \E dir \in {"read", "write"} : Ask(t, dir)
             \/ Lock(t) \/ Subtract(t) \/ Push(t)
    BY <2>1 DEF Ask, Lock, Subtract, Push, Places, Destroying, WithPeer
  <2>2. CASE CountPeer(t) \/ Copy(t)
    BY <2>2 DEF CountPeer, Copy, Places, Destroying, WithPeer
  <2>3. CASE Check(t)
    <3>1. PICK to \in {"starved", "subtract"} : Go(t, "check", to)
      BY <2>3 DEF Check
    <3> QED
      BY <2>3, <3>1 DEF Places, Destroying, WithPeer
  <2>4. CASE Match(t)
    <3>1. \/ Go(t, "match", "unlink") /\ link'[t] # << >>
          \/ Go(t, "match", "check")
      BY <1>0, <2>4 DEF Match, HasPeer, Typed
    <3> QED
      BY <3>1 DEF Places, Destroying, WithPeer
  <2> QED
    BY <2>1, <2>2, <2>3, <2>4
<1>3. PICK from \in Places \ (Destroying \cup {"idle", "pop"}),
           to \in Places \ (Destroying \cup {"idle", "pop"}) :
        /\ Go(t, from, to) /\ (from \in WithPeer <=> to \in WithPeer)
        /\ to = "unlink" => link'[t] # << >>
  BY <1>2
<1>4. from # "zero" /\ to # "zero"
  BY DEF Destroying
<1> QED
  BY <1>1, <1>3, <1>4, Stays

\* The steps of the destructors that move no fibre.
LEMMA DestroyStays ==
  ASSUME Placed, NEW t \in Thread,
         \/ LoadReferences(t) \/ ReloadReferences(t) \/ DropReference(t)
         \/ LoadRefcnt(t) \/ LeaveChannel(t) \/ DeleteChannel(t)
  PROVE  Placed'
<1>1. Typed /\ Local(t)
  BY DEF Placed
<1>2. /\ UNCHANGED <<current, peer, unwind, live, active, top>>
      /\ link' \in [Thread -> Seq(Fibre)]
      /\ \A u \in Thread \ {t} : link'[u] = link[u]
  <2>1. /\ UNCHANGED <<current, peer, unwind, live, active, top>>
        /\ UNCHANGED link \/ link' = [link EXCEPT ![t] = top]
    BY DEF LoadReferences, ReloadReferences, DropReference, LoadRefcnt, LeaveChannel,
           DeleteChannel, fibreVars, channelVars
  <2> QED
    BY <1>1, <2>1 DEF Typed
<1>3. CASE LoadReferences(t)
  <2>1. PICK to \in {"endpoint", "drop"} :
          /\ unwind[t] # << >> /\ Head(unwind[t]) # ChannelFrame
          /\ Go(t, "unwind", to)
    BY <1>3 DEF LoadReferences, Unwinding, Dying
  <2>2. Head(unwind[t]) \in Fibre
    BY <1>1, <2>1, PopElements DEF Typed
  <2> QED
    BY <1>2, <2>1, <2>2, Stays DEF Places, Destroying, WithPeer
<1>4. CASE ~LoadReferences(t)
  <2>1. PICK from \in Destroying \ {"unwind", "zero"}, to \in Destroying \ {"zero"} :
          Go(t, from, to)
    <3>1. CASE LoadRefcnt(t)
      <4>1. PICK to \in {"delete", "leave", "unwind"} : Go(t, "endpoint", to)
        BY <3>1 DEF LoadRefcnt
      <4> QED
        BY <4>1 DEF Destroying
    <3> QED
      BY <1>4, <3>1 DEF ReloadReferences, DropReference, LeaveChannel, DeleteChannel,
                        Destroying
  <2>2. pc[t] = from /\ Head(unwind[t]) \in Fibre
    BY <1>1, <2>1, GoPlaces DEF Local, Typed
  <2>3. /\ Destroying \subseteq Places
        /\ Destroying \cap {"idle", "pop", "unlink"} = {} /\ Destroying \cap WithPeer = {}
    BY DEF Places, Destroying, WithPeer
  <2>4. from \in Destroying /\ to \in Destroying /\ from # "zero" /\ to # "zero"
    BY <2>1
  <2>5. /\ from \in Places /\ to \in Places /\ to # "unlink"
        /\ from \notin {"idle", "pop"} /\ to \notin {"idle", "pop"}
        /\ from \in WithPeer <=> to \in WithPeer
        /\ from \in Destroying <=> to \in Destroying
    BY <2>3, <2>4
  <2> QED
    BY <1>2, <2>1, <2>2, <2>4, <2>5, Stays
<1> QED
  BY <1>3, <1>4

\* A thread without a fibre fetches one.
LEMMA FetchMoves ==
  ASSUME Placed, NEW t \in Thread, NEW from \in {"idle", "pop"},
         Fetch(t, from, "run", "idle"), UNCHANGED <<peer, link, unwind, live, top>>
  PROVE  Placed'
<1>1. /\ Typed /\ Local(t) /\ pc[t] = from
      /\ \A u \in Thread \ {t} : pc'[u] = pc[u]
  <2>1. Typed /\ Local(t) /\ pc \in [Thread -> Places]
    BY DEF Placed, Typed
  <2>2. Go(t, from, "run") \/ Go(t, from, "idle")
    BY FetchPlaces
  <2>3. pc[t] = from /\ \A u \in Thread \ {t} : pc'[u] = pc[u]
    BY <2>1, <2>2 DEF Go
  <2> QED
    BY <2>1, <2>3
<1>2. peer[t] = None /\ unwind[t] = << >> /\ Mine(t) = {}
  BY <1>1, ConcurrentAssumption
     DEF Local, Mine, Runs, WithPeer, Destroying, Elements
<1>3. Suspended' = Suspended /\ Distinct(top)' /\ live' = live \ {}
  BY DEF Suspended, Placed
<1>4. CASE \E f \in active : /\ Go(t, from, "run")
                             /\ active' = active \ {f}
                             /\ current' = [current EXCEPT ![t] = f]
  <2>1. PICK f \in active : /\ Go(t, from, "run")
                            /\ active' = active \ {f}
                            /\ current' = [current EXCEPT ![t] = f]
    BY <1>4
  <2>2. f \in Fibre /\ f # None /\ pc'[t] = "run" /\ current'[t] = f
    BY <1>1, <2>1, GoPlaces, ConcurrentAssumption DEF Typed
  <2>3. Typed' /\ Only(t)
    BY <1>1, <2>1, <2>2 DEF Typed, Only, Go, Places
  <2>4. Mine(t)' = {f}
    BY <1>2, <2>2 DEF Mine, Runs, Elements
  <2>5. Local(t)'
    BY <1>1, <1>2, <2>2 DEF Local, WithPeer, Destroying, FibresOnce, Elements
  <2>6. /\ Mine(t)' \cap (active' \cup Suspended') = {}
        /\ active' \cap Suspended' = {}
        /\ Mine(t)' \cup active' \cup Suspended'
             = (Mine(t) \cup active \cup Suspended) \ {}
    BY <1>2, <1>3, <2>1, <2>4 DEF Placed
  <2> QED
    BY <1>3, <2>3, <2>5, <2>6, Moves
<1>5. CASE /\ Go(t, from, "idle")
           /\ current' = [current EXCEPT ![t] = None]
           /\ UNCHANGED active
  <2>1. pc'[t] = "idle" /\ current'[t] = None
    BY <1>1, <1>5, GoPlaces DEF Typed
  <2>2. Typed' /\ Only(t)
    BY <1>1, <1>5, <2>1 DEF Typed, Only, Go, Places
  <2>3. Mine(t)' = {}
    BY <1>2, <2>1, ConcurrentAssumption DEF Mine, Runs, Elements
  <2>4. Local(t)'
    BY <1>1, <1>2, <2>1, ConcurrentAssumption
       DEF Local, WithPeer, Destroying, FibresOnce, Elements
  <2>5. /\ Mine(t)' \cap (active' \cup Suspended') = {}
        /\ active' \cap Suspended' = {}
        /\ Mine(t)' \cup active' \cup Suspended'
             = (Mine(t) \cup active \cup Suspended) \ {}
    BY <1>2, <1>3, <1>5, <2>3 DEF Placed
  <2> QED
    BY <1>3, <2>2, <2>4, <2>5, Moves
<1> QED
  BY <1>4, <1>5 DEF Fetch

\* The fibre that could never be answered is destroyed, and another fetched.
LEMMA StarveMoves ==
  ASSUME Placed, NEW t \in Thread, Starve(t)
  PROVE  Placed'
<1>1. /\ Typed /\ Local(t) /\ pc[t] = "starved" /\ pc'[t] = "unwind"
      /\ \A u \in Thread \ {t} : pc'[u] = pc[u]
      /\ unwind' = [unwind EXCEPT ![t] = <<current[t]>>]
      /\ UNCHANGED <<peer, link, live, top>>
  BY FetchPlaces, GoPlaces DEF Starve, channelVars, Placed, Typed
<1>2. PICK g \in Fibre : g = current[t]
  BY <1>1 DEF Local, Destroying
<1>3. /\ peer[t] = None /\ unwind[t] = << >> /\ Mine(t) = {g}
      /\ g # None /\ None \notin Fibre
  BY <1>1, <1>2, ConcurrentAssumption
     DEF Local, Mine, Runs, WithPeer, Destroying, Elements
<1>4. unwind'[t] = <<g>> /\ Elements(unwind'[t]) = {g} /\ FibresOnce(unwind'[t])
  BY <1>1, <1>2 DEF Typed, Elements, FibresOnce
<1>5. Suspended' = Suspended /\ Distinct(top)' /\ live' = live \ {}
  BY <1>1 DEF Suspended, Placed
<1>6. PICK f \in active \cup {None} :
        /\ current' = [current EXCEPT ![t] = f]
        /\ active' = active \ {f}
  <2>1. None \notin active
    BY <1>1, <1>3 DEF Typed
  <2> QED
    BY <2>1 DEF Starve, Fetch
<1>7. current'[t] = f /\ (f \in Fibre \/ f = None) /\ f # g
  BY <1>1, <1>3, <1>6 DEF Typed, Placed
<1>8. Typed' /\ Only(t)
  <2>1. pc' = [pc EXCEPT ![t] = "unwind"]
    BY FetchPlaces DEF Starve, Go
  <2>2. pc' \in [Thread -> Places]
    BY <1>1, <2>1 DEF Typed, Places, Destroying
  <2>3. unwind' \in [Thread -> Seq(Fibre \cup {ChannelFrame})]
    BY <1>1, <1>2 DEF Typed
  <2>4. current' \in [Thread -> Fibre \cup {None}] /\ active' \subseteq Fibre
    BY <1>1, <1>6, <1>7 DEF Typed
  <2>5. Typed'
    BY <1>1, <2>2, <2>3, <2>4 DEF Typed
  <2> QED
    BY <1>1, <1>6, <2>5 DEF Only, Typed
<1>9. Mine(t)' = {g} \cup (Fibre \cap {f})
  BY <1>1, <1>3, <1>4, <1>7 DEF Mine, Runs
<1>10. Local(t)'
  BY <1>1, <1>2, <1>3, <1>4, <1>7 DEF Local, WithPeer, Destroying
<1>11. /\ Mine(t)' \cap (active' \cup Suspended') = {}
       /\ active' \cap Suspended' = {}
       /\ Mine(t)' \cup active' \cup Suspended'
            = (Mine(t) \cup active \cup Suspended) \ {}
  BY <1>1, <1>3, <1>5, <1>6, <1>7, <1>9 DEF Placed, Typed
<1> QED
  BY <1>5, <1>8, <1>10, <1>11, Moves

\* The fibre that ends is destroyed.
LEMMA EndMoves ==
  ASSUME Placed, NEW t \in Thread, End(t)
  PROVE  Placed'
<1>1. /\ Typed /\ Local(t) /\ pc[t] = "run" /\ pc'[t] = "unwind"
      /\ \A u \in Thread \ {t} : pc'[u] = pc[u]
      /\ unwind' = [unwind EXCEPT ![t] = <<current[t]>>]
      /\ current' = [current EXCEPT ![t] = None]
      /\ UNCHANGED <<peer, link, live, active, top>>
  BY GoPlaces DEF End, fibreVars, channelVars, Placed, Typed
<1>2. PICK g \in Fibre : g = current[t]
  BY <1>1 DEF Local, Destroying
<1>3. /\ peer[t] = None /\ unwind[t] = << >> /\ Mine(t) = {g}
      /\ None \notin Fibre
  BY <1>1, <1>2, ConcurrentAssumption
     DEF Local, Mine, Runs, WithPeer, Destroying, Elements
<1>4. /\ unwind'[t] = <<g>> /\ Elements(unwind'[t]) = {g}
      /\ FibresOnce(unwind'[t]) /\ current'[t] = None
  BY <1>1, <1>2 DEF Typed, Elements, FibresOnce
<1>5. Suspended' = Suspended /\ Distinct(top)' /\ live' = live \ {}
  BY <1>1 DEF Suspended, Placed
<1>6. Typed' /\ Only(t)
  BY <1>1, <1>2 DEF Typed, Only, End, Go, Places, Destroying
<1>7. Mine(t)' = {g}
  BY <1>1, <1>3, <1>4 DEF Mine, Runs
<1>8. Local(t)'
  BY <1>1, <1>2, <1>3, <1>4 DEF Local, WithPeer, Destroying
<1>9. /\ Mine(t)' \cap (active' \cup Suspended') = {}
      /\ active' \cap Suspended' = {}
      /\ Mine(t)' \cup active' \cup Suspended'
           = (Mine(t) \cup active \cup Suspended) \ {}
  BY <1>1, <1>3, <1>5, <1>7 DEF Placed
<1> QED
  BY <1>5, <1>6, <1>8, <1>9, Moves

\* The store to top finds there what the thread loaded.
LEMMA StoredTop ==
  ASSUME NEW t \in Thread, NEW list, StoreTop(t, list), ub = "nothing", ub' # "lost"
  PROVE  top = link[t] /\ top' = list /\ ub' = ub
BY DEF StoreTop

\* A peer is taken from the channel.
LEMMA UnlinkMoves ==
  ASSUME Placed, NEW t \in Thread, Unlink(t), ub' # "lost"
  PROVE  Placed'
<1>1. /\ Typed /\ Local(t) /\ pc[t] = "unlink" /\ pc'[t] = "count"
      /\ \A u \in Thread \ {t} : pc'[u] = pc[u]
  BY GoPlaces DEF Unlink, Placed, Typed
<1>0. /\ top # << >> /\ top' = Tail(top) /\ peer' = [peer EXCEPT ![t] = Head(top)]
      /\ link' = [link EXCEPT ![t] = << >>]
      /\ UNCHANGED <<current, unwind, live, active>>
  <2>1. StoreTop(t, Tail(link[t])) /\ ub = "nothing"
    BY GoPlaces, <1>1 DEF Unlink, Typed
  <2>2. top = link[t] /\ top' = Tail(link[t])
    BY <2>1, StoredTop
  <2> QED
    BY <1>1, <2>2 DEF Unlink, Local, fibreVars
<1>2. /\ Head(top) \in Fibre /\ Tail(top) \in Seq(Fibre)
      /\ Elements(top) = Elements(Tail(top)) \cup {Head(top)}
      /\ Distinct(Tail(top)) /\ Head(top) \notin Elements(Tail(top))
  BY <1>0, <1>1, PopElements DEF Placed, Typed
<1>3. PICK h \in Fibre : h = Head(top)
  BY <1>2
<1>4. Suspended = Suspended' \cup {h} /\ h \notin Suspended' /\ Distinct(top)'
  BY <1>0, <1>2, <1>3 DEF Suspended, Elements
<1>5. /\ unwind[t] = << >> /\ unwind'[t] = << >> /\ peer'[t] = h /\ peer[t] = None
      /\ current[t] \in Fibre /\ current'[t] = current[t] /\ None \notin Fibre
  BY <1>0, <1>1, <1>3, ConcurrentAssumption DEF Local, Typed, Destroying, WithPeer
<1>6. Typed' /\ Only(t) /\ live' = live \ {}
  BY <1>0, <1>1, <1>2, <1>3 DEF Typed, Only, Unlink, Go, Places, WithPeer
<1>7. Mine(t) = {current[t]} /\ Mine(t)' = {current[t], h}
  BY <1>1, <1>5 DEF Mine, Runs, Elements
<1>8. h # current[t]
  BY <1>4, <1>7 DEF Placed
<1>9. Local(t)'
  BY <1>1, <1>3, <1>5, <1>8 DEF Local, WithPeer, Destroying, FibresOnce, Elements
<1>10. /\ Mine(t)' \cap (active' \cup Suspended') = {}
       /\ active' \cap Suspended' = {}
       /\ Mine(t)' \cup active' \cup Suspended'
            = (Mine(t) \cup active \cup Suspended) \ {}
  BY <1>0, <1>4, <1>7 DEF Placed
<1> QED
  BY <1>4, <1>6, <1>9, <1>10, Moves

\* A fibre is made, which its thread is to spawn.
LEMMA ReferMoves ==
  ASSUME Placed, NEW t \in Thread, Refer(t)
  PROVE  Placed'
<1>1. /\ Typed /\ Local(t) /\ pc[t] = "run" /\ pc'[t] = "refer"
      /\ \A u \in Thread \ {t} : pc'[u] = pc[u]
      /\ UNCHANGED <<current, link, unwind, active, top>>
  BY GoPlaces DEF Refer, channelVars, Placed, Typed
<1>2. PICK g \in Fibre \ live : peer' = [peer EXCEPT ![t] = g] /\ live' = live \cup {g}
  BY DEF Refer
<1>3. /\ unwind[t] = << >> /\ peer'[t] = g /\ peer[t] = None
      /\ current[t] \in Fibre /\ None \notin Fibre
  BY <1>1, <1>2, ConcurrentAssumption DEF Local, Typed, Destroying, WithPeer
<1>4. Typed' /\ Only(t)
  BY <1>1, <1>2 DEF Typed, Only, Refer, Go, Places, WithPeer
<1>5. Mine(t) = {current[t]} /\ Mine(t)' = {current[t], g}
  BY <1>1, <1>2, <1>3 DEF Mine, Runs, Elements
<1>6. g # current[t] /\ g \notin active /\ g \notin Suspended /\ {g} \cap live = {}
  BY <1>2, <1>5 DEF Placed
<1>7. Local(t)'
  BY <1>1, <1>2, <1>3, <1>6 DEF Local, WithPeer, Destroying, FibresOnce, Elements
<1>8. Suspended' = Suspended /\ Distinct(top)' /\ live' = (live \ {}) \cup {g}
  BY <1>1, <1>2 DEF Suspended, Placed
<1>9. /\ Mine(t)' \cap (active' \cup Suspended') = {}
      /\ active' \cap Suspended' = {}
      /\ Mine(t)' \cup active' \cup Suspended'
           = ((Mine(t) \cup active \cup Suspended) \ {}) \cup {g}
  BY <1>1, <1>5, <1>6, <1>8 DEF Placed
<1> QED
  BY <1>4, <1>6, <1>7, <1>8, <1>9, Comings

\* The fibre that is spawned becomes ready.
LEMMA SpawnMoves ==
  ASSUME Placed, NEW t \in Thread, Spawn(t)
  PROVE  Placed'
<1>1. /\ Typed /\ Local(t) /\ pc[t] = "refer" /\ pc'[t] = "run"
      /\ \A u \in Thread \ {t} : pc'[u] = pc[u]
      /\ peer' = [peer EXCEPT ![t] = None] /\ active' = active \cup {peer[t]}
      /\ UNCHANGED <<current, link, unwind, live, top>>
  BY GoPlaces DEF Spawn, channelVars, Placed, Typed
<1>2. PICK f \in Fibre, g \in Fibre : f = current[t] /\ g = peer[t]
  BY <1>1 DEF Local, Typed, Destroying, WithPeer
<1>3. /\ unwind[t] = << >> /\ Mine(t) = {f, g} /\ f # g /\ None \notin Fibre
      /\ peer'[t] = None
  BY <1>1, <1>2, ConcurrentAssumption
     DEF Local, Typed, Mine, Runs, WithPeer, Destroying, Elements
<1>4. Typed' /\ Only(t)
  BY <1>1, <1>2 DEF Typed, Only, Spawn, Go, Places
<1>5. Mine(t)' = {f}
  BY <1>1, <1>2, <1>3 DEF Mine, Runs, Elements
<1>6. Local(t)'
  BY <1>1, <1>2, <1>3 DEF Local, WithPeer, Destroying, FibresOnce, Elements
<1>7. Suspended' = Suspended /\ Distinct(top)' /\ live' = live \ {}
  BY <1>1 DEF Suspended, Placed
<1>8. /\ Mine(t)' \cap (active' \cup Suspended') = {}
      /\ active' \cap Suspended' = {}
      /\ Mine(t)' \cup active' \cup Suspended'
           = (Mine(t) \cup active \cup Suspended) \ {}
  BY <1>1, <1>2, <1>3, <1>5, <1>7 DEF Placed
<1> QED
  BY <1>4, <1>6, <1>7, <1>8, Moves

\* The peer becomes active, or current in place of the writer.
LEMMA ResumeMoves ==
  ASSUME Placed, NEW t \in Thread, Resume(t)
  PROVE  Placed'
<1>1. /\ Typed /\ Local(t) /\ pc[t] = "resume" /\ pc'[t] = "run"
      /\ \A u \in Thread \ {t} : pc'[u] = pc[u]
      /\ peer' = [peer EXCEPT ![t] = None]
      /\ UNCHANGED <<unwind, link, live, top>>
  BY GoPlaces DEF Resume, channelVars, Placed, Typed
<1>2. PICK f \in Fibre, p \in Fibre : f = current[t] /\ p = peer[t]
  BY <1>1 DEF Local, Typed, Destroying, WithPeer
<1>3. /\ unwind[t] = << >> /\ Mine(t) = {f, p} /\ f # p /\ None \notin Fibre
  BY <1>1, <1>2, ConcurrentAssumption
     DEF Local, Mine, Runs, WithPeer, Destroying, Elements
<1>4. Suspended' = Suspended /\ Distinct(top)' /\ live' = live \ {}
  BY <1>1 DEF Suspended, Placed
<1>5. PICK g \in {f, p} : /\ active' = active \cup ({f, p} \ {g})
                          /\ current' = [current EXCEPT ![t] = g]
  <2>1. CASE /\ active' = active \cup {current[t]}
             /\ current' = [current EXCEPT ![t] = peer[t]]
    BY <1>2, <1>3, <2>1
  <2>2. CASE active' = active \cup {peer[t]} /\ UNCHANGED current
    <3>1. current' = [current EXCEPT ![t] = f]
      BY <1>1, <1>2, <2>2 DEF Typed
    <3>2. active' = active \cup ({f, p} \ {f})
      BY <1>2, <1>3, <2>2
    <3> QED
      BY <3>1, <3>2
  <2> QED
    BY <2>1, <2>2 DEF Resume
<1>6. pc' \in [Thread -> Places] /\ peer'[t] = None /\ current'[t] = g
  BY <1>1, <1>2, <1>5 DEF Typed, Resume, Go, Places
<1>7. Typed' /\ Only(t)
  BY <1>1, <1>2, <1>5, <1>6 DEF Typed, Only
<1>8. Mine(t)' = {g}
  BY <1>1, <1>2, <1>3, <1>6, ConcurrentAssumption DEF Mine, Runs, Elements
<1>9. Local(t)'
  BY <1>1, <1>2, <1>3, <1>6 DEF Local, WithPeer, Destroying, FibresOnce, Elements
<1>10. /\ Mine(t)' \cap (active' \cup Suspended') = {}
       /\ active' \cap Suspended' = {}
       /\ Mine(t)' \cup active' \cup Suspended'
            = (Mine(t) \cup active \cup Suspended) \ {}
  BY <1>3, <1>4, <1>5, <1>8 DEF Placed
<1> QED
  BY <1>4, <1>7, <1>9, <1>10, Moves

\* The fibre is suspended; its thread holds it no more.
LEMMA LinkMoves ==
  ASSUME Placed, NEW t \in Thread, Link(t), ub' # "lost"
  PROVE  Placed'
<1>1. /\ Typed /\ Local(t) /\ pc[t] = "link" /\ pc'[t] = "pop"
      /\ \A u \in Thread \ {t} : pc'[u] = pc[u]
  BY GoPlaces DEF Link, Placed, Typed
<1>0. /\ top' = <<current[t]>> \o top
      /\ link' = [link EXCEPT ![t] = << >>]
      /\ UNCHANGED <<current, peer, unwind, live, active>>
  <2>1. StoreTop(t, <<current[t]>> \o link[t]) /\ ub = "nothing"
    BY GoPlaces, <1>1 DEF Link, Typed
  <2>2. top = link[t] /\ top' = <<current[t]>> \o link[t]
    BY <2>1, StoredTop
  <2> QED
    BY <2>2 DEF Link, fibreVars
<1>2. PICK g \in Fibre : g = current[t]
  BY <1>1 DEF Local, Destroying
<1>3. /\ peer[t] = None /\ unwind[t] = << >> /\ Mine(t) = {g}
      /\ g # None /\ None \notin Fibre
  BY <1>1, <1>2, ConcurrentAssumption
     DEF Local, Mine, Runs, WithPeer, Destroying, Elements
<1>4. g \notin Elements(top)
  BY <1>3 DEF Placed, Suspended, Elements
<1>5. top' \in Seq(Fibre) /\ Elements(top') = Elements(top) \cup {g} /\ Distinct(top')
  BY <1>0, <1>1, <1>2, <1>4, PushElements DEF Placed, Typed
<1>6. Suspended' = Suspended \cup {g} /\ Distinct(top)' /\ live' = live \ {}
  BY <1>0, <1>5 DEF Suspended, Elements
<1>7. Typed' /\ Only(t)
  BY <1>0, <1>1, <1>5 DEF Typed, Only, Link, Go, Places
<1>8. Mine(t)' = {}
  BY <1>0, <1>1, <1>3 DEF Mine, Runs, Elements
<1>9. Local(t)'
  BY <1>0, <1>1, <1>3 DEF Local, WithPeer, Destroying, FibresOnce, Elements
<1>10. /\ Mine(t)' \cap (active' \cup Suspended') = {}
       /\ active' \cap Suspended' = {}
       /\ Mine(t)' \cup active' \cup Suspended'
            = (Mine(t) \cup active \cup Suspended) \ {}
  BY <1>0, <1>3, <1>6, <1>8 DEF Placed
<1> QED
  BY <1>6, <1>7, <1>9, <1>10, Moves

\* Destructors of different fibres, and of the channel, after one another.
LEMMA OnceConcat ==
  ASSUME NEW s \in Seq(Fibre), NEW v \in Seq(Fibre \cup {ChannelFrame}),
         Distinct(s), FibresOnce(v), Elements(s) \cap Elements(v) = {}
  PROVE  /\ s \o <<ChannelFrame>> \o v \in Seq(Fibre \cup {ChannelFrame})
         /\ s \o <<ChannelFrame>> \o v # << >>
         /\ Elements(s \o <<ChannelFrame>> \o v)
              = Elements(s) \cup {ChannelFrame} \cup Elements(v)
         /\ FibresOnce(s \o <<ChannelFrame>> \o v)
<1> DEFINE S == Fibre \cup {ChannelFrame}
<1>1. PICK x : x = ChannelFrame
  OBVIOUS
<1>2. x \in S /\ s \in Seq(S) /\ v \in Seq(S) /\ x \notin Fibre
  BY <1>1, ConcurrentAssumption DEF ChannelFrame
<1>3. PICK w : w = <<x>> \o v
  OBVIOUS
<1>4. /\ w \in Seq(S) /\ Elements(w) = Elements(v) \cup {x} /\ w # << >>
  BY <1>2, <1>3, PushElements
<1>5. FibresOnce(w)
  <2>1. /\ DOMAIN w = 1..(Len(v) + 1) /\ w[1] = x
        /\ \A i \in DOMAIN w : i = 1 \/ (i - 1 \in DOMAIN v /\ w[i] = v[i - 1])
    BY <1>2, <1>3, PushIndices
  <2> SUFFICES ASSUME NEW i \in DOMAIN w, NEW j \in DOMAIN w,
                      w[i] = w[j], w[i] \in Fibre
               PROVE  i = j
    BY DEF FibresOnce
  <2>2. i # 1 /\ j # 1
    BY <1>2, <2>1
  <2>3. i - 1 \in DOMAIN v /\ j - 1 \in DOMAIN v /\ v[i - 1] = v[j - 1]
    BY <2>1, <2>2
  <2>4. i - 1 = j - 1
    BY <2>1, <2>2, <2>3 DEF FibresOnce
  <2> QED
    BY <2>1, <2>4, <1>2
<1>6. PICK z : z = s \o w
  OBVIOUS
<1>7. s \o <<ChannelFrame>> \o v = z
  BY <1>1, <1>2, <1>3, <1>6
<1>8. /\ z \in Seq(S) /\ Elements(z) = Elements(s) \cup Elements(w)
  BY <1>2, <1>4, <1>6, ConcatElements
<1>9. /\ \A i \in DOMAIN z :
           \/ i \in DOMAIN s /\ z[i] = s[i]
           \/ i \notin DOMAIN s /\ i - Len(s) \in DOMAIN w /\ z[i] = w[i - Len(s)]
  BY <1>2, <1>4, <1>6, ConcatIndices
<1>10. FibresOnce(z)
  <2> SUFFICES ASSUME NEW i \in DOMAIN z, NEW j \in DOMAIN z,
                      z[i] = z[j], z[i] \in Fibre
               PROVE  i = j
    BY DEF FibresOnce
  <2>1. Elements(s) \cap (Elements(w) \cap Fibre) = {}
    BY <1>2, <1>4
  <2>2. CASE i \in DOMAIN s /\ j \in DOMAIN s
    BY <1>9, <2>2 DEF Distinct
  <2>3. CASE i \notin DOMAIN s /\ j \notin DOMAIN s
    <3>1. i - Len(s) = j - Len(s)
      BY <1>5, <1>9, <2>3 DEF FibresOnce
    <3>2. i \in Int /\ j \in Int /\ Len(s) \in Int
      BY <1>8
    <3> QED
      BY <3>1, <3>2
  <2>4. CASE ~(i \in DOMAIN s <=> j \in DOMAIN s)
    BY <1>9, <2>1, <2>4 DEF Elements
  <2> QED
    BY <2>2, <2>3, <2>4
<1>11. Elements(z) = Elements(s) \cup {ChannelFrame} \cup Elements(v) /\ z # << >>
  <2>1. Elements(z) = Elements(s) \cup {ChannelFrame} \cup Elements(v)
    BY <1>1, <1>4, <1>8
  <2>2. z # << >>
    BY <2>1 DEF Elements
  <2> QED
    BY <2>1, <2>2
<1> QED
  BY <1>7, <1>8, <1>10, <1>11

\* The fibres on the channel become those of the thread that deletes it,
LEMMA ClearTopMoves ==
  ASSUME Placed, NEW t \in Thread, ClearTop(t), ub' # "lost"
  PROVE  Placed'
<1>1. /\ Typed /\ Local(t) /\ pc[t] = "clear" /\ pc'[t] = "zero"
      /\ \A u \in Thread \ {t} : pc'[u] = pc[u]
      /\ UNCHANGED <<current, peer, link, unwind, live, active>>
  BY GoPlaces DEF ClearTop, fibreVars, Placed, Typed
<1>0. link[t] = top /\ top' = << >>
  <2>1. StoreTop(t, << >>) /\ ub = "nothing"
    BY GoPlaces, <1>1 DEF ClearTop, Typed
  <2> QED
    BY <2>1, StoredTop
<1>2. /\ peer[t] = None /\ unwind[t] # << >> /\ Head(unwind[t]) \in Fibre
      /\ Suspended = Elements(top) /\ Distinct(top) /\ None \notin Fibre
      /\ Suspended \subseteq Fibre
  BY <1>1, ConcurrentAssumption
     DEF Local, WithPeer, Destroying, Suspended, Elements, Placed, Typed
<1>3. Mine(t) \cap Suspended = {}
  BY DEF Placed
<1>4. Suspended' = {} /\ Distinct(top)' /\ live' = live \ {}
  BY <1>0, <1>1 DEF Suspended, Distinct
<1>5. Typed' /\ Only(t)
  BY <1>0, <1>1 DEF Typed, Only, ClearTop, Go, Places, Destroying
<1>6. Mine(t)' = Mine(t) \cup Suspended
  BY <1>0, <1>1, <1>2 DEF Mine, Runs
<1>7. /\ Elements(link[t]) \cap Elements(unwind[t]) = {}
      /\ current[t] \notin Elements(link[t])
  BY <1>0, <1>1, <1>2, <1>3 DEF Mine, Runs
<1>8. Local(t)'
  BY <1>0, <1>1, <1>2, <1>7 DEF Local, WithPeer, Destroying
<1>9. /\ Mine(t)' \cap (active' \cup Suspended') = {}
      /\ active' \cap Suspended' = {}
      /\ Mine(t)' \cup active' \cup Suspended'
           = (Mine(t) \cup active \cup Suspended) \ {}
  BY <1>1, <1>4, <1>6 DEF Placed
<1> QED
  BY <1>4, <1>5, <1>8, <1>9, Moves

\* and are destroyed, each once.
LEMMA ClearRefcntMoves ==
  ASSUME Placed, NEW t \in Thread, ClearRefcnt(t)
  PROVE  Placed'
<1>1. /\ Typed /\ Local(t) /\ pc[t] = "zero" /\ pc'[t] = "unwind"
      /\ \A u \in Thread \ {t} : pc'[u] = pc[u]
      /\ unwind' = [unwind EXCEPT ![t] = link[t] \o <<ChannelFrame>> \o @]
      /\ link' = [link EXCEPT ![t] = << >>]
      /\ UNCHANGED <<current, peer, live, active, top>>
  BY GoPlaces DEF ClearRefcnt, fibreVars, Placed, Typed
<1>2. PICK v : v = link[t]
  OBVIOUS
<1>3. /\ peer[t] = None /\ unwind[t] # << >> /\ FibresOnce(unwind[t])
      /\ Distinct(v) /\ None \notin Fibre /\ v \in Seq(Fibre)
      /\ unwind[t] \in Seq(Fibre \cup {ChannelFrame})
      /\ Elements(v) \cap Elements(unwind[t]) = {}
      /\ current[t] \notin Elements(v)
  BY <1>1, <1>2, ConcurrentAssumption DEF Local, WithPeer, Destroying, Typed
<1>4. Elements(v) \subseteq Fibre
  BY <1>3 DEF Elements
<1>6. unwind'[t] = v \o <<ChannelFrame>> \o unwind[t]
  BY <1>1, <1>2 DEF Typed
<1>7. /\ unwind'[t] \in Seq(Fibre \cup {ChannelFrame}) /\ unwind'[t] # << >>
      /\ Elements(unwind'[t]) = Elements(v) \cup {ChannelFrame} \cup Elements(unwind[t])
      /\ FibresOnce(unwind'[t])
  BY <1>3, <1>6, OnceConcat
<1>8. Suspended' = Suspended /\ Distinct(top)' /\ live' = live \ {}
  BY <1>1 DEF Suspended, Placed
<1>9. Typed' /\ Only(t)
  <2>1. pc' \in [Thread -> Places]
    BY <1>1 DEF Typed, ClearRefcnt, Go, Places, Destroying
  <2>2. unwind' \in [Thread -> Seq(Fibre \cup {ChannelFrame})]
    BY <1>1, <1>6, <1>7 DEF Typed
  <2>3. link' \in [Thread -> Seq(Fibre)]
    BY <1>1 DEF Typed
  <2> QED
    BY <1>1, <2>1, <2>2, <2>3 DEF Typed, Only
<1>10. ChannelFrame \notin Fibre
  BY ConcurrentAssumption DEF ChannelFrame
<1>11. Mine(t)' = Mine(t)
  BY <1>1, <1>2, <1>3, <1>4, <1>7, <1>10 DEF Mine, Runs
<1>12. Local(t)'
  <2>1. current[t] \in Fibre => current[t] \notin Elements(unwind'[t])
    BY <1>1, <1>3, <1>7, <1>10 DEF Local
  <2> QED
    BY <1>1, <1>3, <1>7, <2>1 DEF Local, WithPeer, Destroying
<1>13. /\ Mine(t)' \cap (active' \cup Suspended') = {}
       /\ active' \cap Suspended' = {}
       /\ Mine(t)' \cup active' \cup Suspended'
            = (Mine(t) \cup active \cup Suspended) \ {}
  BY <1>1, <1>8, <1>11 DEF Placed
<1> QED
  BY <1>8, <1>9, <1>12, <1>13, Moves

\* The innermost destructor returns.
LEMMA ReturnFacts ==
  ASSUME Placed, NEW t \in Thread, Unwinding(t), Return(t)
  PROVE  /\ unwind[t] # << >> /\ unwind'[t] = Tail(unwind[t])
         /\ pc[t] = "unwind" /\ pc'[t] \in {"unwind", "pop", "run"}
         /\ pc' \in [Thread -> Places]
         /\ unwind' \in [Thread -> Seq(Fibre \cup {ChannelFrame})]
         /\ \A u \in Thread \ {t} : pc'[u] = pc[u] /\ unwind'[u] = unwind[u]
         /\ pc'[t] = "unwind" <=> unwind'[t] # << >>
         /\ pc'[t] = "run" => current[t] \in Fibre
         /\ pc'[t] = "pop" => current[t] = None
         /\ Elements(unwind[t]) = Elements(unwind'[t]) \cup {Head(unwind[t])}
         /\ FibresOnce(unwind'[t])
         /\ Head(unwind[t]) \in Fibre => Head(unwind[t]) \notin Elements(unwind'[t])
<1>1. Typed /\ Local(t) /\ unwind[t] # << >>
  BY DEF Placed, Unwinding
<1>2. PICK v \in Seq(Fibre \cup {ChannelFrame}) : v = unwind[t]
  BY <1>1 DEF Typed
<1>3. /\ Head(v) \in Fibre \cup {ChannelFrame}
      /\ Tail(v) \in Seq(Fibre \cup {ChannelFrame})
      /\ Elements(v) = Elements(Tail(v)) \cup {Head(v)}
      /\ Head(v) = v[1] /\ 1 \in DOMAIN v
      /\ DOMAIN Tail(v) = 1..(Len(v) - 1)
      /\ \A i \in DOMAIN Tail(v) : i + 1 \in DOMAIN v /\ Tail(v)[i] = v[i + 1]
  BY <1>1, <1>2, PopElements, PopIndices
<1>4. FibresOnce(v)
  BY <1>1, <1>2 DEF Local
<1>5. FibresOnce(Tail(v))
  <2> SUFFICES ASSUME NEW i \in DOMAIN Tail(v), NEW j \in DOMAIN Tail(v),
                      Tail(v)[i] = Tail(v)[j], Tail(v)[i] \in Fibre
               PROVE  i = j
    BY DEF FibresOnce
  <2>1. i + 1 = j + 1
    BY <1>3, <1>4 DEF FibresOnce
  <2> QED
    BY <2>1, <1>3
<1>6. Head(v) \in Fibre => Head(v) \notin Elements(Tail(v))
  <2> SUFFICES ASSUME Head(v) \in Fibre, NEW i \in DOMAIN Tail(v),
                      Tail(v)[i] = Head(v)
               PROVE  FALSE
    BY DEF Elements
  <2>1. i + 1 = 1
    BY <1>3, <1>4 DEF FibresOnce
  <2> QED
    BY <2>1, <1>3
<1>7. /\ unwind'[t] = Tail(v)
      /\ unwind' \in [Thread -> Seq(Fibre \cup {ChannelFrame})]
      /\ \A u \in Thread \ {t} : unwind'[u] = unwind[u]
  BY <1>1, <1>2, <1>3 DEF Return, Typed
<1>8. PICK to \in {"unwind", "pop", "run"} :
        /\ Go(t, "unwind", to)
        /\ to = "unwind" <=> Tail(v) # << >>
        /\ to = "run" => current[t] # None
        /\ to = "pop" => current[t] = None
  BY <1>2 DEF Return
<1>9. /\ pc[t] = "unwind" /\ pc'[t] = to
      /\ pc' \in [Thread -> Places]
      /\ \A u \in Thread \ {t} : pc'[u] = pc[u]
  BY <1>1, <1>8 DEF Go, Typed, Places, Destroying
<1>10. to = "run" => current[t] \in Fibre
  BY <1>1, <1>8 DEF Typed
<1> QED
  BY <1>1, <1>2, <1>3, <1>5, <1>6, <1>7, <1>8, <1>9, <1>10

\* What is destroyed leaves the fibres of its thread.
LEMMA ReturnMoves ==
  ASSUME Placed, NEW t \in Thread, Unwinding(t), Return(t),
         UNCHANGED <<current, peer, link, active, top>>,
         live' = live \ {Head(unwind[t])}
  PROVE  Placed'
<1>1. PICK h : h = Head(unwind[t])
  OBVIOUS
<1>2. /\ Typed /\ Local(t)
      /\ unwind[t] # << >>
      /\ pc[t] = "unwind" /\ pc'[t] \in {"unwind", "pop", "run"}
      /\ pc' \in [Thread -> Places]
      /\ unwind' \in [Thread -> Seq(Fibre \cup {ChannelFrame})]
      /\ \A u \in Thread \ {t} : pc'[u] = pc[u] /\ unwind'[u] = unwind[u]
      /\ pc'[t] = "unwind" <=> unwind'[t] # << >>
      /\ pc'[t] = "run" => current[t] \in Fibre
      /\ pc'[t] = "pop" => current[t] = None
      /\ Elements(unwind[t]) = Elements(unwind'[t]) \cup {h}
      /\ FibresOnce(unwind'[t])
      /\ h \in Fibre => h \notin Elements(unwind'[t])
  BY <1>1, ReturnFacts DEF Placed
<1>3. /\ peer[t] = None /\ None \notin Fibre
      /\ current[t] \in Fibre => current[t] \notin Elements(unwind[t])
  BY <1>2, ConcurrentAssumption DEF Local, WithPeer
<1>4. PICK D : D = Fibre \cap {h}
  OBVIOUS
<1>5. D \subseteq Mine(t) /\ Mine(t)' = Mine(t) \ D
  BY <1>2, <1>3, <1>4 DEF Mine, Runs
<1>6. Suspended' = Suspended /\ Distinct(top)' /\ live' = live \ D
  BY <1>1, <1>2, <1>4 DEF Suspended, Placed, Typed
<1>7. Typed' /\ Only(t)
  BY <1>2, <1>6 DEF Typed, Only
<1>8. Local(t)'
  BY <1>2, <1>3 DEF Local, WithPeer, Destroying
<1>9. /\ Mine(t)' \cap (active' \cup Suspended') = {}
      /\ active' \cap Suspended' = {}
      /\ D \subseteq Mine(t) \cup active \cup Suspended
      /\ Mine(t)' \cup active' \cup Suspended'
           = (Mine(t) \cup active \cup Suspended) \ D
  BY <1>5, <1>6 DEF Placed
<1> QED
  BY <1>6, <1>7, <1>8, <1>9, Moves

\* Nothing moves.
LEMMA PlacedStutter ==
  ASSUME Placed, UNCHANGED <<threadVars, live, active, top>>
  PROVE  Placed'
BY DEF Placed, threadVars, Typed, Local, Mine, Runs, Suspended, Distinct

-----------------------------------------------------------------------------

LEMMA PlacedInit == Init => Placed
<1> SUFFICES ASSUME Init PROVE Placed
  OBVIOUS
<1>1. None \notin Fibre
  BY ConcurrentAssumption
<1>2. Typed
  BY DEF Init, Typed, Places
<1>3. Distinct(top) /\ Suspended = {}
  BY DEF Init, Distinct, Suspended
<1>4. ASSUME NEW t \in Thread PROVE Local(t) /\ Mine(t) = {}
  BY <1>1 DEF Init, Local, Mine, Runs, FibresOnce, Elements, WithPeer, Destroying
<1> QED
  BY <1>2, <1>3, <1>4 DEF Placed, Init

LEMMA PlacedStep ==
  ASSUME Placed, NEW t \in Thread, Step(t), ub' # "lost"
  PROVE  Placed'
<1>1. CASE FindWork(t)
  BY <1>1, FetchMoves DEF FindWork, channelVars
<1>2. CASE Transfer(t)
  <2>1. CASE \/ \E dir \in {"read", "write"} : Ask(t, dir)
             \/ Lock(t) \/ CountPeer(t) \/ Copy(t) \/ Check(t) \/ Subtract(t)
             \/ Match(t) \/ Push(t)
    BY <2>1, TransferStays
  <2>2. CASE Pop(t)
    BY <2>2, FetchMoves DEF Pop, channelVars
  <2> QED
    BY <1>2, <2>1, <2>2, UnlinkMoves, ResumeMoves, LinkMoves, StarveMoves DEF Transfer
<1>3. CASE Refer(t) \/ Spawn(t) \/ End(t)
  BY <1>3, ReferMoves, SpawnMoves, EndMoves
<1>4. CASE Destroy(t)
  <2>1. CASE FreeFibre(t)
    BY <2>1, ReturnMoves DEF FreeFibre, Dying, channelVars
  <2>2. CASE FreeChannel(t)
    <3>1. live' = live \ {Head(unwind[t])}
      BY <2>2, ConcurrentAssumption
         DEF FreeChannel, Dying, ChannelFrame, fibreVars, Placed, Typed
    <3> QED
      BY <2>2, <3>1, ReturnMoves DEF FreeChannel, fibreVars
  <2> QED
    BY <1>4, <2>1, <2>2, DestroyStays, ClearTopMoves, ClearRefcntMoves DEF Destroy
<1>5. CASE UseFreed(t)
  BY <1>5, PlacedStutter DEF UseFreed, fibreVars, channelVars
<1> QED
  BY <1>1, <1>2, <1>3, <1>4, <1>5 DEF Step

\* Two stores to top met: this is the last step, which moves fibres that
\* are not ready.
LEMMA LostStep ==
  ASSUME Placed, NEW t \in Thread, Step(t), ub # "lost", ub' = "lost"
  PROVE  /\ Typed' /\ UNCHANGED <<live, active, word, code>>
         /\ Unlink(t) \/ Link(t) \/ ClearTop(t)
<1>1. Unlink(t) \/ Link(t) \/ ClearTop(t)
  BY DEF Step, Transfer, Destroy, FindWork, Ask, Lock, CountPeer, Copy, Check, Subtract,
         Match, Push, Pop, Starve, Resume, Refer, Spawn, End, LoadReferences,
         ReloadReferences, DropReference, LoadRefcnt, LeaveChannel, DeleteChannel,
         ClearRefcnt, FreeFibre, FreeChannel, UseFreed
<1>2. Typed /\ Local(t)
  BY DEF Placed
<1>3. UNCHANGED <<live, active, word, code>>
  BY <1>1 DEF Unlink, Link, ClearTop, fibreVars
<1>4. CASE Unlink(t)
  <2>1. pc[t] = "unlink" /\ pc' = [pc EXCEPT ![t] = "count"]
    BY <1>4 DEF Unlink, Go
  <2>2. /\ link[t] # << >> /\ link[t] \in Seq(Fibre)
        /\ Head(link[t]) \in Fibre /\ Tail(link[t]) \in Seq(Fibre)
    BY <1>2, <2>1, PopElements DEF Local, Typed
  <2> QED
    BY <1>1, <1>2, <1>3, <1>4, <2>1, <2>2 DEF Unlink, StoreTop, Typed, Places, WithPeer
<1>5. CASE Link(t)
  <2>1. pc[t] = "link" /\ pc' = [pc EXCEPT ![t] = "pop"]
    BY <1>5 DEF Link, Go
  <2>2. <<current[t]>> \o link[t] \in Seq(Fibre)
    BY <1>2, <2>1, PushElements DEF Local, Destroying, Typed
  <2> QED
    BY <1>1, <1>2, <1>3, <1>5, <2>1, <2>2 DEF Link, StoreTop, Typed, Places
<1>6. CASE ClearTop(t)
  <2>1. pc[t] = "clear" /\ pc' = [pc EXCEPT ![t] = "zero"]
    BY <1>6 DEF ClearTop, Go
  <2> QED
    BY <1>1, <1>2, <1>3, <1>6, <2>1 DEF ClearTop, StoreTop, Typed, Places, Destroying
<1> QED
  BY <1>1, <1>4, <1>5, <1>6

\* Nobody steps after that.
LEMMA StepBeforeLost ==
  ASSUME NEW t \in Thread, Step(t)
  PROVE  ub # "lost"
<1>1. CASE UseFreed(t)
  BY <1>1 DEF UseFreed
<1>2. \A from, to : Go(t, from, to) => ub # "lost"
  BY DEF Go
<1>3. \A from, found, none : Fetch(t, from, found, none) => ub # "lost"
  BY <1>2 DEF Fetch
<1>4. CASE FindWork(t) \/ Transfer(t) \/ Refer(t) \/ Spawn(t) \/ End(t)
  BY <1>2, <1>3, <1>4
     DEF Transfer, FindWork, Ask, Lock, Match, Unlink, CountPeer, Copy, Resume, Check,
         Subtract, Push, Link, Pop, Starve, Refer, Spawn, End
<1>5. CASE Destroy(t)
  BY <1>2, <1>5
     DEF Destroy, LoadReferences, ReloadReferences, DropReference, LoadRefcnt,
         LeaveChannel, DeleteChannel, ClearTop, ClearRefcnt, FreeFibre, FreeChannel,
         Return
<1> QED
  BY <1>1, <1>4, <1>5 DEF Step

\* Each fibre has its place until two stores to top meet.
PlacedUntilLost ==
  /\ Typed
  /\ active \subseteq live
  /\ ub # "lost" => Placed

LEMMA PlacedNext ==
  ASSUME PlacedUntilLost, [Next]_vars
  PROVE  PlacedUntilLost'
<1>1. ASSUME NEW t \in Thread, Step(t) PROVE PlacedUntilLost'
  <2>1. ub # "lost"
    BY <1>1, StepBeforeLost
  <2>2. Placed
    BY <2>1 DEF PlacedUntilLost
  <2>3. CASE ub' = "lost"
    BY <1>1, <2>1, <2>2, <2>3, LostStep DEF PlacedUntilLost
  <2>4. CASE ub' # "lost"
    <3>1. Placed'
      BY <1>1, <2>2, <2>4, PlacedStep
    <3> QED
      BY <3>1 DEF PlacedUntilLost, Placed, Typed
  <2> QED
    BY <2>3, <2>4
<1>2. CASE UNCHANGED vars
  <2>1. Typed' /\ active' \subseteq live' /\ UNCHANGED ub
    BY <1>2 DEF PlacedUntilLost, Typed, vars, threadVars, fibreVars, channelVars
  <2>2. ub # "lost" => Placed'
    BY <1>2, PlacedStutter DEF PlacedUntilLost, vars, fibreVars, channelVars
  <2> QED
    BY <2>1, <2>2 DEF PlacedUntilLost
<1> QED
  BY <1>1, <1>2 DEF Next

LEMMA AtMostOne ==
  ASSUME NEW S, \A x, y \in S : x = y
  PROVE  IsFiniteSet(S) /\ Cardinality(S) = IF S = {} THEN 0 ELSE 1
<1>1. CASE S = {}
  BY <1>1, FS_EmptySet
<1>2. CASE S # {}
  <2>1. PICK x : S = {x}
    BY <1>2
  <2> QED
    BY <1>2, <2>1, FS_Singleton
<1> QED
  BY <1>1, <1>2

\* The places in which each fibre is, counted.
LEMMA PlacesAddUp ==
  ASSUME Placed, NEW f \in Fibre
  PROVE  Cardinality({t \in Thread : Runs(t, f)})
         + Cardinality({t \in Thread : peer[t] = f})
         + Cardinality({f} \cap active)
         + Cardinality({i \in DOMAIN top : top[i] = f})
         + Cardinality({t \in Thread : Destroys(t, f)})
           = IF f \in live THEN 1 ELSE 0
<1> DEFINE A == {t \in Thread : Runs(t, f)}
           B == {t \in Thread : peer[t] = f}
           C == {f} \cap active
           D == {i \in DOMAIN top : top[i] = f}
           E == {t \in Thread : Destroys(t, f)}
<1>1. \A t \in Thread : f \in Mine(t) <=> t \in A \cup B \cup E
  BY DEF Mine, Elements, Destroys
<1>2. \A t, u \in A \cup B \cup E : t = u
  BY <1>1 DEF Placed
<1>3. A \cap B = {} /\ A \cap E = {} /\ B \cap E = {}
  <2> SUFFICES ASSUME NEW t \in Thread
               PROVE  ~(t \in A /\ t \in B) /\ ~(t \in A /\ t \in E)
                      /\ ~(t \in B /\ t \in E)
    OBVIOUS
  <2>1. /\ Local(t) /\ f # None
        /\ t \in E => \/ f \in Elements(unwind[t])
                      \/ pc[t] = "zero" /\ f \in Elements(link[t])
    BY ConcurrentAssumption DEF Placed, Elements, Destroys
  <2>2. t \in E => unwind[t] # << >>
    BY <2>1 DEF Elements, Local, Destroying
  <2>3. t \in B => t \notin E
    BY <2>1, <2>2 DEF Local, WithPeer, Destroying
  <2>4. t \in A => t \notin B /\ t \notin E
    BY <2>1 DEF Local, Runs
  <2> QED
    BY <2>3, <2>4
<1>4. D # {} <=> f \in Suspended
  BY DEF Suspended
<1>5. \A i, j \in D : i = j
  BY DEF Placed, Distinct
<1>6. /\ f \in live <=> A # {} \/ B # {} \/ E # {} \/ C # {} \/ D # {}
      /\ A \cup B \cup E # {} => C = {} /\ D = {}
      /\ C = {} \/ D = {}
  BY <1>1, <1>4 DEF Placed
<1> HIDE DEF A, B, C, D, E
<1>7. /\ Cardinality(A) = IF A = {} THEN 0 ELSE 1
      /\ Cardinality(B) = IF B = {} THEN 0 ELSE 1
      /\ Cardinality(E) = IF E = {} THEN 0 ELSE 1
  <2>1. /\ \A t, u \in A : t = u
        /\ \A t, u \in B : t = u
        /\ \A t, u \in E : t = u
    BY <1>2
  <2> QED
    BY <2>1, AtMostOne
<1>8. /\ Cardinality(C) = IF C = {} THEN 0 ELSE 1
      /\ Cardinality(D) = IF D = {} THEN 0 ELSE 1
  <2>1. \A x, y \in C : x = y
    BY DEF C
  <2> QED
    BY <2>1, <1>5, AtMostOne
<1>9. (A = {} \/ B = {}) /\ (A = {} \/ E = {}) /\ (B = {} \/ E = {})
  BY <1>2, <1>3
<1>10. Cardinality(A) + Cardinality(B) + Cardinality(C) + Cardinality(D)
         + Cardinality(E) = IF f \in live THEN 1 ELSE 0
  BY <1>6, <1>7, <1>8, <1>9
<1> QED
  BY <1>10 DEF A, B, C, D, E

-----------------------------------------------------------------------------
(***************************************************************************)
(* The count, when no two fibres share an endpoint                         *)
(***************************************************************************)

Counting == At({"count"})

\* The equation: when the count is one nobody is suspended and nobody is about
\* to change it, but for the only user there is.
Exact ==
  /\ refcnt \in Nat
  /\ refcnt + Cardinality(Suspended) + Cardinality(Pushing) + Cardinality(Counting)
       = 1 + Cardinality(References)

\* Only in its destructor does a fibre lose its reference.
LivingRefer ==
  \A f \in live :
    epref[f] = None => \E t \in Thread : Unwinding(t) /\ Head(unwind[t]) = f

\* The reference is to the fibre's own endpoint, counted once.
OwnEndpoints ==
  /\ epref \in [Fibre -> Endpoint \cup {None}]
  /\ \A f \in Fibre : epref[f] \in {given[f], None}
  /\ LivingRefer
  /\ \A t \in Thread :
       pc[t] \in Destroying \ {"unwind"} => epref[Head(unwind[t])] # None
  /\ eprefcnt \in [Endpoint -> Nat]
  /\ \A f \in Fibre : eprefcnt[given[f]] = 1
  /\ dead \subseteq Endpoint /\ \A f \in Fibre : epref[f] \notin dead

\* Nobody deletes the channel, copies a reference, or finds one that is counted
\* twice; and who stores to top stores what it loaded.
NotReached == {"starved", "refer", "drop", "store", "delete", "clear", "zero"}

Kept ==
  /\ freed = FALSE /\ ub = "nothing"
  /\ \A t \in Thread : /\ pc[t] \notin NotReached
                       /\ ChannelFrame \notin Elements(unwind[t])
                       /\ pc[t] \in {"unlink", "link"} => link[t] = top

Unshared ==
  /\ given \in [Fibre -> Endpoint]
  /\ \A f, g \in Fibre : given[f] = given[g] => f = g

ConcurrentInv == Exclusion /\ Placed
OwnedInv == Unshared /\ OwnEndpoints /\ Exact /\ Kept

LEMMA FiniteParts ==
  ASSUME Placed
  PROVE  /\ IsFiniteSet(References) /\ Cardinality(References) \in Nat
         /\ IsFiniteSet(Suspended) /\ Cardinality(Suspended) \in Nat
         /\ Suspended \subseteq Fibre
         /\ \A places : /\ IsFiniteSet(At(places))
                        /\ Cardinality(At(places)) \in Nat
<1>1. Suspended \subseteq Fibre
  BY DEF Placed, Typed, Suspended
<1>2. References \subseteq Fibre /\ \A places : At(places) \subseteq Thread
  BY DEF References, At
<1> QED
  BY <1>1, <1>2, ConcurrentAssumption, FS_Subset, FS_CardinalityType

\* A fibre that exists and is not the one whose destructor is innermost in some
\* thread has its endpoint.
LEMMA LiveUsers ==
  ASSUME Placed, LivingRefer, NEW f \in Fibre, f \in live,
         \A t \in Thread : f \notin Elements(unwind[t])
  PROVE  f \in References
<1>1. ASSUME NEW t \in Thread, Unwinding(t) PROVE Head(unwind[t]) # f
  BY <1>1, PopElements DEF Unwinding, Placed, Typed
<1> QED
  BY <1>1 DEF LivingRefer, References

\* A thread's fibre has its endpoint, and is on no channel and with no other
\* thread, unless the thread is destroying it.
LEMMA MineUsers ==
  ASSUME Placed, LivingRefer, NEW t \in Thread, NEW f \in Mine(t),
         f \notin Elements(unwind[t])
  PROVE  f \in References /\ f \notin Suspended /\ f \in Fibre
<1>1. f \in Fibre /\ f \in live /\ f \notin Suspended
  BY DEF Placed, Mine
<1>2. \A u \in Thread \ {t} : f \notin Elements(unwind[u])
  BY DEF Placed, Mine
<1> QED
  BY <1>1, <1>2, LiveUsers

\* The count is at least two while anybody who is not suspended, nor about to
\* be, nor just taken from the channel has an endpoint.
LEMMA Enough ==
  ASSUME ConcurrentInv, OwnEndpoints, Exact, NEW g \in References, g \notin Suspended,
         \A u \in Thread : /\ pc[u] \in {"push", "link"} => current[u] # g
                           /\ pc[u] = "count" => peer[u] # g
  PROVE  refcnt \in Nat \ {0, 1}
<1>1. /\ Placed /\ Exclusion
      /\ IsFiniteSet(References) /\ Cardinality(References) \in Nat
      /\ IsFiniteSet(Suspended) /\ Cardinality(Suspended) \in Nat
      /\ Cardinality(Pushing) \in Nat /\ Cardinality(Counting) \in Nat
  BY FiniteParts DEF ConcurrentInv, Pushing, Counting
<1>2. Suspended \subseteq References
  <2> SUFFICES ASSUME NEW f \in Suspended PROVE f \in References
    OBVIOUS
  <2>1. f \in Fibre /\ f \in live /\ \A t \in Thread : f \notin Elements(unwind[t])
    BY <1>1 DEF Placed, Mine, Typed, Suspended
  <2> QED
    BY <1>1, <2>1, LiveUsers DEF OwnEndpoints
<1>3. PICK S : S = Suspended \cup {g}
  OBVIOUS
<1>4. /\ S \subseteq References /\ IsFiniteSet(S)
      /\ Cardinality(S) = Cardinality(Suspended) + 1
  BY <1>1, <1>2, <1>3, FS_AddElement
<1>5. CASE Pushing = {} /\ Counting = {}
  <2>1. Cardinality(Pushing) = 0 /\ Cardinality(Counting) = 0
    BY <1>5, FS_EmptySet
  <2>2. Cardinality(S) <= Cardinality(References)
    BY <1>1, <1>4, FS_Subset
  <2> QED
    BY <1>1, <1>4, <2>1, <2>2 DEF Exact
<1>6. CASE Pushing \cup Counting # {}
  <2>1. PICK u \in Thread : pc[u] \in {"push", "link", "count"}
    BY <1>6 DEF Pushing, Counting, At
  <2>2. \A v \in Thread : pc[v] \in {"push", "link", "count"} => v = u
    BY <1>1, <2>1 DEF Exclusion, InsidePlaces
  <2>3. Cardinality(Pushing) + Cardinality(Counting) = 1
    <3>1. CASE pc[u] \in {"push", "link"}
      <4>1. Pushing = {u} /\ Counting = {}
        BY <2>1, <2>2, <3>1 DEF Pushing, Counting, At
      <4>2. Cardinality({}) = 0 /\ Cardinality({u}) = 1
        BY FS_EmptySet, FS_Singleton
      <4>3. Cardinality(Pushing) = 1 /\ Cardinality(Counting) = 0
        BY <4>1, <4>2
      <4> QED
        BY <4>3
    <3>2. CASE pc[u] = "count"
      <4>1. Pushing = {} /\ Counting = {u}
        BY <2>1, <2>2, <3>2 DEF Pushing, Counting, At
      <4>2. Cardinality({}) = 0 /\ Cardinality({u}) = 1
        BY FS_EmptySet, FS_Singleton
      <4>3. Cardinality(Pushing) = 0 /\ Cardinality(Counting) = 1
        BY <4>1, <4>2
      <4> QED
        BY <4>3
    <3> QED
      BY <2>1, <3>1, <3>2
  <2>4. PICK h \in Mine(u) : h # g /\ h \notin Elements(unwind[u])
    <3>1. Local(u) /\ Typed
      BY <1>1 DEF Placed
    <3>2. unwind[u] = << >>
      BY <2>1, <3>1 DEF Local, Destroying
    <3>3. CASE pc[u] \in {"push", "link"}
      <4>1. current[u] \in Fibre /\ current[u] # g
        BY <3>1, <3>3 DEF Local, Destroying
      <4>2. current[u] \in Mine(u)
        BY <3>3, <4>1 DEF Mine, Runs
      <4> QED
        BY <3>2, <4>1, <4>2 DEF Elements
    <3>4. CASE pc[u] = "count"
      <4>1. peer[u] \in Fibre /\ peer[u] # g
        BY <3>1, <3>4 DEF Local, WithPeer, Typed
      <4>2. peer[u] \in Mine(u)
        BY <4>1 DEF Mine
      <4> QED
        BY <3>2, <4>1, <4>2 DEF Elements
    <3> QED
      BY <2>1, <3>3, <3>4
  <2>5. h \in References /\ h \notin Suspended
    BY <1>1, <2>4, MineUsers DEF OwnEndpoints
  <2>6. /\ S \cup {h} \subseteq References
        /\ IsFiniteSet(S \cup {h})
        /\ Cardinality(S \cup {h}) = Cardinality(Suspended) + 2
    <3>1. h \notin S
      BY <1>3, <2>4, <2>5
    <3>2. /\ IsFiniteSet(S \cup {h})
          /\ Cardinality(S \cup {h}) = Cardinality(S) + 1
      BY <1>4, <3>1, FS_AddElement
    <3> QED
      BY <1>1, <1>4, <2>5, <3>2
  <2>7. Cardinality(S \cup {h}) <= Cardinality(References)
    BY <1>1, <2>6, FS_Subset
  <2> QED
    BY <1>1, <2>3, <2>6, <2>7 DEF Exact
<1> QED
  BY <1>5, <1>6

\* So it is while a fibre of a thread is neither: it makes a request, or loses
\* its endpoint.
LEMMA EnoughFor ==
  ASSUME ConcurrentInv, OwnEndpoints, Exact, NEW t \in Thread, NEW g \in References,
         g \in Mine(t), pc[t] \notin {"push", "link", "count"}
  PROVE  refcnt \in Nat \ {0, 1}
<1>1. Placed /\ g \notin Suspended /\ g \in Fibre
  BY DEF ConcurrentInv, Placed, References
<1>2. ASSUME NEW u \in Thread
      PROVE  /\ pc[u] \in {"push", "link"} => current[u] # g
             /\ pc[u] = "count" => peer[u] # g
  <2>1. CASE u = t
    BY <2>1
  <2>2. CASE u # t
    <3>1. g \notin Mine(u)
      BY <1>1, <2>2 DEF Placed
    <3> QED
      BY <1>1, <3>1 DEF Mine, Runs
  <2> QED
    BY <2>1, <2>2
<1> QED
  BY <1>1, <1>2, Enough

\* A step that changes no reference, and at which fibres leave only from the
\* innermost destructor.
LEMMA LivingKept ==
  ASSUME LivingRefer, NEW t \in Thread, Only(t), UNCHANGED epref, live' \subseteq live,
         Unwinding(t) /\ Head(unwind[t]) \in live' => epref[Head(unwind[t])] # None
  PROVE  LivingRefer'
<1> SUFFICES ASSUME NEW f \in live', epref'[f] = None
             PROVE  \E u \in Thread : Unwinding(u)' /\ Head(unwind'[u]) = f
  BY DEF LivingRefer
<1>1. PICK u \in Thread : Unwinding(u) /\ Head(unwind[u]) = f
  BY DEF LivingRefer
<1>2. u # t
  BY <1>1
<1> QED
  BY <1>1, <1>2 DEF Unwinding, Only

\* The reference of the innermost destructor goes.
LEMMA LivingLess ==
  ASSUME LivingRefer, NEW t \in Thread, Only(t), NEW h \in Fibre,
         unwind[t] # << >>, h = Head(unwind[t]), pc'[t] = "unwind",
         live \subseteq Fibre, epref \in [Fibre -> Endpoint \cup {None}],
         epref' = [epref EXCEPT ![h] = None], UNCHANGED <<unwind, live>>
  PROVE  LivingRefer'
<1> SUFFICES ASSUME NEW f \in live', epref'[f] = None
             PROVE  \E u \in Thread : Unwinding(u)' /\ Head(unwind'[u]) = f
  BY DEF LivingRefer
<1>1. CASE f = h
  BY <1>1 DEF Unwinding
<1>2. CASE f # h
  <2>1. PICK u \in Thread : Unwinding(u) /\ Head(unwind[u]) = f
    BY <1>2 DEF LivingRefer
  <2>2. u # t
    BY <1>2, <2>1
  <2> QED
    BY <2>1, <2>2 DEF Unwinding, Only
<1> QED
  BY <1>1, <1>2

\* When a step changes no endpoint, each fibre has what it had.
LEMMA SameEndpoints ==
  ASSUME Placed, OwnEndpoints, NEW t \in Thread, Only(t),
         UNCHANGED <<given, epref, eprefcnt, dead>>, live' \subseteq live,
         Unwinding(t) /\ Head(unwind[t]) \in live' => epref[Head(unwind[t])] # None,
         pc'[t] \in Destroying \ {"unwind"} => epref[Head(unwind'[t])] # None
  PROVE  OwnEndpoints'
<1>1. LivingRefer'
  BY LivingKept DEF OwnEndpoints
<1>2. ASSUME NEW u \in Thread, pc'[u] \in Destroying \ {"unwind"}
      PROVE  epref'[Head(unwind'[u])] # None
  BY <1>2 DEF OwnEndpoints, Only
<1> QED
  BY <1>1, <1>2 DEF OwnEndpoints

\* The endpoint of the fibre whose destructor is innermost goes.
LEMMA LoseEndpoint ==
  ASSUME Placed, OwnEndpoints, Unshared, NEW t \in Thread, Only(t), NEW h \in Fibre,
         h = Head(unwind[t]), pc[t] \in Destroying, pc'[t] = "unwind",
         epref[h] # None, dead' = dead \cup {epref[h]},
         UNCHANGED <<given, eprefcnt, unwind, live>>,
         epref' = [epref EXCEPT ![h] = None]
  PROVE  OwnEndpoints'
<1>1. unwind[t] # << >> /\ h \in Mine(t) /\ Typed
  <2>1. unwind[t] # << >> /\ Typed
    BY DEF Placed, Local
  <2>2. h \in Elements(unwind[t])
    BY <2>1, PopElements DEF Typed
  <2> QED
    BY <2>1, <2>2 DEF Mine
<1>2. /\ epref'[h] = None /\ \A f \in Fibre \ {h} : epref'[f] = epref[f]
      /\ epref' \in [Fibre -> Endpoint \cup {None}]
  BY DEF OwnEndpoints
<1>3. LivingRefer'
  BY <1>1, LivingLess DEF OwnEndpoints, Typed
<1>4. ASSUME NEW u \in Thread, pc'[u] \in Destroying \ {"unwind"}
      PROVE  epref'[Head(unwind'[u])] # None
  <2>1. u # t /\ pc[u] \in Destroying \ {"unwind"}
    BY <1>4 DEF Only
  <2>2. Local(u) /\ Head(unwind[u]) \in Fibre /\ unwind[u] # << >>
    BY <2>1 DEF Placed, Local
  <2>3. Head(unwind[u]) \in Mine(u)
    <3>1. Head(unwind[u]) \in Elements(unwind[u])
      BY <1>1, <2>2, PopElements DEF Typed
    <3> QED
      BY <2>2, <3>1 DEF Mine
  <2>4. Head(unwind[u]) # h
    BY <1>1, <2>1, <2>3 DEF Placed
  <2> QED
    BY <1>2, <2>1, <2>2, <2>4 DEF OwnEndpoints
<1>5. ASSUME NEW f \in Fibre PROVE epref'[f] \notin dead'
  <2>1. None \notin dead /\ epref[h] = given[h] /\ given[h] # None
    BY <1>2, ConcurrentAssumption DEF OwnEndpoints, Unshared
  <2>2. CASE f = h
    BY <1>2, <2>1, <2>2
  <2>3. CASE f # h
    <3>1. epref'[f] = epref[f] /\ epref[f] \notin dead /\ epref[f] \in {given[f], None}
      BY <1>2, <2>3 DEF OwnEndpoints
    <3>2. given[f] # given[h]
      BY <2>3 DEF Unshared
    <3> QED
      BY <2>1, <3>1, <3>2
  <2> QED
    BY <2>2, <2>3
<1>6. dead' \subseteq Endpoint
  BY DEF OwnEndpoints
<1> QED
  BY <1>2, <1>3, <1>4, <1>5, <1>6 DEF OwnEndpoints

\* The threads at some places, when t goes from one place to another.
LEMMA AtMoves ==
  ASSUME Placed, NEW t \in Thread, NEW P,
         \A u \in Thread \ {t} : pc'[u] = pc[u]
  PROVE  Cardinality(At(P))'
           = IF pc[t] \in P
             THEN IF pc'[t] \in P THEN Cardinality(At(P)) ELSE Cardinality(At(P)) - 1
             ELSE IF pc'[t] \in P THEN Cardinality(At(P)) + 1 ELSE Cardinality(At(P))
<1>1. IsFiniteSet(At(P)) /\ Cardinality(At(P)) \in Nat
  BY FiniteParts
<1>2. \A u \in Thread : u \in At(P) <=> pc[u] \in P
  BY DEF At
<1>3. \A u \in Thread : u \in At(P)' <=> pc'[u] \in P
  BY DEF At
<1>4. At(P) \subseteq Thread /\ At(P)' \subseteq Thread
  BY DEF At
<1>5. CASE pc[t] \in P /\ pc'[t] \notin P
  <2>1. At(P)' = At(P) \ {t} /\ t \in At(P)
    BY <1>2, <1>3, <1>4, <1>5
  <2> QED
    BY <1>1, <1>5, <2>1, FS_RemoveElement
<1>6. CASE pc[t] \notin P /\ pc'[t] \in P
  <2>1. At(P)' = At(P) \cup {t} /\ t \notin At(P)
    BY <1>2, <1>3, <1>4, <1>6
  <2> QED
    BY <1>1, <1>6, <2>1, FS_AddElement
<1>7. CASE pc[t] \in P <=> pc'[t] \in P
  <2>1. At(P)' = At(P)
    BY <1>2, <1>3, <1>4, <1>7
  <2> QED
    BY <1>7, <2>1
<1> QED
  BY <1>5, <1>6, <1>7

LEMMA CountsMove ==
  ASSUME Placed, NEW t \in Thread,
         \A u \in Thread \ {t} : pc'[u] = pc[u]
  PROVE  /\ Cardinality(Pushing) \in Nat /\ Cardinality(Counting) \in Nat
         /\ Cardinality(Pushing)'
              = IF pc[t] \in {"push", "link"}
                THEN IF pc'[t] \in {"push", "link"}
                     THEN Cardinality(Pushing) ELSE Cardinality(Pushing) - 1
                ELSE IF pc'[t] \in {"push", "link"}
                     THEN Cardinality(Pushing) + 1 ELSE Cardinality(Pushing)
         /\ Cardinality(Counting)'
              = IF pc[t] \in {"count"}
                THEN IF pc'[t] \in {"count"}
                     THEN Cardinality(Counting) ELSE Cardinality(Counting) - 1
                ELSE IF pc'[t] \in {"count"}
                     THEN Cardinality(Counting) + 1 ELSE Cardinality(Counting)
<1>1. Cardinality(Pushing) \in Nat /\ Cardinality(Counting) \in Nat
  BY FiniteParts DEF Pushing, Counting
<1> QED
  BY <1>1, AtMoves DEF Pushing, Counting

LEMMA KeptBy ==
  ASSUME Exclusion, Kept, NEW t \in Thread, Only(t), UNCHANGED <<freed, ub>>,
         pc'[t] \notin NotReached, ChannelFrame \notin Elements(unwind'[t]),
         UNCHANGED top \/ pc[t] \in InsidePlaces,
         pc'[t] \in {"unlink", "link"} => link'[t] = top'
  PROVE  Kept'
<1>1. ASSUME NEW u \in Thread
      PROVE  /\ pc'[u] \notin NotReached
             /\ ChannelFrame \notin Elements(unwind'[u])
             /\ pc'[u] \in {"unlink", "link"} => link'[u] = top'
  <2>1. CASE u = t
    BY <2>1
  <2>2. CASE u # t
    <3>1. /\ pc'[u] = pc[u] /\ unwind'[u] = unwind[u] /\ link'[u] = link[u]
      BY <2>2 DEF Only
    <3>2. pc[u] \in {"unlink", "link"} => top' = top
      BY <2>2 DEF Exclusion, InsidePlaces
    <3> QED
      BY <3>1, <3>2 DEF Kept
  <2> QED
    BY <2>1, <2>2
<1> QED
  BY <1>1 DEF Kept, Elements

\* A step that neither counts nor suspends, and at which no endpoint goes.
LEMMA QuietStep ==
  ASSUME ConcurrentInv, OwnedInv, NEW t \in Thread, Only(t),
         UNCHANGED <<given, epref, eprefcnt, dead, refcnt, top, freed, ub>>, live' \subseteq live,
         Unwinding(t) /\ Head(unwind[t]) \in live' => epref[Head(unwind[t])] # None,
         pc'[t] \in Destroying \ {"unwind"} => epref[Head(unwind'[t])] # None,
         pc[t] \in {"push", "link"} <=> pc'[t] \in {"push", "link"},
         pc[t] # "count", pc'[t] # "count",
         pc'[t] \notin NotReached,
         pc'[t] \in {"unlink", "link"} => link'[t] = top,
         ChannelFrame \notin Elements(unwind'[t])
  PROVE  OwnedInv'
<1>1. OwnEndpoints' /\ Kept'
  BY SameEndpoints, KeptBy DEF OwnedInv, ConcurrentInv
<1>2. /\ Cardinality(Pushing)' = Cardinality(Pushing)
      /\ Cardinality(Counting)' = Cardinality(Counting)
  <2>1. Placed /\ \A u \in Thread \ {t} : pc'[u] = pc[u]
    BY DEF ConcurrentInv, Only
  <2> QED
    BY <2>1, CountsMove
<1>3. Suspended' = Suspended /\ References' = References
  BY DEF Suspended, References
<1>4. Exact'
  BY <1>2, <1>3 DEF Exact, OwnedInv
<1>5. Unshared'
  BY DEF Unshared, OwnedInv
<1> QED
  BY <1>1, <1>4, <1>5 DEF OwnedInv

\* Steps at places where a thread destroys nothing, and goes to none.
LEMMA QuietTransfer ==
  ASSUME ConcurrentInv, OwnedInv, NEW t \in Thread,
         \/ FindWork(t) \/ \E dir \in {"read", "write"} : Ask(t, dir)
         \/ Lock(t) \/ Match(t) \/ Copy(t) \/ Resume(t) \/ Check(t) \/ Push(t) \/ Pop(t),
         UNCHANGED given
  PROVE  OwnedInv'
<1>1. Typed /\ Local(t) /\ Kept
  BY DEF ConcurrentInv, OwnedInv, Placed
<1>2. /\ UNCHANGED <<unwind, live, epref, eprefcnt, dead, refcnt, freed, ub, top>>
      /\ \A u \in Thread \ {t} :
           current'[u] = current[u] /\ peer'[u] = peer[u] /\ link'[u] = link[u]
  BY <1>1 DEF FindWork, Ask, Lock, Copy, Resume, Check, Push, Pop, Match, Fetch, fibreVars,
              channelVars, endpointVars, Typed
<1>3. PICK from \in {"idle", "run", "lock", "match", "copy", "resume", "check", "push", "pop"},
           to \in {"idle", "run", "lock", "match", "unlink", "check", "resume", "subtract",
                   "link", "starved"} :
        /\ Go(t, from, to) /\ (to = "starved" => Check(t) /\ refcnt = 1)
        /\ from = "push" <=> to = "link"
        /\ to \in {"unlink", "link"} => link' = [link EXCEPT ![t] = top]
  <2>1. CASE Check(t)
    BY <2>1 DEF Check
  <2>2. CASE FindWork(t) \/ Pop(t)
    BY <2>2, FetchPlaces DEF FindWork, Pop
  <2>3. CASE \/ \E dir \in {"read", "write"} : Ask(t, dir)
             \/ Lock(t) \/ Copy(t) \/ Resume(t)
    BY <2>3 DEF Ask, Lock, Copy, Resume
  <2>4. CASE Match(t) \/ Push(t)
    BY <2>4 DEF Match, Push
  <2> QED
    BY <2>1, <2>2, <2>3, <2>4
<1>4. /\ pc[t] = from /\ pc'[t] = to
      /\ \A u \in Thread \ {t} : pc'[u] = pc[u]
      /\ to \in {"unlink", "link"} => link'[t] = top
  BY <1>1, <1>3, GoPlaces DEF Typed
<1>5. unwind[t] = << >>
  BY <1>1, <1>4 DEF Local, Destroying
<1>6. to # "starved"
  <2> SUFFICES ASSUME to = "starved" PROVE FALSE
    OBVIOUS
  <2>1. pc[t] = "check" /\ refcnt = 1
    BY <1>1, <1>3, GoPlaces DEF Check, Typed, Go
  <2>2. current[t] \in Mine(t)
    BY <1>1, <2>1 DEF Local, Destroying, Mine, Runs
  <2>3. current[t] \in References
    BY <1>5, <2>2, MineUsers DEF ConcurrentInv, OwnedInv, OwnEndpoints, Elements
  <2>4. refcnt \in Nat \ {0, 1}
    BY <2>1, <2>2, <2>3, EnoughFor DEF OwnedInv
  <2> QED
    BY <2>1, <2>4
<1>7. /\ pc'[t] \notin NotReached \cup Destroying
      /\ pc[t] # "count" /\ pc'[t] # "count"
  BY <1>4, <1>6 DEF NotReached, Destroying
<1>8. Only(t) /\ ~Unwinding(t) /\ ChannelFrame \notin Elements(unwind'[t])
  BY <1>2, <1>4, <1>5 DEF Only, Unwinding, Elements
<1>9. pc[t] \in {"push", "link"} <=> pc'[t] \in {"push", "link"}
  BY <1>3, <1>4
<1> QED
  BY <1>2, <1>4, <1>7, <1>8, <1>9, QuietStep

\* While nothing is shared, no fibre has nobody left to wait for, and no
\* endpoint is the last that could have answered.
LEMMA Impossible ==
  ASSUME ConcurrentInv, OwnedInv, NEW t \in Thread
  PROVE  /\ ~Starve(t) /\ ~Refer(t) /\ ~Spawn(t)
         /\ ~ReloadReferences(t) /\ ~DropReference(t)
         /\ ~DeleteChannel(t) /\ ~ClearTop(t) /\ ~ClearRefcnt(t) /\ ~FreeChannel(t)
         /\ ~UseFreed(t)
<1>1. Typed /\ Kept /\ Local(t) /\ OwnEndpoints /\ Unshared
  BY DEF ConcurrentInv, OwnedInv, Placed
<1>2. pc[t] \notin NotReached
  BY <1>1 DEF Kept
<1>3. \A from, to : Go(t, from, to) => from \notin NotReached
  BY <1>1, <1>2, GoPlaces DEF Typed
<1>4. ~Starve(t)
  BY <1>3, FetchPlaces DEF Starve, NotReached
<1>5. ~Refer(t)
  BY <1>1, ConcurrentAssumption DEF Refer, Unshared
<1>6. ~Spawn(t) /\ ~ReloadReferences(t) /\ ~DropReference(t)
  BY <1>3 DEF Spawn, ReloadReferences, DropReference, NotReached
<1>7. ~DeleteChannel(t) /\ ~ClearTop(t) /\ ~ClearRefcnt(t)
  BY <1>3 DEF DeleteChannel, ClearTop, ClearRefcnt, NotReached
<1>8. unwind[t] # << >> => Head(unwind[t]) # ChannelFrame /\ Head(unwind[t]) \in Fibre
  <2> SUFFICES ASSUME unwind[t] # << >>
               PROVE  Head(unwind[t]) # ChannelFrame /\ Head(unwind[t]) \in Fibre
    OBVIOUS
  <2>1. Head(unwind[t]) \in Elements(unwind[t]) /\ Head(unwind[t]) \in Fibre \cup {ChannelFrame}
    BY <1>1, PopElements DEF Typed
  <2> QED
    BY <1>1, <2>1 DEF Kept
<1>9. ~FreeChannel(t)
  BY <1>8 DEF FreeChannel, Unwinding, Dying
<1>10. ~Stale(t)
  <2>1. pc[t] \in {"run", "refer"} => current[t] \in Fibre
    BY <1>1 DEF Local, Destroying
  <2> QED
    BY <1>1, <1>8, <2>1 DEF Stale, Dying, Kept, OwnEndpoints
<1>11. ~UseFreed(t)
  BY <1>10 DEF UseFreed
<1> QED
  BY <1>4, <1>5, <1>6, <1>7, <1>9, <1>11

\* The steps of a destructor at which the count and the endpoints stay.
LEMMA QuietDestroy ==
  ASSUME ConcurrentInv, OwnedInv, NEW t \in Thread,
         End(t) \/ LoadReferences(t) \/ LoadRefcnt(t) \/ FreeFibre(t),
         UNCHANGED given
  PROVE  OwnedInv'
<1>1. /\ Placed /\ Typed /\ Local(t) /\ Kept /\ OwnEndpoints /\ Exact
      /\ ChannelFrame \notin Elements(unwind[t])
  BY DEF ConcurrentInv, OwnedInv, Placed, OwnEndpoints, Kept
<1>2. CASE End(t)
  <2>1. /\ pc[t] = "run" /\ pc'[t] = "unwind"
        /\ \A u \in Thread \ {t} : pc'[u] = pc[u]
        /\ unwind' = [unwind EXCEPT ![t] = <<current[t]>>]
        /\ current' = [current EXCEPT ![t] = None]
        /\ UNCHANGED <<peer, link, live, top, refcnt, freed, epref, eprefcnt, dead, ub>>
    BY <1>1, <1>2, GoPlaces DEF End, fibreVars, channelVars, endpointVars, Typed
  <2>2. ChannelFrame \notin Elements(unwind'[t])
    <3>1. current[t] \in Fibre /\ unwind'[t] = <<current[t]>>
      BY <1>1, <2>1 DEF Local, Typed, Destroying
    <3> QED
      BY <3>1, ConcurrentAssumption DEF ChannelFrame, Elements
  <2>3. Only(t)
    BY <1>1, <2>1 DEF Only, Typed
  <2> QED
    BY <1>1, <2>1, <2>2, <2>3, QuietStep DEF Unwinding, Destroying, NotReached
<1>3. CASE LoadReferences(t)
  <2>1. /\ epref[Head(unwind[t])] # None /\ unwind[t] # << >>
        /\ Head(unwind[t]) # ChannelFrame
    BY <1>3 DEF LoadReferences, Unwinding, Dying
  <2>2. Head(unwind[t]) \in Fibre
    BY <1>1, <2>1, PopElements DEF Typed
  <2>3. eprefcnt[epref[Head(unwind[t])]] = 1
    BY <1>1, <2>1, <2>2 DEF OwnEndpoints
  <2>4. /\ Go(t, "unwind", "endpoint")
        /\ UNCHANGED <<current, peer, link, unwind, live, top, refcnt, freed, epref,
                       eprefcnt, dead, ub>>
    BY <1>3, <2>3 DEF LoadReferences, Dying, fibreVars, channelVars, endpointVars
  <2>5. /\ pc[t] = "unwind" /\ pc'[t] = "endpoint"
        /\ \A u \in Thread \ {t} : pc'[u] = pc[u]
    BY <1>1, <2>4, GoPlaces DEF Typed
  <2>6. Only(t)
    BY <2>4, <2>5 DEF Only
  <2> QED
    BY <1>1, <2>1, <2>4, <2>5, <2>6, QuietStep DEF NotReached
<1>5. CASE LoadRefcnt(t)
  <2>1. /\ pc[t] = "endpoint"
        /\ UNCHANGED <<current, peer, link, unwind, live, top, refcnt, freed, ub>>
    BY <1>1, <1>5, GoPlaces DEF LoadRefcnt, fibreVars, channelVars, Typed
  <2>2. PICK h \in Fibre : h = Head(unwind[t])
    BY <1>1, <2>1 DEF Local, Destroying
  <2>3. h \in References /\ h \in Mine(t)
    <3>1. unwind[t] # << >>
      BY <1>1, <2>1 DEF Local, Destroying
    <3>2. h \in Elements(unwind[t])
      BY <1>1, <2>2, <3>1, PopElements DEF Typed
    <3> QED
      BY <1>1, <2>1, <2>2, <3>2 DEF OwnEndpoints, References, Mine, Destroying
  <2>4. refcnt \in Nat \ {0, 1}
    BY <1>1, <2>1, <2>3, EnoughFor
  <2>5. Go(t, "endpoint", "leave") /\ UNCHANGED <<epref, eprefcnt, dead>>
    BY <1>5, <2>4 DEF LoadRefcnt, endpointVars
  <2>6. pc'[t] = "leave" /\ \A u \in Thread \ {t} : pc'[u] = pc[u]
    BY <1>1, <2>5, GoPlaces DEF Typed
  <2>7. Only(t)
    BY <2>1, <2>6 DEF Only
  <2>8. epref[Head(unwind'[t])] # None
    BY <2>1, <2>2, <2>3 DEF References
  <2> QED
    BY <1>1, <2>1, <2>5, <2>6, <2>7, <2>8, QuietStep DEF Unwinding, NotReached
<1>6. CASE FreeFibre(t)
  <2>1. /\ Unwinding(t) /\ Return(t) /\ live' = live \ {Head(unwind[t])}
        /\ UNCHANGED <<current, peer, link, top, refcnt, freed, epref, eprefcnt, dead, ub>>
    BY <1>6 DEF FreeFibre, Dying, channelVars, endpointVars
  <2>2. /\ pc[t] = "unwind" /\ pc'[t] \in {"unwind", "pop", "run"}
        /\ \A u \in Thread \ {t} : pc'[u] = pc[u] /\ unwind'[u] = unwind[u]
        /\ Elements(unwind[t]) = Elements(unwind'[t]) \cup {Head(unwind[t])}
    BY <1>1, <2>1, ReturnFacts
  <2>3. Only(t) /\ ChannelFrame \notin Elements(unwind'[t])
    BY <1>1, <2>1, <2>2 DEF Only
  <2> QED
    BY <1>1, <2>1, <2>2, <2>3, QuietStep DEF Destroying, NotReached
<1> QED
  BY <1>2, <1>3, <1>5, <1>6

\* A step of read or write that keeps the equation.
LEMMA CountingStep ==
  ASSUME ConcurrentInv, OwnedInv, NEW t \in Thread, Only(t),
         UNCHANGED <<given, unwind, live, epref, eprefcnt, dead, freed, ub>>,
         pc[t] \in InsidePlaces, pc'[t] \in {"count", "copy", "push", "pop"},
         Exact'
  PROVE  OwnedInv'
<1>1. ChannelFrame \notin Elements(unwind'[t])
  BY DEF OwnedInv, Kept, Elements
<1>2. /\ pc[t] \notin Destroying
      /\ pc'[t] \notin Destroying \cup NotReached \cup {"unlink", "link"}
  BY DEF InsidePlaces, Destroying, NotReached
<1>3. OwnEndpoints' /\ Kept'
  BY <1>1, <1>2, SameEndpoints, KeptBy
     DEF OwnedInv, ConcurrentInv, Unwinding, Destroying
<1>4. Unshared'
  BY DEF Unshared, OwnedInv
<1> QED
  BY <1>3, <1>4 DEF OwnedInv

\* Who stores to top has loaded it, and nobody stored since.
LEMMA OwnedStore ==
  ASSUME Kept, NEW t \in Thread, pc[t] \in {"unlink", "link"}, NEW list, StoreTop(t, list)
  PROVE  top' = list /\ link[t] = top /\ UNCHANGED ub
BY DEF Kept, StoreTop

\* A peer leaves the channel, and its thread will count it.
LEMMA UnlinkCounts ==
  ASSUME ConcurrentInv, OwnedInv, NEW t \in Thread, Unlink(t), UNCHANGED given
  PROVE  OwnedInv'
<1>1. /\ Placed /\ Typed /\ Exact /\ Kept /\ Local(t)
  BY DEF ConcurrentInv, OwnedInv, Placed
<1>2. /\ pc[t] = "unlink" /\ pc'[t] = "count"
      /\ \A u \in Thread \ {t} : pc'[u] = pc[u]
      /\ peer' = [peer EXCEPT ![t] = Head(link[t])]
      /\ link' = [link EXCEPT ![t] = << >>]
      /\ StoreTop(t, Tail(link[t]))
      /\ UNCHANGED <<current, unwind, live, refcnt, freed, epref, eprefcnt, dead>>
  BY <1>1, GoPlaces DEF Unlink, fibreVars, endpointVars, Typed
<1>0. top # << >> /\ top' = Tail(top) /\ UNCHANGED ub
  BY <1>1, <1>2, OwnedStore DEF Local
<1>3. /\ Elements(top) = Elements(Tail(top)) \cup {Head(top)}
      /\ Head(top) \notin Elements(Tail(top))
  BY <1>0, <1>1, PopElements DEF Placed, Typed
<1>4. Suspended' = Suspended \ {Head(top)} /\ Head(top) \in Suspended
  BY <1>0, <1>3 DEF Suspended, Elements
<1>5. IsFiniteSet(Suspended) /\ Cardinality(Suspended) \in Nat
  BY <1>1, FiniteParts
<1>6. Cardinality(Suspended)' = Cardinality(Suspended) - 1
  BY <1>4, <1>5, FS_RemoveElement
<1>7. /\ Cardinality(Pushing) \in Nat /\ Cardinality(Counting) \in Nat
      /\ Cardinality(Pushing)' = Cardinality(Pushing)
      /\ Cardinality(Counting)' = Cardinality(Counting) + 1
  BY <1>1, <1>2, CountsMove
<1>8. References' = References
  BY <1>2 DEF References
<1>9. Exact'
  BY <1>1, <1>2, <1>5, <1>6, <1>7, <1>8 DEF Exact
<1> QED
  BY <1>0, <1>2, <1>9, CountingStep DEF Only, InsidePlaces, Typed

\* It counts it.
LEMMA CountCounts ==
  ASSUME ConcurrentInv, OwnedInv, NEW t \in Thread, CountPeer(t), UNCHANGED given
  PROVE  OwnedInv'
<1>1. /\ Placed /\ Typed /\ Exact
  BY DEF ConcurrentInv, OwnedInv, Placed
<1>2. /\ pc[t] = "count" /\ pc'[t] = "copy" /\ refcnt' = refcnt + 1
      /\ \A u \in Thread \ {t} : pc'[u] = pc[u]
      /\ UNCHANGED <<current, peer, link, unwind, live, top, freed, epref, eprefcnt, dead, ub>>
  BY <1>1, GoPlaces DEF CountPeer, fibreVars, endpointVars, Typed
<1>3. /\ Cardinality(Pushing) \in Nat /\ Cardinality(Counting) \in Nat
      /\ Cardinality(Pushing)' = Cardinality(Pushing)
      /\ Cardinality(Counting)' = Cardinality(Counting) - 1
  BY <1>1, <1>2, CountsMove
<1>4. Suspended' = Suspended /\ References' = References /\ Cardinality(Suspended) \in Nat
  BY <1>1, <1>2, FiniteParts DEF Suspended, References
<1>5. Exact'
  BY <1>1, <1>2, <1>3, <1>4 DEF Exact
<1> QED
  BY <1>2, <1>5, CountingStep DEF Only, InsidePlaces

\* The thread that will suspend its fibre counts it no more.
LEMMA SubtractCounts ==
  ASSUME ConcurrentInv, OwnedInv, NEW t \in Thread, Subtract(t), UNCHANGED given
  PROVE  OwnedInv'
<1>1. /\ Placed /\ Typed /\ Local(t) /\ Exact /\ OwnEndpoints
  BY DEF ConcurrentInv, OwnedInv, Placed
<1>2. /\ pc[t] = "subtract" /\ pc'[t] = "push" /\ refcnt' = refcnt - 1
      /\ \A u \in Thread \ {t} : pc'[u] = pc[u]
      /\ UNCHANGED <<current, peer, link, unwind, live, top, freed, epref, eprefcnt, dead, ub>>
  BY <1>1, GoPlaces DEF Subtract, fibreVars, endpointVars, Typed
<1>3. current[t] \in Mine(t) /\ unwind[t] = << >>
  BY <1>1, <1>2 DEF Local, Destroying, Mine, Runs
<1>4. current[t] \in References
  BY <1>1, <1>3, MineUsers DEF Elements, OwnEndpoints
<1>5. refcnt \in Nat \ {0, 1}
  BY <1>1, <1>2, <1>3, <1>4, EnoughFor
<1>6. /\ Cardinality(Pushing) \in Nat /\ Cardinality(Counting) \in Nat
      /\ Cardinality(Pushing)' = Cardinality(Pushing) + 1
      /\ Cardinality(Counting)' = Cardinality(Counting)
  BY <1>1, <1>2, CountsMove
<1>7. Suspended' = Suspended /\ References' = References /\ Cardinality(Suspended) \in Nat
  BY <1>1, <1>2, FiniteParts DEF Suspended, References
<1>8. Exact'
  BY <1>1, <1>2, <1>5, <1>6, <1>7 DEF Exact
<1> QED
  BY <1>2, <1>8, CountingStep DEF Only, InsidePlaces

\* It suspends it.
LEMMA LinkCounts ==
  ASSUME ConcurrentInv, OwnedInv, NEW t \in Thread, Link(t), UNCHANGED given
  PROVE  OwnedInv'
<1>1. /\ Placed /\ Typed /\ Local(t) /\ Exact /\ Kept
  BY DEF ConcurrentInv, OwnedInv, Placed
<1>2. /\ pc[t] = "link" /\ pc'[t] = "pop"
      /\ \A u \in Thread \ {t} : pc'[u] = pc[u]
      /\ link' = [link EXCEPT ![t] = << >>]
      /\ StoreTop(t, <<current[t]>> \o link[t])
      /\ UNCHANGED <<current, peer, unwind, live, refcnt, freed, epref, eprefcnt, dead>>
  BY <1>1, GoPlaces DEF Link, fibreVars, endpointVars, Typed
<1>0. top' = <<current[t]>> \o top /\ UNCHANGED ub
  BY <1>1, <1>2, OwnedStore
<1>3. current[t] \in Fibre /\ current[t] \in Mine(t)
  BY <1>1, <1>2 DEF Local, Destroying, Mine, Runs
<1>4. current[t] \notin Suspended
  BY <1>1, <1>3 DEF Placed
<1>5. Suspended' = Suspended \cup {current[t]}
  <2>1. Elements(top') = Elements(top) \cup {current[t]}
    BY <1>0, <1>1, <1>3, PushElements DEF Typed
  <2> QED
    BY <2>1 DEF Suspended, Elements
<1>6. IsFiniteSet(Suspended) /\ Cardinality(Suspended) \in Nat
  BY <1>1, FiniteParts
<1>7. Cardinality(Suspended)' = Cardinality(Suspended) + 1
  BY <1>4, <1>5, <1>6, FS_AddElement
<1>8. /\ Cardinality(Pushing) \in Nat /\ Cardinality(Counting) \in Nat
      /\ Cardinality(Pushing)' = Cardinality(Pushing) - 1
      /\ Cardinality(Counting)' = Cardinality(Counting)
  BY <1>1, <1>2, CountsMove
<1>9. References' = References
  BY <1>2 DEF References
<1>10. Exact'
  BY <1>1, <1>2, <1>6, <1>7, <1>8, <1>9 DEF Exact
<1> QED
  BY <1>0, <1>2, <1>10, CountingStep DEF Only, InsidePlaces, Typed

\* An endpoint goes, with its part of the count.
LEMMA LeaveCounts ==
  ASSUME ConcurrentInv, OwnedInv, NEW t \in Thread, LeaveChannel(t), UNCHANGED given
  PROVE  OwnedInv'
<1>1. /\ Placed /\ Typed /\ Local(t) /\ Exact /\ OwnEndpoints /\ Kept /\ Unshared
      /\ Exclusion
  BY DEF ConcurrentInv, OwnedInv, Placed
<1>2. /\ pc[t] = "leave" /\ pc'[t] = "unwind" /\ refcnt' = refcnt - 1
      /\ \A u \in Thread \ {t} : pc'[u] = pc[u]
      /\ epref' = [epref EXCEPT ![Head(unwind[t])] = None]
      /\ dead' = dead \cup {epref[Head(unwind[t])]}
      /\ UNCHANGED <<current, peer, link, unwind, live, top, freed, eprefcnt, ub>>
  BY <1>1, GoPlaces DEF LeaveChannel, DeleteEndpoint, Dying, fibreVars, Typed
<1>3. PICK h \in Fibre : h = Head(unwind[t])
  BY <1>1, <1>2 DEF Local, Destroying
<1>4. h \in References /\ h \in Mine(t)
  <2>1. unwind[t] # << >>
    BY <1>1, <1>2 DEF Local, Destroying
  <2>2. h \in Elements(unwind[t])
    BY <1>1, <1>3, <2>1, PopElements DEF Typed
  <2> QED
    BY <1>1, <1>2, <1>3, <2>2 DEF OwnEndpoints, References, Mine, Destroying
<1>5. refcnt \in Nat \ {0, 1}
  BY <1>1, <1>2, <1>4, EnoughFor
<1>6. Only(t)
  BY <1>2 DEF Only
<1>7. OwnEndpoints'
  BY <1>1, <1>2, <1>3, <1>4, <1>6, LoseEndpoint DEF Destroying, References
<1>8. Kept'
  <2>1. ChannelFrame \notin Elements(unwind'[t])
    BY <1>1, <1>2 DEF Kept, Elements
  <2> QED
    BY <1>1, <1>2, <1>6, <2>1, KeptBy DEF NotReached
<1>9. References' = References \ {h}
  BY <1>1, <1>2, <1>3 DEF References, OwnEndpoints
<1>10. IsFiniteSet(References) /\ Cardinality(References) \in Nat /\ Cardinality(Suspended) \in Nat
  BY <1>1, FiniteParts
<1>11. Cardinality(References)' = Cardinality(References) - 1
  BY <1>4, <1>9, <1>10, FS_RemoveElement
<1>12. /\ Cardinality(Pushing) \in Nat /\ Cardinality(Counting) \in Nat
       /\ Cardinality(Pushing)' = Cardinality(Pushing)
       /\ Cardinality(Counting)' = Cardinality(Counting)
  BY <1>1, <1>2, CountsMove
<1>13. Suspended' = Suspended
  BY <1>2 DEF Suspended
<1>14. Exact'
  BY <1>1, <1>2, <1>5, <1>10, <1>11, <1>12, <1>13 DEF Exact
<1>15. Unshared'
  BY DEF Unshared, OwnedInv
<1> QED
  BY <1>7, <1>8, <1>14, <1>15 DEF OwnedInv

-----------------------------------------------------------------------------

\* As many endpoints as fibres that have one.
LEMMA ImageSize ==
  ASSUME NEW S, IsFiniteSet(S), NEW e, \A f, g \in S : e[f] = e[g] => f = g
  PROVE  Cardinality({e[f] : f \in S}) = Cardinality(S)
<1> DEFINE T == {e[f] : f \in S}
           M == [f \in S |-> e[f]]
<1>1. M \in Bijection(S, T)
  <2>1. M \in [S -> T]
    OBVIOUS
  <2>2. \A f, g \in S : M[f] = M[g] => f = g
    OBVIOUS
  <2>3. \A x \in T : \E f \in S : M[f] = x
    OBVIOUS
  <2> HIDE DEF T, M
  <2> QED
    BY <2>1, <2>2, <2>3, Fun_IsBij
<1> HIDE DEF T, M
<1>2. ExistsBijection(S, T)
  BY <1>1 DEF ExistsBijection
<1>3. Cardinality(T) = Cardinality(S)
  BY <1>2, FS_Bijection
<1> QED
  BY <1>3 DEF T

LEMMA OwnedInit == Init => Sharing \/ OwnedInv
<1> SUFFICES ASSUME Init, ~Sharing PROVE OwnedInv
  OBVIOUS
<1>1. Unshared
  BY ConcurrentAssumption DEF Unshared, Sharing, Copying, Init
<1>2. /\ given \in [Fibre -> Endpoint] /\ epref = given
      /\ None \notin Fibre \cup Endpoint /\ IsFiniteSet(Fibre)
  BY <1>1, ConcurrentAssumption DEF Init, Unshared
<1>3. /\ live = Fibre /\ pc = [t \in Thread |-> "idle"] /\ dead = {}
      /\ unwind = [t \in Thread |-> << >>] /\ top = << >>
      /\ freed = FALSE /\ ub = "nothing"
      /\ eprefcnt = [e \in Endpoint |-> Cardinality({f \in Fibre : epref[f] = e})]
      /\ refcnt = 1 + Cardinality({epref[f] : f \in Fibre} \ {None})
  BY <1>2 DEF Init, Copies, Endpoints
<1>4. \A e \in Endpoint : Cardinality({f \in Fibre : epref[f] = e}) \in Nat
  <2> SUFFICES ASSUME NEW e \in Endpoint
               PROVE  Cardinality({f \in Fibre : epref[f] = e}) \in Nat
    OBVIOUS
  <2>1. {f \in Fibre : epref[f] = e} \subseteq Fibre
    OBVIOUS
  <2> QED
    BY <1>2, <2>1, FS_Subset, FS_CardinalityType
<1>5. \A g \in Fibre : eprefcnt[given[g]] = 1
  <2> SUFFICES ASSUME NEW g \in Fibre PROVE eprefcnt[given[g]] = 1
    OBVIOUS
  <2>1. {f \in Fibre : epref[f] = given[g]} = {g}
    BY <1>1, <1>2 DEF Unshared
  <2>2. eprefcnt[given[g]] = Cardinality({f \in Fibre : epref[f] = given[g]})
    BY <1>2, <1>3
  <2> QED
    BY <2>1, <2>2, FS_Singleton
<1>6. OwnEndpoints
  <2>1. eprefcnt \in [Endpoint -> Nat]
    BY <1>3, <1>4
  <2>2. \A f \in Fibre : epref[f] # None
    BY <1>2
  <2>3. \A t \in Thread : pc[t] \notin Destroying
    BY <1>3 DEF Destroying
  <2> QED
    BY <1>2, <1>3, <1>5, <2>1, <2>2, <2>3 DEF OwnEndpoints, LivingRefer, Destroying
<1>7. Exact
  <2>0. {epref[f] : f \in Fibre} \ {None} = {epref[f] : f \in Fibre}
    BY <1>2
  <2>1. Cardinality({epref[f] : f \in Fibre}) = Cardinality(Fibre)
    <3>1. \A f, g \in Fibre : epref[f] = epref[g] => f = g
      BY <1>1, <1>2 DEF Unshared
    <3> QED
      BY <1>2, <3>1, ImageSize
  <2>2. Suspended = {} /\ References = Fibre
    BY <1>2, <1>3 DEF Suspended, References
  <2>3. Pushing = {} /\ Counting = {}
    BY <1>3 DEF Pushing, Counting, At
  <2>4. Cardinality({}) = 0 /\ Cardinality(Fibre) \in Nat
    BY <1>2, FS_EmptySet, FS_CardinalityType
  <2>5. refcnt = 1 + Cardinality(Fibre)
    BY <1>3, <2>0, <2>1
  <2>6. /\ Cardinality(Suspended) = 0 /\ Cardinality(References) = Cardinality(Fibre)
        /\ Cardinality(Pushing) = 0 /\ Cardinality(Counting) = 0
    BY <2>2, <2>3, <2>4
  <2> QED
    BY <2>4, <2>5, <2>6 DEF Exact
<1>8. Kept
  BY <1>3 DEF Kept, Elements, NotReached
<1> QED
  BY <1>1, <1>6, <1>7, <1>8 DEF OwnedInv

LEMMA OwnedNext ==
  ASSUME Exclusion, PlacedUntilLost, Sharing \/ OwnedInv, [Next]_vars
  PROVE  (Sharing \/ OwnedInv)'
<1>1. CASE Sharing
  <2>1. UNCHANGED given
    BY DEF Next, vars
  <2> QED
    BY <1>1, <2>1 DEF Sharing, Copying
<1>2. CASE OwnedInv
  <2>0. ConcurrentInv
    BY <1>2 DEF ConcurrentInv, PlacedUntilLost, OwnedInv, Kept
  <2>1. ASSUME NEW t \in Thread, Step(t), UNCHANGED given
        PROVE  OwnedInv'
    <3>1. CASE Transfer(t)
      BY <1>2, <2>0, <2>1, <3>1, QuietTransfer, UnlinkCounts, CountCounts, SubtractCounts,
         LinkCounts, Impossible DEF Transfer
    <3>2. CASE Destroy(t)
      BY <1>2, <2>0, <2>1, <3>2, QuietDestroy, LeaveCounts, Impossible DEF Destroy
    <3> QED
      BY <1>2, <2>0, <2>1, <3>1, <3>2, QuietTransfer, QuietDestroy, Impossible DEF Step
  <2>2. CASE UNCHANGED vars
    BY <1>2, <2>2
       DEF vars, threadVars, fibreVars, channelVars, endpointVars, OwnedInv, Unshared,
           OwnEndpoints, LivingRefer, Unwinding, Exact, Suspended, References, Pushing, Counting, At, Kept
  <2> QED
    BY <2>1, <2>2 DEF Next
<1> QED
  BY <1>1, <1>2

\* All of it, of every reachable state.
UntilLost == Exclusion /\ PlacedUntilLost /\ (Sharing \/ OwnedInv)

LEMMA UntilLostHolds == Spec => []UntilLost
<1>1. Init => UntilLost
  BY ExclusionInit, PlacedInit, OwnedInit DEF UntilLost, PlacedUntilLost, Placed, Init
<1>2. UntilLost /\ [Next]_vars => UntilLost'
  BY ExclusionNext, PlacedNext, OwnedNext DEF UntilLost
<1> QED
  BY <1>1, <1>2, PTL DEF Spec

\* Whatever threads do to it, and however destructors race, a fibre is run by
\* one thread, or is the peer of one, or is ready, suspended or destroyed once,
\* until two stores to top meet; and they never do while no endpoint is shared.
THEOREM EachFibreInOnePlace == Spec => []FibreInOnePlace
<1>1. ASSUME UntilLost PROVE FibreInOnePlace
  <2>1. ~Sharing \/ ub # "lost" => Placed
    BY <1>1 DEF UntilLost, PlacedUntilLost, OwnedInv, Kept
  <2> QED
    BY <2>1, PlacesAddUp DEF FibreInOnePlace
<1> QED
  BY <1>1, UntilLostHolds, PTL

\* However threads suspend, resume and end fibres that have an endpoint each,
\* the count is one more than the endpoints less the fibres suspended, once
\* the threads at work have made their updates.
THEOREM CountIsExact == Spec => []RefcntAccounting
<1>1. ASSUME UntilLost PROVE RefcntAccounting
  <2> SUFFICES ASSUME OwnedInv
               PROVE  refcnt + Cardinality(Suspended) + Cardinality(Pushing)
                        + Cardinality(Counting)
                        = 1 + Cardinality({epref[f] : f \in Fibre} \ {None})
    BY <1>1 DEF RefcntAccounting, Pushing, Counting, Endpoints, UntilLost
  <2>1. Placed /\ Exact /\ OwnEndpoints /\ Unshared
    BY <1>1 DEF UntilLost, PlacedUntilLost, OwnedInv, Kept
  <2>2. {epref[f] : f \in Fibre} \ {None} = {epref[f] : f \in References}
    BY DEF References
  <2>3. \A f, g \in References : epref[f] = epref[g] => f = g
    BY <2>1 DEF References, OwnEndpoints, Unshared
  <2>4. Cardinality({epref[f] : f \in References}) = Cardinality(References)
    BY <2>1, <2>3, FiniteParts, ImageSize
  <2> QED
    BY <2>1, <2>2, <2>4 DEF Exact
<1> QED
  BY <1>1, UntilLostHolds, PTL

-----------------------------------------------------------------------------
(***************************************************************************)
(* The count of an endpoint, when references are copied only before the    *)
(* threads run                                                             *)
(***************************************************************************)

\* The fibres that refer to an endpoint.
Referring(e) == {f \in Fibre : epref[f] = e}

\* Where a thread deletes an endpoint.
Deletes == {"endpoint", "leave", "delete", "clear", "zero"}

\* What a thread that is about to drop a reference has loaded is at least the
\* number of references there are, and so is the count; where it deletes the
\* endpoint it has the only one.
DropsOne(t) ==
  /\ pc[t] \in {"drop", "store"} \cup Deletes => epref[Dying(t)] # None
  /\ pc[t] = "store" => Cardinality(Referring(epref[Dying(t)])) <= loaded[t]
  /\ pc[t] \in Deletes => Referring(epref[Dying(t)]) = {Dying(t)}

Referred ==
  /\ given \in [Fibre -> Endpoint]
  /\ epref \in [Fibre -> Endpoint \cup {None}]
  /\ eprefcnt \in [Endpoint -> 0..Cardinality(Fibre)]
  /\ loaded \in [Thread -> 0..Cardinality(Fibre)]
  /\ \A e \in Endpoint : Cardinality(Referring(e)) <= eprefcnt[e]
  /\ \A t \in Thread : pc[t] # "refer" /\ DropsOne(t)

LEMMA ReferringSize ==
  ASSUME NEW e
  PROVE  /\ Cardinality(Fibre) \in Nat
         /\ IsFiniteSet(Referring(e)) /\ Cardinality(Referring(e)) \in Nat
         /\ Cardinality(Referring(e)) <= Cardinality(Fibre)
<1>1. Referring(e) \subseteq Fibre
  BY DEF Referring
<1> QED
  BY <1>1, ConcurrentAssumption, FS_Subset, FS_CardinalityType

\* What a step of t leaves alone.
LEMMA OnlyOne ==
  ASSUME Typed, NEW t \in Thread, Step(t)
  PROVE  Only(t)
<1>1. \A u \in Thread \ {t} : pc'[u] = pc[u]
  BY StepOfLock DEF Typed
<1>2. CASE FindWork(t) \/ Transfer(t)
  BY <1>1, <1>2 DEF FindWork, Transfer, Ask, Lock, Match, Unlink, CountPeer, Copy, Resume, Check,
                    Subtract, Push, Link, Pop, Starve, Fetch, Typed, Only
<1>3. CASE Refer(t) \/ Spawn(t) \/ End(t) \/ UseFreed(t)
  BY <1>1, <1>3 DEF Refer, Spawn, End, UseFreed, threadVars, Typed, Only
<1>4. CASE Destroy(t)
  BY <1>1, <1>4 DEF Destroy, LoadReferences, ReloadReferences, DropReference, LoadRefcnt,
                    LeaveChannel, DeleteChannel, ClearTop, ClearRefcnt, FreeFibre,
                    FreeChannel, Return, Typed, Only
<1> QED
  BY <1>2, <1>3, <1>4 DEF Step

\* No other thread destroys the fibre whose destructor is innermost in t.
LEMMA DyingApart ==
  ASSUME Placed, NEW t \in Thread, NEW u \in Thread \ {t},
         pc[t] \in Destroying \ {"unwind"}, pc[u] \in Destroying \ {"unwind"}
  PROVE  Dying(t) # Dying(u) /\ Dying(t) \in Fibre /\ Dying(u) \in Fibre
<1>1. ASSUME NEW v \in Thread, pc[v] \in Destroying \ {"unwind"}
      PROVE  Dying(v) \in Mine(v) /\ Dying(v) \in Fibre
  <2>1. Typed /\ Local(v)
    BY DEF Placed
  <2>2. unwind[v] # << >> /\ Dying(v) \in Fibre
    BY <1>1, <2>1 DEF Local, Dying
  <2>3. Dying(v) \in Elements(unwind[v])
    BY <2>1, <2>2, PopElements DEF Typed, Dying
  <2> QED
    BY <2>2, <2>3 DEF Mine
<1>2. Mine(t) \cap Mine(u) = {}
  BY DEF Placed
<1> QED
  BY <1>1, <1>2

\* A step at which no reference goes and no count is stored.
LEMMA ReferredQuiet ==
  ASSUME Placed, Referred, NEW t \in Thread, Step(t), pc'[t] # "refer",
         UNCHANGED <<given, epref, eprefcnt, loaded>>,
         pc'[t] \notin Destroying \ {"unwind"} \/ DropsOne(t)'
  PROVE  Referred'
<1>1. \A u \in Thread \ {t} : pc'[u] = pc[u] /\ unwind'[u] = unwind[u]
  <2>1. Typed
    BY DEF Placed
  <2> QED
    BY <2>1, OnlyOne DEF Only
<1>2. \A e : Referring(e)' = Referring(e)
  BY DEF Referring
<1>3. ASSUME NEW u \in Thread PROVE pc'[u] # "refer" /\ DropsOne(u)'
  <2>1. CASE u = t
    BY <2>1 DEF DropsOne, Destroying, Deletes
  <2>2. CASE u # t
    <3>1. Dying(u)' = Dying(u) /\ pc'[u] = pc[u] /\ DropsOne(u) /\ pc[u] # "refer"
      BY <1>1, <2>2 DEF Dying, Referred
    <3> QED
      BY <1>2, <3>1 DEF DropsOne
  <2> QED
    BY <2>1, <2>2
<1> QED
  BY <1>2, <1>3 DEF Referred

\* A step at which the reference of the innermost destructor of t goes.
LEMMA ReferredLess ==
  ASSUME Placed, Referred, NEW t \in Thread, Step(t),
         pc[t] \in Destroying \ {"unwind"}, pc'[t] = "unwind",
         epref' = [epref EXCEPT ![Dying(t)] = None],
         UNCHANGED <<given, loaded>>,
         \/ UNCHANGED eprefcnt
         \/ /\ pc[t] = "store"
            /\ eprefcnt' = [eprefcnt EXCEPT ![epref[Dying(t)]] = loaded[t] - 1]
  PROVE  Referred'
<1>1. PICK f \in Fibre : f = Dying(t)
  BY DEF Placed, Local, Dying
<1>2. PICK e \in Endpoint : e = epref[f]
  BY <1>1 DEF Referred, DropsOne, Destroying, Deletes
<1>3. epref' \in [Fibre -> Endpoint \cup {None}] /\ None \notin Endpoint
  BY <1>1, ConcurrentAssumption DEF Referred
<1>4. Referring(e)' = Referring(e) \ {f} /\ f \in Referring(e)
  BY <1>1, <1>2, <1>3 DEF Referring, Referred
<1>5. \A d \in Endpoint \ {e} : Referring(d)' = Referring(d)
  BY <1>1, <1>2, <1>3 DEF Referring, Referred
<1>6. Cardinality(Referring(e)') = Cardinality(Referring(e)) - 1
  <2>1. IsFiniteSet(Referring(e))
    BY ReferringSize
  <2>2. Cardinality(Referring(e) \ {f}) = Cardinality(Referring(e)) - 1
    BY <1>4, <2>1, FS_RemoveElement
  <2> QED
    BY <1>4, <2>2
<1>7. /\ Cardinality(Fibre) \in Nat
      /\ \A d : Cardinality(Referring(d)) \in Nat
  BY ReferringSize
<1>8. eprefcnt' \in [Endpoint -> 0..Cardinality(Fibre)] /\ Cardinality(Referring(e)') <= eprefcnt'[e]
  <2>1. CASE UNCHANGED eprefcnt
    BY <1>6, <1>7, <2>1 DEF Referred
  <2>2. CASE /\ pc[t] = "store"
             /\ eprefcnt' = [eprefcnt EXCEPT ![epref[Dying(t)]] = loaded[t] - 1]
    <3>1. Cardinality(Referring(e)) <= loaded[t] /\ loaded[t] \in 0..Cardinality(Fibre)
      BY <1>1, <1>2, <2>2 DEF Referred, DropsOne
    <3>2. Cardinality(Referring(e)) # 0
      BY <1>4, ReferringSize, FS_EmptySet
    <3>3. loaded[t] - 1 \in 0..Cardinality(Fibre)
      BY <1>7, <3>1, <3>2
    <3>4. eprefcnt' = [eprefcnt EXCEPT ![e] = loaded[t] - 1]
      BY <1>1, <1>2, <2>2
    <3> QED
      BY <1>6, <1>7, <3>1, <3>3, <3>4 DEF Referred
  <2> QED
    BY <2>1, <2>2
<1>9. \A d \in Endpoint : Cardinality(Referring(d)') <= eprefcnt'[d]
  <2> SUFFICES ASSUME NEW d \in Endpoint \ {e}
               PROVE  Cardinality(Referring(d)') <= eprefcnt'[d]
    BY <1>8
  <2>1. eprefcnt'[d] = eprefcnt[d]
    BY <1>1, <1>2 DEF Referred
  <2> QED
    BY <1>5, <2>1 DEF Referred
<1>10. \A u \in Thread \ {t} : pc'[u] = pc[u] /\ unwind'[u] = unwind[u]
  <2>1. Typed
    BY DEF Placed
  <2> QED
    BY <2>1, OnlyOne DEF Only
<1>11. ASSUME NEW u \in Thread PROVE pc'[u] # "refer" /\ DropsOne(u)'
  <2>1. CASE u = t \/ pc[u] \notin Destroying \ {"unwind"}
    <3>1. pc'[u] \notin Destroying \ {"unwind"} /\ pc'[u] # "refer"
      BY <1>10, <2>1 DEF Referred
    <3> QED
      BY <3>1 DEF DropsOne, Destroying, Deletes
  <2>2. CASE u # t /\ pc[u] \in Destroying \ {"unwind"}
    <3>1. PICK g \in Fibre : g = Dying(u)
      BY <2>2, DyingApart
    <3>2. g # f /\ Dying(u)' = g /\ pc'[u] = pc[u] /\ epref'[g] = epref[g]
      BY <1>1, <1>3, <1>10, <2>2, <3>1, DyingApart DEF Dying, Referred
    <3>3. DropsOne(u) /\ epref[g] # None /\ pc[u] # "refer"
      BY <2>2, <3>1 DEF Referred, DropsOne, Destroying, Deletes
    <3>4. PICK d \in Endpoint : d = epref[g]
      BY <3>3 DEF Referred
    <3>5. /\ pc[u] = "store" => Cardinality(Referring(d)) <= loaded[u]
          /\ pc[u] \in Deletes => Referring(d) = {g}
      BY <2>2, <3>1, <3>3, <3>4 DEF DropsOne
    <3>6. /\ pc[u] = "store" => Cardinality(Referring(d)') <= loaded[u]
          /\ pc[u] \in Deletes => Referring(d)' = {g}
      <4>1. CASE d = e
        <5>1. loaded[u] \in Nat
          BY <1>7 DEF Referred
        <5>2. Cardinality(Referring(d)) \in Nat
          BY ReferringSize
        <5>3. pc[u] = "store" => Cardinality(Referring(d)') <= loaded[u]
          BY <1>6, <3>5, <4>1, <5>1, <5>2
        <5>4. pc[u] \notin Deletes
          BY <1>4, <3>2, <3>5, <4>1
        <5> QED
          BY <5>3, <5>4
      <4>2. CASE d # e
        BY <1>5, <3>5, <4>2
      <4> QED
        BY <4>1, <4>2
    <3> QED
      BY <2>2, <3>2, <3>3, <3>4, <3>6 DEF DropsOne
  <2> QED
    BY <2>1, <2>2
<1> QED
  BY <1>3, <1>8, <1>9, <1>11 DEF Referred

LEMMA ReferredInit == Init => Copying \/ Referred
<1> SUFFICES ASSUME Init, ~Copying PROVE Referred
  OBVIOUS
<1>1. \A e : Copies(e) = Cardinality(Referring(e))
  BY DEF Copies, Referring
<1>2. /\ given \in [Fibre -> Endpoint] /\ epref \in [Fibre -> Endpoint \cup {None}]
      /\ eprefcnt = [e \in Endpoint |-> Copies(e)]
  BY ConcurrentAssumption DEF Init, Copying
<1>3. eprefcnt \in [Endpoint -> 0..Cardinality(Fibre)]
  BY <1>1, <1>2, ReferringSize
<1>4. loaded \in [Thread -> 0..Cardinality(Fibre)]
  BY ReferringSize DEF Init
<1>5. \A t \in Thread : pc[t] # "refer" /\ DropsOne(t)
  BY DEF Init, DropsOne, Deletes
<1>6. \A e \in Endpoint : Cardinality(Referring(e)) <= eprefcnt[e]
  BY <1>1, <1>2, ReferringSize
<1> QED
  BY <1>2, <1>3, <1>4, <1>5, <1>6 DEF Referred

\* The steps that read and write, and those of the destructors that use no
\* endpoint.
LEMMA ReferredAway ==
  ASSUME Placed, Referred, NEW t \in Thread, Step(t), UNCHANGED given,
         FindWork(t) \/ Transfer(t) \/ End(t) \/ FreeFibre(t) \/ FreeChannel(t)
  PROVE  Referred'
<1>0. Typed
  BY DEF Placed
<1>1. UNCHANGED <<epref, eprefcnt, loaded>>
  <2>1. CASE FindWork(t) \/ Transfer(t)
    BY <2>1 DEF FindWork, Transfer, Ask, Lock, Match, Unlink, CountPeer, Copy, Resume, Check,
                Subtract, Push, Link, Pop, Starve, endpointVars
  <2>2. CASE End(t) \/ FreeFibre(t) \/ FreeChannel(t)
    BY <2>2 DEF End, FreeFibre, FreeChannel, endpointVars
  <2> QED
    BY <2>1, <2>2
<1>2. pc'[t] \notin (Destroying \ {"unwind"}) \cup {"refer"}
  <2>1. CASE FindWork(t) \/ Pop(t) \/ Starve(t)
    <3>1. PICK from \in Places, to \in {"run", "idle", "unwind"} : Go(t, from, to)
      BY <2>1, FetchPlaces DEF FindWork, Pop, Starve, Places, Destroying
    <3> QED
      BY <1>0, <3>1, GoPlaces DEF Typed, Destroying
  <2>2. CASE FreeFibre(t) \/ FreeChannel(t)
    <3>1. Unwinding(t) /\ Return(t)
      BY <2>2 DEF FreeFibre, FreeChannel
    <3>2. pc'[t] \in {"unwind", "pop", "run"}
      <4>1. Local(t)
        BY DEF Placed
      <4> QED
        BY <1>0, <3>1, <4>1, ReturnFacts
    <3> QED
      BY <3>2 DEF Destroying
  <2>3. CASE Check(t)
    <3>1. PICK to \in {"starved", "subtract"} : Go(t, "check", to)
      BY <2>3 DEF Check
    <3> QED
      BY <1>0, <3>1, GoPlaces DEF Typed, Destroying
  <2>4. CASE \/ \E dir \in {"read", "write"} : Ask(t, dir)
             \/ Lock(t) \/ Match(t) \/ Unlink(t) \/ CountPeer(t) \/ Copy(t) \/ Resume(t)
             \/ Subtract(t) \/ Push(t) \/ Link(t) \/ End(t)
    <3>1. PICK from \in Places,
               to \in {"lock", "match", "unlink", "count", "check", "copy", "resume", "run",
                       "push", "link", "pop", "unwind"} : Go(t, from, to)
      BY <2>4 DEF Ask, Lock, Match, Unlink, CountPeer, Copy, Resume, Subtract, Push, Link, End,
                  Places, WithPeer
    <3> QED
      BY <1>0, <3>1, GoPlaces DEF Typed, Destroying
  <2> QED
    BY <2>1, <2>2, <2>3, <2>4 DEF Transfer
<1> QED
  BY <1>1, <1>2, ReferredQuiet

\* The count is loaded to be tested, and loaded again.
LEMMA ReferredLoads ==
  ASSUME Placed, Referred, NEW t \in Thread, Step(t), UNCHANGED given,
         LoadReferences(t) \/ ReloadReferences(t)
  PROVE  Referred'
<1>0. Typed /\ Local(t)
  BY DEF Placed
<1>1. CASE LoadReferences(t)
  <2>1. /\ pc[t] = "unwind" /\ unwind[t] # << >>
        /\ UNCHANGED <<unwind, epref, eprefcnt, loaded>>
        /\ Dying(t) # ChannelFrame /\ epref[Dying(t)] # None
        /\ pc'[t] \in {"endpoint", "drop"}
        /\ pc'[t] = "endpoint" => eprefcnt[epref[Dying(t)]] = 1
    BY <1>0, <1>1, GoPlaces DEF LoadReferences, Unwinding, endpointVars, Typed
  <2>2. PICK f \in Fibre : f = Dying(t)
    BY <1>0, <2>1, PopElements DEF Typed, Dying
  <2>3. PICK e \in Endpoint : e = epref[f]
    BY <2>1, <2>2 DEF Referred
  <2>4. Dying(t)' = f /\ epref'[f] = e /\ e # None /\ Referring(e)' = Referring(e)
    BY <2>1, <2>2, <2>3 DEF Dying, Referring
  <2>5. pc'[t] = "endpoint" => Referring(e) = {f}
    <3> SUFFICES ASSUME eprefcnt[e] = 1 PROVE Referring(e) = {f}
      BY <2>1, <2>2, <2>3
    <3>1. f \in Referring(e) /\ Cardinality(Referring(e)) <= 1
      BY <2>3 DEF Referred, Referring
    <3>2. /\ IsFiniteSet(Referring(e) \ {f})
          /\ Cardinality(Referring(e) \ {f}) = Cardinality(Referring(e)) - 1
      BY <3>1, ReferringSize, FS_RemoveElement
    <3>3. Cardinality(Referring(e) \ {f}) \in Nat
      BY <3>2, FS_CardinalityType
    <3>4. Cardinality(Referring(e) \ {f}) = 0
      BY <3>1, <3>2, <3>3, ReferringSize
    <3>5. Referring(e) \ {f} = {}
      BY <3>2, <3>4, FS_EmptySet
    <3> QED
      BY <3>1, <3>5
  <2>6. DropsOne(t)'
    BY <2>1, <2>4, <2>5 DEF DropsOne, Deletes
  <2> QED
    BY <2>1, <2>6, ReferredQuiet
<1>2. CASE ReloadReferences(t)
  <2>1. /\ pc[t] = "drop" /\ pc'[t] = "store"
        /\ UNCHANGED <<unwind, epref, eprefcnt>>
        /\ loaded' = [loaded EXCEPT ![t] = eprefcnt[epref[Dying(t)]]]
    BY <1>0, <1>2, GoPlaces DEF ReloadReferences, endpointVars, Typed
  <2>2. PICK f \in Fibre : f = Dying(t)
    BY <1>0, <2>1 DEF Local, Dying, Destroying
  <2>3. PICK e \in Endpoint : e = epref[f]
    BY <2>1, <2>2 DEF Referred, DropsOne
  <2>4. /\ loaded' \in [Thread -> 0..Cardinality(Fibre)]
        /\ loaded'[t] = eprefcnt[e] /\ e # None
    BY <2>1, <2>2, <2>3, ConcurrentAssumption DEF Referred
  <2>5. \A d : Referring(d)' = Referring(d)
    BY <2>1 DEF Referring
  <2>6. ASSUME NEW u \in Thread PROVE pc'[u] # "refer" /\ DropsOne(u)'
    <3>1. CASE u = t
      <4>1. Dying(t)' = f /\ epref'[f] = e
        BY <2>1, <2>2, <2>3 DEF Dying
      <4>2. Cardinality(Referring(e)) <= eprefcnt[e]
        BY DEF Referred
      <4> QED
        BY <2>1, <2>4, <2>5, <3>1, <4>1, <4>2 DEF DropsOne, Deletes
    <3>2. CASE u # t
      <4>1. pc'[u] = pc[u] /\ loaded'[u] = loaded[u] /\ Dying(u)' = Dying(u)
        BY <1>0, <2>1, <3>2, OnlyOne DEF Dying, Only, Referred
      <4> QED
        BY <2>1, <2>5, <4>1 DEF DropsOne, Referred
    <3> QED
      BY <3>1, <3>2
  <2> QED
    BY <2>1, <2>4, <2>5, <2>6 DEF Referred
<1> QED
  BY <1>1, <1>2

LEMMA ReferredNext ==
  ASSUME PlacedUntilLost, Copying \/ Referred, [Next]_vars
  PROVE  (Copying \/ Referred)'
<1> SUFFICES ASSUME ~Copying, Referred PROVE Referred'
  BY DEF Next, Copying, vars
<1>1. ASSUME NEW t \in Thread, Step(t), UNCHANGED given PROVE Referred'
  <2>0. Placed /\ Typed
    <3>1. ub # "lost"
      BY <1>1, StepBeforeLost
    <3> QED
      BY <3>1 DEF PlacedUntilLost
  <2>1. CASE FindWork(t) \/ Transfer(t) \/ End(t) \/ FreeFibre(t) \/ FreeChannel(t)
    BY <1>1, <2>0, <2>1, ReferredAway
  <2>2. CASE LoadReferences(t) \/ ReloadReferences(t)
    BY <1>1, <2>0, <2>2, ReferredLoads
  <2>3. CASE DropReference(t) \/ LeaveChannel(t) \/ ClearRefcnt(t)
    <3>1. /\ pc[t] \in {"store", "leave", "zero"} /\ pc'[t] = "unwind"
          /\ UNCHANGED loaded /\ epref' = [epref EXCEPT ![Dying(t)] = None]
          /\ \/ UNCHANGED eprefcnt
             \/ /\ pc[t] = "store"
                /\ eprefcnt' = [eprefcnt EXCEPT ![epref[Dying(t)]] = loaded[t] - 1]
      BY <2>0, <2>3, GoPlaces
         DEF DropReference, LeaveChannel, ClearRefcnt, DeleteEndpoint, Typed
    <3> QED
      BY <1>1, <2>0, <3>1, ReferredLess DEF Destroying
  <2>4. CASE LoadRefcnt(t) /\ pc'[t] = "unwind"
    <3>1. /\ pc[t] = "endpoint" /\ UNCHANGED <<loaded, eprefcnt>>
          /\ epref' = [epref EXCEPT ![Dying(t)] = None]
      BY <2>0, <2>4, GoPlaces DEF LoadRefcnt, DeleteEndpoint, Typed
    <3> QED
      BY <1>1, <2>0, <2>4, <3>1, ReferredLess DEF Destroying
  <2>5. CASE \/ LoadRefcnt(t) /\ pc'[t] # "unwind"
             \/ DeleteChannel(t) \/ ClearTop(t)
    <3>1. /\ pc[t] \in Deletes /\ pc'[t] \in Deletes
          /\ UNCHANGED <<unwind, epref, eprefcnt, loaded>>
      BY <2>0, <2>5, GoPlaces DEF LoadRefcnt, DeleteChannel, ClearTop, endpointVars, Typed,
                                  Deletes
    <3>2. DropsOne(t)'
      BY <3>1 DEF DropsOne, Dying, Referring, Referred, Deletes
    <3> QED
      BY <1>1, <2>0, <3>1, <3>2, ReferredQuiet DEF Deletes
  <2>6. CASE UseFreed(t)
    <3>1. UNCHANGED <<threadVars, endpointVars>>
      BY <2>6 DEF UseFreed
    <3> QED
      BY <1>1, <3>1 DEF threadVars, endpointVars, Referred, DropsOne, Dying, Referring
  <2>7. ~Refer(t) /\ ~Spawn(t)
    <3>1. ~Refer(t)
      BY ConcurrentAssumption DEF Refer, Referred
    <3>2. ~Spawn(t)
      BY DEF Spawn, Go, Referred
    <3> QED
      BY <3>1, <3>2
  <2> QED
    BY <1>1, <2>1, <2>2, <2>3, <2>4, <2>5, <2>6, <2>7 DEF Step, Destroy
<1>2. CASE UNCHANGED vars
  BY <1>2 DEF vars, threadVars, endpointVars, Referred, DropsOne, Dying, Referring
<1> QED
  BY <1>1, <1>2 DEF Next

\* However threads race to drop references, an endpoint is not deleted while
\* another fibre refers to it, where no reference is copied while they run.
THEOREM SharedEndpointIsKept == Spec => []EndpointKept
<1>1. ASSUME Copying \/ Referred PROVE EndpointKept
  <2> SUFFICES ASSUME Referred, NEW t \in At({"endpoint", "leave", "delete", "clear", "zero"}),
                      NEW f \in Fibre, epref[f] = epref[Dying(t)]
               PROVE  f = Dying(t)
    BY <1>1 DEF EndpointKept
  <2>1. Referring(epref[Dying(t)]) = {Dying(t)}
    BY DEF Referred, DropsOne, At, Deletes
  <2> QED
    BY <2>1 DEF Referring
<1>2. Init => PlacedUntilLost /\ (Copying \/ Referred)
  <2>1. Init => Typed /\ active \subseteq live
    BY PlacedInit DEF Placed, Init
  <2> QED
    BY <2>1, PlacedInit, ReferredInit DEF PlacedUntilLost
<1>3. PlacedUntilLost /\ (Copying \/ Referred) /\ [Next]_vars
        => PlacedUntilLost' /\ (Copying \/ Referred)'
  BY PlacedNext, ReferredNext
<1> QED
  BY <1>1, <1>2, <1>3, PTL DEF Spec

-----------------------------------------------------------------------------
(***************************************************************************)
(* Who is taken for the last that could answer                             *)
(***************************************************************************)

\* What holds until a thread begins to delete the channel: nobody overwrites
\* top, and the count says no less than there are endpoints to answer with.
LinksHold == \A t \in Thread : pc[t] \in {"unlink", "link"} => link[t] = top

Counted ==
  /\ refcnt \in Int
  /\ 1 + Cardinality(Endpoints)
       <= refcnt + Cardinality(Suspended) + Cardinality(Pushing) + Cardinality(Counting)

Uncut == LinksHold /\ LivingRefer /\ Counted

LEMMA EndpointsFinite == IsFiniteSet(Endpoints) /\ Cardinality(Endpoints) \in Nat
<1>1. PICK E : E = {epref[f] : f \in Fibre}
  OBVIOUS
<1>2. PICK e : e = [f \in Fibre |-> epref[f]]
  OBVIOUS
<1>3. e \in Surjection(Fibre, E)
  BY <1>1, <1>2 DEF Surjection
<1>4. IsFiniteSet(E)
  BY <1>3, ConcurrentAssumption, FS_Surjection
<1>5. Endpoints \subseteq E
  BY <1>1 DEF Endpoints
<1> QED
  BY <1>4, <1>5, FS_Subset, FS_CardinalityType

\* Once begun, the deletion is done, or a thread is at it.
LEMMA DeletingStays ==
  ASSUME Placed, NEW t \in Thread, Step(t), Deleting
  PROVE  Deleting'
<1>0. /\ Typed /\ Local(t) /\ Only(t)
      /\ Deleting <=> freed \/ \E u \in Thread : \/ pc[u] \in {"delete", "clear", "zero"}
                                                 \/ ChannelFrame \in Elements(unwind[u])
      /\ Deleting' <=> freed' \/ \E u \in Thread : \/ pc'[u] \in {"delete", "clear", "zero"}
                                                   \/ ChannelFrame \in Elements(unwind'[u])
  BY OnlyOne DEF Placed, Deleting, Elements
<1>1. CASE FindWork(t) \/ Transfer(t) \/ Refer(t) \/ Spawn(t) \/ End(t) \/ UseFreed(t)
  <2>1. UNCHANGED freed
    BY <1>1 DEF FindWork, Transfer, Ask, Lock, Match, Unlink, CountPeer, Copy, Resume, Check,
                Subtract, Push, Link, Pop, Starve, Refer, Spawn, End, UseFreed, channelVars
  <2>2. UNCHANGED unwind \/ unwind[t] = << >>
    <3>1. CASE Starve(t) \/ End(t)
      <4>1. pc[t] \in {"starved", "run"}
        BY <1>0, <3>1, FetchPlaces, GoPlaces DEF Starve, End, Typed
      <4> QED
        BY <1>0, <4>1 DEF Local, Destroying
    <3>2. CASE ~(Starve(t) \/ End(t))
      BY <1>1, <3>2 DEF FindWork, Transfer, Ask, Lock, Match, Unlink, CountPeer, Copy, Resume,
                  Check, Subtract, Push, Link, Pop, Refer, Spawn, UseFreed, threadVars
    <3> QED
      BY <3>1, <3>2
  <2>3. pc[t] \notin {"delete", "clear", "zero"} \/ pc' = pc
    <3>1. CASE UseFreed(t)
      <4>1. UNCHANGED threadVars
        BY <3>1 DEF UseFreed
      <4> QED
        BY <4>1 DEF threadVars
    <3>2. CASE FindWork(t) \/ Pop(t) \/ Starve(t)
      <4>1. PICK from \in {"idle", "pop", "starved"}, to \in {"run", "idle", "unwind"} :
              Go(t, from, to)
        BY <3>2, FetchPlaces DEF FindWork, Pop, Starve
      <4>2. pc[t] \in {"idle", "pop", "starved"}
        BY <1>0, <4>1, GoPlaces DEF Typed
      <4> QED
        BY <4>2
    <3>3. CASE \/ \E dir \in {"read", "write"} : Ask(t, dir)
               \/ Lock(t) \/ Match(t) \/ Unlink(t) \/ CountPeer(t) \/ Copy(t) \/ Resume(t)
               \/ Check(t) \/ Subtract(t) \/ Push(t) \/ Link(t) \/ Refer(t) \/ Spawn(t)
               \/ End(t)
      <4>1. \A from, to : Go(t, from, to) => pc[t] = from
        BY DEF Go
      <4> QED
        BY <3>3, <4>1
           DEF Ask, Lock, Match, Unlink, CountPeer, Copy, Resume, Check, Subtract, Push, Link,
               Refer, Spawn, End
    <3> QED
      BY <1>1, <3>1, <3>2, <3>3 DEF Transfer
  <2> QED
    BY <1>0, <2>1, <2>2, <2>3 DEF Only, Elements
<1>2. CASE FreeChannel(t)
  BY <1>0, <1>2 DEF FreeChannel
<1>3. CASE FreeFibre(t)
  <2>1. /\ Unwinding(t) /\ Return(t) /\ Dying(t) # ChannelFrame /\ UNCHANGED freed
    BY <1>3 DEF FreeFibre, channelVars
  <2>2. /\ pc[t] = "unwind" /\ Elements(unwind[t]) = Elements(unwind'[t]) \cup {Dying(t)}
    BY <1>0, <2>1, ReturnFacts DEF Dying
  <2> QED
    BY <1>0, <2>1, <2>2 DEF Only
<1>4. CASE ClearRefcnt(t)
  <2>1. pc[t] = "zero" /\ unwind'[t] = link[t] \o <<ChannelFrame>> \o unwind[t]
    BY <1>0, <1>4, GoPlaces DEF ClearRefcnt, Typed
  <2>2. /\ link[t] \in Seq(Fibre) /\ unwind[t] \in Seq(Fibre \cup {ChannelFrame})
        /\ Distinct(link[t]) /\ FibresOnce(unwind[t])
        /\ Elements(link[t]) \cap Elements(unwind[t]) = {}
    BY <1>0, <2>1 DEF Local, Typed
  <2>3. ChannelFrame \in Elements(unwind'[t])
    BY <2>1, <2>2, OnceConcat
  <2> QED
    BY <1>0, <2>3
<1>5. CASE \/ LoadReferences(t) \/ ReloadReferences(t) \/ DropReference(t)
           \/ LoadRefcnt(t) \/ LeaveChannel(t) \/ DeleteChannel(t) \/ ClearTop(t)
  <2>1. /\ UNCHANGED <<freed, unwind>>
        /\ pc[t] \in {"delete", "clear", "zero"} => pc'[t] \in {"delete", "clear", "zero"}
    BY <1>0, <1>5, GoPlaces
       DEF LoadReferences, ReloadReferences, DropReference, LoadRefcnt, LeaveChannel,
           DeleteChannel, ClearTop, channelVars, Typed
  <2> QED
    BY <1>0, <2>1 DEF Only
<1> QED
  BY <1>1, <1>2, <1>3, <1>4, <1>5 DEF Step, Destroy

\* A step of another thread leaves the list alone that a thread has loaded.
LEMMA LinksKept ==
  ASSUME Exclusion, Placed, LinksHold, ~Deleting, NEW t \in Thread, Step(t),
         UNCHANGED top \/ pc[t] \in InsidePlaces,
         pc'[t] \in {"unlink", "link"} => link'[t] = top'
  PROVE  LinksHold'
<1> SUFFICES ASSUME NEW u \in Thread, pc'[u] \in {"unlink", "link"}
             PROVE  link'[u] = top'
  BY DEF LinksHold
<1>1. CASE u = t
  BY <1>1
<1>2. CASE u # t
  <2>1. pc'[u] = pc[u] /\ link'[u] = link[u]
    BY <1>2, OnlyOne DEF Placed, Only
  <2>2. top' = top
    BY <1>2, <2>1 DEF Exclusion, InsidePlaces
  <2> QED
    BY <2>1, <2>2 DEF LinksHold
<1> QED
  BY <1>1, <1>2

\* A step at which nothing is counted, nobody suspended and no reference lost.
LEMMA UncutQuiet ==
  ASSUME Exclusion, Placed, Uncut, ~Deleting, NEW t \in Thread, Step(t),
         UNCHANGED <<epref, refcnt, top>>, live' \subseteq live,
         Unwinding(t) /\ Head(unwind[t]) \in live' => epref[Head(unwind[t])] # None,
         pc[t] \in {"push", "link"} <=> pc'[t] \in {"push", "link"},
         pc[t] # "count", pc'[t] # "count",
         pc'[t] \in {"unlink", "link"} => link'[t] = top
  PROVE  Uncut'
<1>1. Only(t)
  BY OnlyOne DEF Placed
<1>2. LinksHold'
  BY LinksKept DEF Uncut
<1>3. LivingRefer'
  BY <1>1, LivingKept DEF Uncut
<1>4. /\ Cardinality(Pushing)' = Cardinality(Pushing)
      /\ Cardinality(Counting)' = Cardinality(Counting)
  BY <1>1, CountsMove DEF Only
<1>5. Suspended' = Suspended /\ Endpoints' = Endpoints
  BY DEF Suspended, Endpoints
<1>6. Counted'
  BY <1>4, <1>5 DEF Counted, Uncut
<1> QED
  BY <1>2, <1>3, <1>6 DEF Uncut

\* One at which a thread inside counts or suspends.
LEMMA UncutInside ==
  ASSUME Exclusion, Placed, Uncut, ~Deleting, NEW t \in Thread, Step(t),
         Unlink(t) \/ CountPeer(t) \/ Subtract(t) \/ Link(t)
  PROVE  Uncut'
<1>0. Typed /\ Local(t) /\ Only(t) /\ refcnt \in Int
  BY OnlyOne DEF Placed, Uncut, Counted
<1>1. /\ pc[t] \in {"unlink", "count", "subtract", "link"} /\ pc'[t] \notin {"unlink", "link"}
      /\ UNCHANGED <<epref, live>>
  BY <1>0, GoPlaces DEF Unlink, CountPeer, Subtract, Link, Typed, fibreVars, endpointVars
<1>2. LinksHold'
  BY <1>1, LinksKept DEF Uncut, InsidePlaces
<1>3. LivingRefer'
  BY <1>0, <1>1, LivingKept DEF Uncut, Unwinding
<1>4. /\ Endpoints' = Endpoints /\ Cardinality(Endpoints) \in Nat
      /\ IsFiniteSet(Suspended) /\ Cardinality(Suspended) \in Nat
      /\ Cardinality(Pushing) \in Nat /\ Cardinality(Counting) \in Nat
  BY <1>1, EndpointsFinite, FiniteParts DEF Endpoints, Pushing, Counting
<1>5. Counted'
  <2>0. \A u \in Thread \ {t} : pc'[u] = pc[u]
    BY <1>0 DEF Only
  <2>1. CASE Unlink(t)
    <3>1. /\ pc[t] = "unlink" /\ pc'[t] = "count" /\ refcnt' = refcnt
          /\ top # << >> /\ top' = Tail(top)
      <4>1. pc[t] = "unlink" /\ pc'[t] = "count" /\ refcnt' = refcnt /\ top' = Tail(link[t])
        BY <1>0, <2>1, GoPlaces DEF Unlink, StoreTop, Typed
      <4> QED
        BY <1>0, <4>1 DEF Uncut, LinksHold, Local
    <3>2. /\ Elements(top) = Elements(Tail(top)) \cup {Head(top)}
          /\ Head(top) \notin Elements(Tail(top))
      BY <1>0, <3>1, PopElements DEF Placed, Typed
    <3>3. Suspended' = Suspended \ {Head(top)} /\ Head(top) \in Suspended
      BY <3>1, <3>2 DEF Suspended, Elements
    <3>4. Cardinality(Suspended)' = Cardinality(Suspended) - 1
      BY <1>4, <3>3, FS_RemoveElement
    <3>5. /\ Cardinality(Pushing)' = Cardinality(Pushing)
          /\ Cardinality(Counting)' = Cardinality(Counting) + 1
      BY <2>0, <3>1, CountsMove
    <3> QED
      BY <1>0, <1>4, <3>1, <3>4, <3>5 DEF Counted, Uncut
  <2>2. CASE CountPeer(t)
    <3>1. pc[t] = "count" /\ pc'[t] = "copy" /\ refcnt' = refcnt + 1 /\ top' = top
      BY <1>0, <2>2, GoPlaces DEF CountPeer, Typed
    <3>2. /\ Cardinality(Pushing)' = Cardinality(Pushing)
          /\ Cardinality(Counting)' = Cardinality(Counting) - 1
      BY <2>0, <3>1, CountsMove
    <3>3. Suspended' = Suspended
      BY <3>1 DEF Suspended
    <3> QED
      BY <1>0, <1>4, <3>1, <3>2, <3>3 DEF Counted, Uncut
  <2>3. CASE Subtract(t)
    <3>1. pc[t] = "subtract" /\ pc'[t] = "push" /\ refcnt' = refcnt - 1 /\ top' = top
      BY <1>0, <2>3, GoPlaces DEF Subtract, Typed
    <3>2. /\ Cardinality(Pushing)' = Cardinality(Pushing) + 1
          /\ Cardinality(Counting)' = Cardinality(Counting)
      BY <2>0, <3>1, CountsMove
    <3>3. Suspended' = Suspended
      BY <3>1 DEF Suspended
    <3> QED
      BY <1>0, <1>4, <3>1, <3>2, <3>3 DEF Counted, Uncut
  <2>4. CASE Link(t)
    <3>1. /\ pc[t] = "link" /\ pc'[t] = "pop" /\ refcnt' = refcnt
          /\ top' = <<current[t]>> \o top
      <4>1. /\ pc[t] = "link" /\ pc'[t] = "pop" /\ refcnt' = refcnt
            /\ top' = <<current[t]>> \o link[t]
        BY <1>0, <2>4, GoPlaces DEF Link, StoreTop, Typed
      <4> QED
        BY <4>1 DEF Uncut, LinksHold
    <3>2. current[t] \in Fibre /\ current[t] \notin Suspended
      BY <1>0, <3>1 DEF Local, Destroying, Mine, Runs, Placed
    <3>3. Suspended' = Suspended \cup {current[t]}
      <4>1. Elements(top') = Elements(top) \cup {current[t]}
        BY <1>0, <3>1, <3>2, PushElements DEF Typed
      <4> QED
        BY <4>1 DEF Suspended, Elements
    <3>4. Cardinality(Suspended)' = Cardinality(Suspended) + 1
      BY <1>4, <3>2, <3>3, FS_AddElement
    <3>5. /\ Cardinality(Pushing)' = Cardinality(Pushing) - 1
          /\ Cardinality(Counting)' = Cardinality(Counting)
      BY <2>0, <3>1, CountsMove
    <3> QED
      BY <1>0, <1>4, <3>1, <3>4, <3>5 DEF Counted, Uncut
  <2> QED
    BY <2>1, <2>2, <2>3, <2>4
<1> QED
  BY <1>2, <1>3, <1>5 DEF Uncut

\* One at which a reference goes, or an endpoint.
LEMMA UncutLess ==
  ASSUME Exclusion, Placed, Referred, Uncut, ~Deleting, NEW t \in Thread, Step(t),
         DropReference(t) \/ LeaveChannel(t) \/ (LoadRefcnt(t) /\ refcnt = 0)
  PROVE  Uncut'
<1>0. Typed /\ Local(t) /\ Only(t) /\ refcnt \in Int
  BY OnlyOne DEF Placed, Uncut, Counted
<1>1. /\ pc[t] \in {"store", "leave", "endpoint"} /\ pc'[t] = "unwind"
      /\ epref' = [epref EXCEPT ![Dying(t)] = None]
      /\ refcnt' = IF pc[t] = "leave" THEN refcnt - 1 ELSE refcnt
      /\ UNCHANGED <<live, unwind, top>>
  BY <1>0, GoPlaces DEF DropReference, LeaveChannel, LoadRefcnt, DeleteEndpoint, Typed,
                        fibreVars, channelVars
<1>2. PICK h \in Fibre : h = Dying(t) /\ unwind[t] # << >> /\ epref[h] # None
  BY <1>0, <1>1 DEF Local, Dying, Destroying, Referred, DropsOne, Deletes
<1>3. PICK e \in Endpoint : e = epref[h]
  BY <1>2 DEF Referred
<1>4. LinksHold'
  BY <1>1, LinksKept DEF Uncut
<1>5. LivingRefer'
  BY <1>0, <1>1, <1>2, LivingLess DEF Uncut, Dying, Typed, Referred
<1>6. /\ IsFiniteSet(Endpoints) /\ Cardinality(Endpoints) \in Nat
      /\ Cardinality(Endpoints') \in Nat
      /\ Cardinality(Suspended) \in Nat
      /\ Cardinality(Pushing) \in Nat /\ Cardinality(Counting) \in Nat
  <2>1. Endpoints' \subseteq Endpoints
    BY <1>1, <1>2 DEF Endpoints, Referred
  <2> QED
    BY <2>1, EndpointsFinite, FiniteParts, FS_Subset, FS_CardinalityType DEF Pushing, Counting
<1>7. Cardinality(Endpoints') <= IF pc[t] = "leave" THEN Cardinality(Endpoints) - 1
                                                    ELSE Cardinality(Endpoints)
  <2>1. CASE pc[t] = "leave"
    <3>1. Referring(e) = {h}
      BY <1>2, <1>3, <2>1 DEF Referred, DropsOne, Deletes
    <3>2. e \in Endpoints /\ e # None
      BY <1>2, <1>3 DEF Endpoints
    <3>3. Endpoints' \subseteq Endpoints \ {e}
      BY <1>1, <1>2, <1>3, <3>1 DEF Endpoints, Referred, Referring
    <3>4. /\ IsFiniteSet(Endpoints \ {e})
          /\ Cardinality(Endpoints \ {e}) = Cardinality(Endpoints) - 1
      BY <1>6, <3>2, FS_RemoveElement
    <3> QED
      BY <2>1, <3>3, <3>4, FS_Subset
  <2>2. CASE pc[t] # "leave"
    <3>1. Endpoints' \subseteq Endpoints
      BY <1>1, <1>2 DEF Endpoints, Referred
    <3> QED
      BY <1>6, <2>2, <3>1, FS_Subset
  <2> QED
    BY <2>1, <2>2
<1>8. /\ Cardinality(Pushing)' = Cardinality(Pushing)
      /\ Cardinality(Counting)' = Cardinality(Counting)
  BY <1>0, <1>1, CountsMove DEF Only
<1>9. Suspended' = Suspended
  BY <1>1 DEF Suspended
<1>10. Counted'
  <2>1. refcnt' \in Int
    BY <1>0, <1>1
  <2>2. 1 + Cardinality(Endpoints')
          <= refcnt' + Cardinality(Suspended) + Cardinality(Pushing) + Cardinality(Counting)
    BY <1>0, <1>1, <1>6, <1>7 DEF Counted, Uncut
  <2> QED
    BY <1>8, <1>9, <2>1, <2>2 DEF Counted
<1> QED
  BY <1>4, <1>5, <1>10 DEF Uncut

LEMMA UncutInit == Init => Copying \/ Uncut
<1> SUFFICES ASSUME Init, ~Copying PROVE Uncut
  OBVIOUS
<1>1. LinksHold /\ LivingRefer
  BY DEF Init, LinksHold, LivingRefer
<1>2. /\ Cardinality(Endpoints) \in Nat /\ Cardinality(Suspended) \in Nat
      /\ Cardinality(Pushing) \in Nat /\ Cardinality(Counting) \in Nat
  BY PlacedInit, EndpointsFinite, FiniteParts DEF Pushing, Counting
<1>3. refcnt = 1 + Cardinality(Endpoints)
  BY DEF Init
<1>4. Counted
  BY <1>2, <1>3 DEF Counted
<1> QED
  BY <1>1, <1>4 DEF Uncut

LEMMA UncutStep ==
  ASSUME Exclusion, Placed, Referred, Uncut, ~Deleting, NEW t \in Thread, Step(t),
         ~Deleting'
  PROVE  Uncut'
<1>0. Typed /\ Local(t)
  BY DEF Placed
<1>1. CASE FindWork(t) \/ Pop(t) \/ Starve(t)
  <2>1. PICK from \in {"idle", "pop", "starved"}, to \in {"run", "idle", "unwind"} :
          Go(t, from, to)
    BY <1>1, FetchPlaces DEF FindWork, Pop, Starve
  <2>2. pc[t] \in {"idle", "pop", "starved"} /\ pc'[t] \in {"run", "idle", "unwind"}
    BY <1>0, <2>1, GoPlaces DEF Typed
  <2>3. UNCHANGED <<epref, refcnt, top, live>>
    BY <1>1 DEF FindWork, Pop, Starve, channelVars, endpointVars
  <2> QED
    BY <2>2, <2>3, UncutQuiet DEF Unwinding
<1>2. CASE \/ \E dir \in {"read", "write"} : Ask(t, dir)
           \/ Lock(t) \/ Copy(t) \/ Resume(t) \/ Check(t) \/ End(t)
  <2>1. /\ pc[t] \in {"run", "lock", "copy", "resume", "check"}
        /\ pc'[t] \in {"lock", "match", "resume", "run", "starved", "subtract", "unwind"}
    BY <1>0, <1>2, GoPlaces DEF Ask, Lock, Copy, Resume, Check, End, Typed
  <2>2. UNCHANGED <<epref, refcnt, top, live>>
    BY <1>2 DEF Ask, Lock, Copy, Resume, Check, End, fibreVars, channelVars, endpointVars
  <2> QED
    BY <2>1, <2>2, UncutQuiet DEF Unwinding
<1>3. CASE Match(t) \/ Push(t)
  <2>1. /\ pc[t] \in {"match", "push"} /\ pc'[t] \in {"unlink", "check", "link"}
        /\ pc[t] = "push" <=> pc'[t] = "link"
        /\ pc'[t] \in {"unlink", "link"} => link'[t] = top
    BY <1>0, <1>3, GoPlaces DEF Match, Push, Typed
  <2>2. UNCHANGED <<epref, refcnt, top, live>>
    BY <1>3 DEF Match, Push, fibreVars, channelVars, endpointVars
  <2> QED
    BY <2>1, <2>2, UncutQuiet DEF Unwinding
<1>4. CASE LoadReferences(t)
  <2>1. /\ pc[t] = "unwind" /\ pc'[t] \in {"endpoint", "drop"}
        /\ epref[Head(unwind[t])] # None
        /\ UNCHANGED <<epref, refcnt, top, live>>
    BY <1>0, <1>4, GoPlaces DEF LoadReferences, Unwinding, Dying, Typed, fibreVars,
                                channelVars, endpointVars
  <2> QED
    BY <2>1, UncutQuiet
<1>5. CASE ReloadReferences(t) \/ (LoadRefcnt(t) /\ refcnt # 0)
  <2>1. /\ pc[t] \in {"drop", "endpoint"} /\ pc'[t] \in {"store", "delete", "leave"}
        /\ UNCHANGED <<epref, refcnt, top, live>>
    BY <1>0, <1>5, GoPlaces DEF ReloadReferences, LoadRefcnt, Typed, fibreVars, channelVars,
                                endpointVars
  <2> QED
    BY <2>1, UncutQuiet DEF Unwinding
<1>6. CASE FreeFibre(t)
  <2>1. /\ Unwinding(t) /\ Return(t) /\ live' = live \ {Head(unwind[t])}
        /\ UNCHANGED <<epref, refcnt, top>>
    BY <1>6 DEF FreeFibre, Dying, channelVars, endpointVars
  <2>2. pc[t] = "unwind" /\ pc'[t] \in {"unwind", "pop", "run"}
    BY <1>0, <2>1, ReturnFacts
  <2> QED
    BY <2>1, <2>2, UncutQuiet
<1>7. ~FreeChannel(t)
  BY DEF FreeChannel, Deleting
<1>8. CASE Unlink(t) \/ CountPeer(t) \/ Subtract(t) \/ Link(t)
  BY <1>8, UncutInside
<1>9. CASE DropReference(t) \/ LeaveChannel(t) \/ (LoadRefcnt(t) /\ refcnt = 0)
  BY <1>9, UncutLess
<1>10. ~Refer(t) /\ ~Spawn(t)
  <2>1. ~Refer(t)
    BY ConcurrentAssumption DEF Refer, Referred
  <2>2. ~Spawn(t)
    BY DEF Spawn, Go, Referred
  <2> QED
    BY <2>1, <2>2
<1>11. ~DeleteChannel(t) /\ ~ClearTop(t) /\ ~ClearRefcnt(t)
  BY <1>0, GoPlaces DEF DeleteChannel, ClearTop, ClearRefcnt, Deleting, Typed
<1>12. CASE UseFreed(t)
  <2>1. UNCHANGED <<threadVars, fibreVars, channelVars, endpointVars>>
    BY <1>12 DEF UseFreed
  <2> QED
    BY <2>1 DEF threadVars, fibreVars, channelVars, endpointVars, Uncut, LinksHold,
                LivingRefer, Unwinding, Counted, Endpoints, Suspended, Pushing, Counting, At
<1> QED
  BY <1>1, <1>2, <1>3, <1>4, <1>5, <1>6, <1>7, <1>8, <1>9, <1>10, <1>11, <1>12
     DEF Step, Transfer, Destroy

\* Where references are copied only before the threads run, the counts are kept
\* until the channel is deleted.
LastInv ==
  /\ Exclusion /\ PlacedUntilLost
  /\ Copying \/ Referred
  /\ Copying \/ Deleting \/ Uncut

LEMMA LastNext ==
  ASSUME LastInv, [Next]_vars
  PROVE  LastInv'
<1>1. Exclusion' /\ PlacedUntilLost' /\ (Copying \/ Referred)'
  BY ExclusionNext, PlacedNext, ReferredNext DEF LastInv
<1>2. (Copying \/ Deleting \/ Uncut)'
  <2> SUFFICES ASSUME ~Copying, Referred, Deleting \/ Uncut
               PROVE  Deleting' \/ Uncut'
    BY DEF LastInv, Next, Copying, vars
  <2>1. ASSUME NEW t \in Thread, Step(t) PROVE Deleting' \/ Uncut'
    <3>1. Placed /\ Exclusion
      BY <2>1, StepBeforeLost DEF LastInv, PlacedUntilLost
    <3> QED
      BY <2>1, <3>1, DeletingStays, UncutStep
  <2>2. CASE UNCHANGED vars
    BY <2>2 DEF vars, threadVars, fibreVars, channelVars, endpointVars, Uncut, LinksHold,
                LivingRefer, Unwinding, Counted, Endpoints, Suspended, Pushing, Counting, At,
                Deleting
  <2> QED
    BY <2>1, <2>2 DEF Next
<1> QED
  BY <1>1, <1>2 DEF LastInv

\* The count was one.
LEMMA LastIsOne ==
  ASSUME pc \in [Thread -> Places], NEW t \in Thread, [Next]_vars,
         \/ pc[t] = "check" /\ pc'[t] = "starved"
         \/ pc[t] = "endpoint" /\ pc'[t] = "delete"
  PROVE  refcnt = 1
<1>1. PICK u \in Thread : Step(u)
  BY DEF Next, vars, threadVars
<1>2. u = t
  BY <1>1, StepOfLock
<1>3. \A from, to : Go(t, from, to) => pc[t] = from /\ pc'[t] = to
  BY DEF Go
<1>4. CASE Check(t) \/ LoadRefcnt(t)
  BY <1>3, <1>4 DEF Check, LoadRefcnt
<1>5. CASE \/ FindWork(t) \/ Pop(t) \/ Starve(t)
  <2>1. PICK from \in {"idle", "pop", "starved"}, to \in {"run", "idle", "unwind"} :
          Go(t, from, to)
    BY <1>5, FetchPlaces DEF FindWork, Pop, Starve
  <2> QED
    BY <1>3, <2>1
<1>6. CASE \/ \E dir \in {"read", "write"} : Ask(t, dir)
           \/ Lock(t) \/ Match(t) \/ Unlink(t) \/ CountPeer(t) \/ Copy(t) \/ Resume(t)
           \/ Subtract(t) \/ Push(t) \/ Link(t) \/ Refer(t) \/ Spawn(t) \/ End(t)
  <2>1. pc[t] \notin {"check", "endpoint"}
    BY <1>3, <1>6
       DEF Ask, Lock, Match, Unlink, CountPeer, Copy, Resume, Subtract, Push, Link, Refer,
           Spawn, End
  <2> QED
    BY <2>1
<1>7. CASE \/ LoadReferences(t) \/ ReloadReferences(t) \/ DropReference(t) \/ LeaveChannel(t)
           \/ DeleteChannel(t) \/ ClearTop(t) \/ ClearRefcnt(t) \/ FreeFibre(t)
           \/ FreeChannel(t)
  <2>1. pc[t] \notin {"check", "endpoint"}
    BY <1>3, <1>7
       DEF LoadReferences, ReloadReferences, DropReference, LeaveChannel, DeleteChannel,
           ClearTop, ClearRefcnt, FreeFibre, FreeChannel, Return
  <2> QED
    BY <2>1
<1>8. CASE UseFreed(t)
  <2>1. pc' = pc
    BY <1>8 DEF UseFreed, threadVars
  <2> QED
    BY <2>1
<1> QED
  BY <1>1, <1>2, <1>4, <1>5, <1>6, <1>7, <1>8 DEF Step, Transfer, Destroy

\* When at least as many fibres wait as there are endpoints, and nobody waits
\* who holds no reference, all wait but one.
LEMMA AllWait ==
  ASSUME Placed, NEW h \in References, NEW W, W \subseteq References \ {h},
         Cardinality(References) <= Cardinality(Endpoints) + 1,
         Cardinality(Endpoints) <= Cardinality(W)
  PROVE  W = References \ {h}
<1>1. /\ IsFiniteSet(References) /\ Cardinality(References) \in Nat
      /\ Cardinality(Endpoints) \in Nat
  BY FiniteParts, EndpointsFinite
<1>2. /\ IsFiniteSet(References \ {h})
      /\ Cardinality(References \ {h}) = Cardinality(References) - 1
  BY <1>1, FS_RemoveElement
<1>3. /\ Cardinality(W) \in Nat /\ Cardinality(W) <= Cardinality(References \ {h})
      /\ Cardinality(W) = Cardinality(References \ {h}) => W = References \ {h}
  BY <1>2, FS_Subset, FS_CardinalityType
<1> QED
  BY <1>1, <1>2, <1>3

\* The fibres suspended hold their references.
LEMMA SuspendedRefer ==
  ASSUME Placed, LivingRefer
  PROVE  Suspended \subseteq References
<1> SUFFICES ASSUME NEW f \in Suspended PROVE f \in References
  OBVIOUS
<1>1. f \in Fibre /\ f \in live
  BY FiniteParts DEF Placed
<1>2. \A t \in Thread : f \notin Elements(unwind[t])
  BY <1>1 DEF Placed, Mine
<1> QED
  BY <1>1, <1>2, LiveUsers

\* The fibre that a thread inside runs holds its reference, and so does a peer.
LEMMA InsideRefer ==
  ASSUME Placed, LivingRefer, NEW t \in Thread, pc[t] \in InsidePlaces
  PROVE  /\ current[t] \in (References \ Suspended) \cap Mine(t)
         /\ pc[t] = "count" => /\ peer[t] \in (References \ Suspended) \cap Mine(t)
                               /\ peer[t] # current[t]
<1>1. Typed /\ Local(t) /\ unwind[t] = << >>
  BY DEF Placed, Local, InsidePlaces, Destroying
<1>2. current[t] \in Mine(t)
  BY <1>1 DEF Local, Mine, Runs, InsidePlaces, Destroying
<1>3. pc[t] = "count" => peer[t] \in Mine(t) /\ peer[t] # current[t]
  BY <1>1 DEF Local, Mine, WithPeer, Typed
<1>4. \A f : f \notin Elements(unwind[t])
  BY <1>1 DEF Elements
<1> QED
  BY <1>2, <1>3, <1>4, MineUsers

\* Only one thread is inside.
LEMMA OneInside ==
  ASSUME Exclusion, NEW u \in Thread, pc[u] \in InsidePlaces
  PROVE  /\ pc[u] \in {"push", "link"} => Pushing = {u} /\ Counting = {}
         /\ pc[u] = "count" => Counting = {u} /\ Pushing = {}
         /\ pc[u] \notin {"push", "link", "count"} => Pushing = {} /\ Counting = {}
<1>1. \A v \in Thread : pc[v] \in {"push", "link", "count"} => v = u
  BY DEF Exclusion, InsidePlaces
<1> QED
  BY <1>1 DEF Pushing, Counting, At

\* The argument: who is taken for the last is the only one with a reference who
\* neither waits nor is about to.
LEMMA LastOne ==
  ASSUME Exclusion, Placed, Referred, Uncut, refcnt = 1,
         Cardinality(References) <= Cardinality(Endpoints) + 1,
         NEW t \in Thread, NEW h \in References \ Suspended,
         \/ pc[t] = "check" /\ h = current[t]
         \/ pc[t] = "endpoint" /\ h \in Mine(t)
  PROVE  OthersWait(h)
<1>1. /\ IsFiniteSet(Suspended) /\ Cardinality(Suspended) \in Nat
      /\ Cardinality(Endpoints) \in Nat
      /\ LivingRefer /\ Suspended \subseteq References \ {h}
  BY FiniteParts, EndpointsFinite, SuspendedRefer DEF Uncut
<1>2. Cardinality(Endpoints) <= Cardinality(Suspended) + Cardinality(Pushing) + Cardinality(Counting)
  <2>1. /\ 1 + Cardinality(Endpoints)
             <= 1 + Cardinality(Suspended) + Cardinality(Pushing) + Cardinality(Counting)
        /\ Cardinality(Pushing) \in Nat /\ Cardinality(Counting) \in Nat
    BY FiniteParts DEF Uncut, Counted, Pushing, Counting
  <2> QED
    BY <1>1, <2>1
<1>3. CASE Pushing = {} /\ Counting = {}
  <2>1. Cardinality(Endpoints) <= Cardinality(Suspended)
    BY <1>1, <1>2, <1>3, FS_EmptySet
  <2>2. Suspended = References \ {h}
    BY <1>1, <2>1, AllWait
  <2> QED
    BY <2>2 DEF OthersWait, Waits
<1>4. CASE \E u \in Thread : pc[u] \in {"push", "link"}
  <2>1. PICK u \in Thread : pc[u] \in {"push", "link"}
    BY <1>4
  <2>2. Pushing = {u} /\ Counting = {} /\ pc[u] \in InsidePlaces
    BY <2>1, OneInside DEF InsidePlaces
  <2>3. pc[t] = "endpoint" /\ u # t
    BY <2>1, <2>2 DEF Exclusion, InsidePlaces
  <2>4. current[u] \in (References \ Suspended) \cap Mine(u)
    BY <1>1, <2>2, InsideRefer
  <2>5. current[u] # h
    BY <2>3, <2>4 DEF Placed
  <2> DEFINE W == Suspended \cup {current[u]}
  <2>6. W \subseteq References \ {h} /\ Cardinality(W) = Cardinality(Suspended) + 1
    BY <1>1, <2>4, <2>5, FS_AddElement
  <2> HIDE DEF W
  <2>7. Cardinality(Endpoints) <= Cardinality(W)
    <3>1. Cardinality(Pushing) = 1 /\ Cardinality(Counting) = 0
      BY <2>2, FS_EmptySet, FS_Singleton
    <3> QED
      BY <1>1, <1>2, <2>6, <3>1
  <2>8. W = References \ {h}
    BY <2>6, <2>7, AllWait
  <2> QED
    BY <2>2, <2>8 DEF OthersWait, Waits, W
<1>5. CASE \E u \in Thread : pc[u] = "count"
  <2>1. PICK u \in Thread : pc[u] = "count"
    BY <1>5
  <2>2. Pushing = {} /\ Counting = {u} /\ pc[u] \in InsidePlaces
    BY <2>1, OneInside DEF InsidePlaces
  <2>3. pc[t] = "endpoint" /\ u # t
    BY <2>1, <2>2 DEF Exclusion, InsidePlaces
  <2>4. /\ current[u] \in (References \ Suspended) \cap Mine(u)
        /\ peer[u] \in (References \ Suspended) \cap Mine(u)
        /\ peer[u] # current[u]
    BY <1>1, <2>1, <2>2, InsideRefer
  <2>5. current[u] # h /\ peer[u] # h
    BY <2>3, <2>4 DEF Placed
  <2> DEFINE V == Suspended \cup {current[u]}
             W == V \cup {peer[u]}
  <2>6. /\ IsFiniteSet(V) /\ Cardinality(V) = Cardinality(Suspended) + 1
        /\ V \subseteq References \ {h} /\ peer[u] \notin V
    BY <1>1, <2>4, <2>5, FS_AddElement
  <2> HIDE DEF V
  <2>7. /\ Cardinality(W) = Cardinality(Suspended) + 2
        /\ W \subseteq References \ {h} /\ W # V
    <3>1. Cardinality(W) = Cardinality(V) + 1
      BY <2>6, FS_AddElement
    <3> QED
      BY <1>1, <2>4, <2>5, <2>6, <3>1
  <2> HIDE DEF W
  <2>8. Cardinality(Endpoints) <= Cardinality(V)
    <3>1. Cardinality(Pushing) = 0 /\ Cardinality(Counting) = 1
      BY <2>2, FS_EmptySet, FS_Singleton
    <3> QED
      BY <1>1, <1>2, <2>6, <3>1
  <2>9. Cardinality(Endpoints) <= Cardinality(W)
    BY <1>1, <2>6, <2>7, <2>8
  <2>10. V = References \ {h} /\ W = References \ {h}
    BY <2>6, <2>7, <2>8, <2>9, AllWait
  <2> QED
    BY <2>7, <2>10
<1> QED
  BY <1>3, <1>4, <1>5 DEF Pushing, Counting, At

\* Where references are copied only before the threads run, and are at most one
\* more than the endpoints, nobody is taken for the last that could answer, nor
\* an endpoint for the last, while another fibre that holds a reference neither
\* waits nor is about to.
THEOREM TheLastIsAlone == Spec => DeletedWhenOthersWait
<1>1. Init => LastInv
  <2>1. Init => Typed /\ active \subseteq live
    BY PlacedInit DEF Placed, Init
  <2> QED
    BY <2>1, ExclusionInit, PlacedInit, ReferredInit, UncutInit DEF LastInv, PlacedUntilLost
<1>2. LastInv /\ [Next]_vars => LastInv'
  BY LastNext
<1>3. ASSUME LastInv, [Next]_vars, ~Copying, ~Deleting,
             Cardinality(References) <= Cardinality(Endpoints) + 1,
             NEW t \in Thread
      PROVE  /\ pc[t] = "check" /\ pc'[t] = "starved" => OthersWait(current[t])
             /\ pc[t] = "endpoint" /\ pc'[t] = "delete" => OthersWait(Dying(t))
  <2> SUFFICES ASSUME \/ pc[t] = "check" /\ pc'[t] = "starved"
                      \/ pc[t] = "endpoint" /\ pc'[t] = "delete"
               PROVE  /\ pc[t] = "check" => OthersWait(current[t])
                      /\ pc[t] = "endpoint" => OthersWait(Dying(t))
    OBVIOUS
  <2>1. Exclusion /\ Referred /\ Uncut
    BY <1>3 DEF LastInv
  <2>2. refcnt = 1
    BY <1>3, <2>1, LastIsOne DEF Exclusion
  <2>3. Placed
    <3>1. PICK u \in Thread : Step(u)
      BY <1>3 DEF Next, vars, threadVars
    <3> QED
      BY <1>3, <3>1, StepBeforeLost DEF LastInv, PlacedUntilLost
  <2>4. CASE pc[t] = "check"
    <3>1. current[t] \in References \ Suspended
      BY <2>1, <2>3, <2>4, InsideRefer DEF Uncut, InsidePlaces
    <3> QED
      BY <1>3, <2>1, <2>2, <2>3, <2>4, <3>1, LastOne
  <2>5. CASE pc[t] = "endpoint"
    <3>1. /\ Typed /\ unwind[t] # << >> /\ Dying(t) \in Fibre /\ epref[Dying(t)] # None
      BY <2>1, <2>3, <2>5 DEF Placed, Local, Destroying, Dying, Referred, DropsOne, Deletes
    <3>2. Dying(t) \in Mine(t)
      BY <3>1, PopElements DEF Typed, Mine, Dying
    <3>3. Dying(t) \in References \ Suspended
      BY <2>3, <3>1, <3>2 DEF References, Placed
    <3> QED
      BY <1>3, <2>1, <2>2, <2>3, <2>5, <3>2, <3>3, LastOne
  <2> QED
    BY <2>4, <2>5
<1>4. LastInv /\ [Next]_vars
        => [~Copying /\ ~Deleting /\ Cardinality(References) <= Cardinality(Endpoints) + 1 =>
              \A t \in Thread :
                /\ pc[t] = "check" /\ pc'[t] = "starved" => OthersWait(current[t])
                /\ pc[t] = "endpoint" /\ pc'[t] = "delete" => OthersWait(Dying(t))]_vars
  BY <1>3
<1> QED
  BY <1>1, <1>2, <1>4, PTL DEF Spec, DeletedWhenOthersWait

-----------------------------------------------------------------------------
(***************************************************************************)
(* What the fibres ask, and the refinement of Rendezvous                   *)
(***************************************************************************)

\* The fibres whose request a thread is at work on.
Serves(t) ==
  {f \in Fibre : \/ current[t] = f /\ pc[t] \in InsidePlaces \cup {"lock", "copy"}
                 \/ peer[t] = f /\ pc[t] \in {"count", "copy"}}

\* The fibres that a thread has matched, or is about to, have opposite requests.
Matched(t) ==
  /\ pc[t] \in {"count", "copy"} => code[peer[t]] # code[current[t]]
  /\ pc[t] = "unlink" /\ link[t] = top => code[Head(top)] # code[current[t]]

\* Who asks has a request, and only a fibre that may end does, where nothing is
\* shared.
Requested ==
  /\ code \in [Fibre -> {"nothing", "read", "write"}]
  /\ word \in [Fibre -> Word]
  /\ \A f \in Fibre : f \in Asking => code[f] # "nothing"
  /\ \A t \in Thread : Matched(t)
  /\ Sharing \/ \A t \in Thread : Fibre \cap Elements(unwind[t]) \subseteq Quitter

LEMMA AskingServed ==
  ASSUME NEW f \in Fibre
  PROVE  f \in Asking <=> f \in Suspended \/ \E t \in Thread : f \in Serves(t)
BY DEF Asking, Serves, At

\* A thread serves fibres it has, which are then not on the channel.
LEMMA ServedAreMine ==
  ASSUME Placed, NEW t \in Thread
  PROVE  Serves(t) \subseteq Mine(t) /\ Serves(t) \cap Suspended = {}
<1>1. Serves(t) \subseteq Mine(t)
  BY DEF Serves, Mine, Runs, InsidePlaces
<1> QED
  BY <1>1 DEF Placed

\* What t has no other thread serves, and it is not on the channel.
LEMMA MineNotAsking ==
  ASSUME Placed, NEW t \in Thread, NEW f \in Mine(t), f \notin Serves(t)
  PROVE  f \notin Asking
<1>1. \A u \in Thread \ {t} : f \notin Serves(u)
  BY ServedAreMine DEF Placed
<1>2. f \in Fibre /\ f \notin Suspended
  BY DEF Mine, Placed
<1> QED
  BY <1>1, <1>2, AskingServed

\* Thread t alone changes who asks, among those it serves and those on the
\* channel.
LEMMA AskingMoves ==
  ASSUME Placed, NEW t \in Thread, Only(t), NEW f \in Fibre
  PROVE  f \in Asking' <=> \/ f \in Serves(t)' \cup Suspended'
                           \/ f \in Asking /\ f \notin Serves(t) \cup Suspended
<1>1. \A u \in Thread \ {t} : Serves(u)' = Serves(u)
  BY DEF Only, Serves
<1>2. f \in Asking' <=> f \in Suspended' \/ \E u \in Thread : f \in Serves(u)'
  BY DEF Asking, Serves, At
<1>3. \A u \in Thread \ {t} : f \in Serves(u) => f \notin Serves(t) \cup Suspended
  BY ServedAreMine DEF Placed
<1> QED
  BY <1>1, <1>2, <1>3, AskingServed

\* Who asks exists, and has a place.
LEMMA AskingLive ==
  ASSUME Placed, NEW f \in Fibre, f \in Asking
  PROVE  f \in live
<1>1. CASE f \in Suspended
  BY <1>1 DEF Placed
<1>2. CASE f \notin Suspended
  <2>1. PICK t \in Thread : f \in Serves(t)
    BY <1>2, AskingServed
  <2> QED
    BY <2>1, ServedAreMine DEF Placed
<1> QED
  BY <1>1, <1>2

\* A step that changes no request: who asks after it asked before, and threads
\* that have matched two fibres keep them.
LEMMA RequestedKept ==
  ASSUME Exclusion, Placed, Requested, NEW t \in Thread, Only(t), UNCHANGED <<given, code>>,
         word' \in [Fibre -> Word],
         top' \in {top, << >>} \/ pc[t] \in InsidePlaces,
         \A f \in Fibre : f \in Asking' => f \in Asking,
         Matched(t)',
         Sharing \/ Fibre \cap Elements(unwind'[t]) \subseteq Quitter
  PROVE  Requested'
<1>1. ASSUME NEW u \in Thread PROVE Matched(u)'
  <2>1. CASE u = t
    BY <2>1
  <2>2. CASE u # t
    <3>1. /\ Matched(u) /\ pc'[u] = pc[u] /\ peer'[u] = peer[u] /\ current'[u] = current[u]
          /\ link'[u] = link[u]
      BY <2>2 DEF Requested, Only
    <3>2. ASSUME pc[u] = "unlink", link[u] = top' PROVE top' = top
      <4>1. link[u] # << >>
        BY <3>2 DEF Placed, Local
      <4>2. pc[t] \notin InsidePlaces
        BY <2>2, <3>2 DEF Exclusion, InsidePlaces
      <4> QED
        BY <3>2, <4>1, <4>2
    <3> QED
      BY <3>1, <3>2 DEF Matched
  <2> QED
    BY <2>1, <2>2
<1>2. Sharing' <=> Sharing
  BY DEF Sharing, Copying
<1>3. Sharing \/ \A u \in Thread : Fibre \cap Elements(unwind'[u]) \subseteq Quitter
  BY DEF Requested, Only
<1> QED
  BY <1>1, <1>2, <1>3 DEF Requested, Elements

-----------------------------------------------------------------------------
(***************************************************************************)
(* Each step, as one of Rendezvous                                         *)
(***************************************************************************)

\* A step of t, of those that break nothing.
Whole(t) ==
  /\ Exclusion /\ Placed /\ Requested
  /\ Only(t) /\ UNCHANGED given
  /\ ub # "lost" /\ ub' # "lost"

\* What a step does to Requested, and to what Rendezvous sees.
Refines == Requested' /\ [Promise!RendezvousNext]_(Promise!rendezvousVars)

LEMMA KeepRefines ==
  ASSUME NEW t \in Thread, Whole(t), Requested',
         \/ \E f \in Fibre : Promise!Ask(f) \/ Promise!Quit(f) \/ Promise!Start(f)
         \/ Promise!Meet \/ Promise!Lose
  PROVE  Refines
<1>1. UNCHANGED <<Sharing, ub = "lost">> /\ ~(ub = "lost")
  BY DEF Whole, Sharing, Copying
<1>2. Promise!Keep
  BY <1>1 DEF Promise!Keep
<1> QED
  BY <1>2 DEF Refines, Promise!RendezvousNext

\* Who asks asks still, nobody else does, and no fibre goes.
LEMMA StutterRefines ==
  ASSUME NEW t \in Thread, Whole(t), UNCHANGED <<code, word, live>>,
         top' \in {top, << >>} \/ pc[t] \in InsidePlaces,
         Serves(t)' \cup Suspended' = Serves(t) \cup Suspended,
         Matched(t)',
         Sharing \/ Fibre \cap Elements(unwind'[t]) \subseteq Quitter
  PROVE  Refines
<1>1. \A f \in Fibre : f \in Asking' <=> f \in Asking
  BY AskingMoves, AskingServed DEF Whole
<1>2. Asks' = Asks
  BY <1>1 DEF Asks
<1>3. UNCHANGED <<Sharing, ub = "lost">>
  BY DEF Whole, Sharing, Copying
<1>4. word' \in [Fibre -> Word]
  BY DEF Requested, Whole
<1>5. Requested'
  BY <1>1, <1>4, RequestedKept DEF Whole
<1> QED
  BY <1>2, <1>3, <1>5 DEF Refines, Promise!rendezvousVars

\* The place, request and fibre of a thread that asks.
LEMMA AskRefines ==
  ASSUME NEW t \in Thread, Whole(t), NEW dir \in {"read", "write"}, Ask(t, dir)
  PROVE  Refines
<1>0. Placed /\ Requested /\ Only(t)
  BY DEF Whole
<1>1. /\ Typed /\ Local(t) /\ pc[t] = "run" /\ pc'[t] = "lock"
      /\ UNCHANGED <<current, peer, link, unwind, live, top>>
  BY <1>0, GoPlaces DEF Ask, Placed, Typed, channelVars
<1>2. PICK f \in Fibre : f = current[t]
  BY <1>1 DEF Local, Destroying
<1>3. peer[t] = None /\ None \notin Fibre /\ unwind[t] = << >>
  BY <1>1, ConcurrentAssumption DEF Local, WithPeer, Destroying
<1>4. Serves(t) = {} /\ Serves(t)' = {f} /\ Suspended' = Suspended
  BY <1>1, <1>2, <1>3 DEF Serves, Suspended, InsidePlaces
<1>5. \A g \in Fibre : g \in Asking' <=> g = f \/ g \in Asking
  <2>1. \A g \in Fibre : g \in Suspended => g \in Asking
    BY AskingServed
  <2> QED
    BY <1>0, <1>4, <2>1, AskingMoves
<1>6. f \in Mine(t) /\ f \notin Asking /\ f \in live /\ f \notin Suspended
  <2>1. f \in Mine(t)
    BY <1>1, <1>2 DEF Mine, Runs
  <2> QED
    BY <1>0, <1>4, <2>1, MineNotAsking DEF Placed
<1>7. code' = [code EXCEPT ![f] = dir]
  BY <1>2 DEF Ask
<1>8. Asks' = [Asks EXCEPT ![f] = dir] /\ Asks[f] = "nothing"
  BY <1>0, <1>1, <1>5, <1>6, <1>7 DEF Asks, Requested
<1>9. PICK x \in Word : word' = IF dir = "write" THEN [word EXCEPT ![f] = x] ELSE word
  BY <1>2 DEF Ask
<1>10. Promise!Ask(f)
  BY <1>8, <1>9 DEF Promise!Ask
<1>13. Requested'
  <2>1. \A g \in Fibre : g \in Asking' => code'[g] # "nothing"
    BY <1>0, <1>5, <1>7 DEF Requested
  <2>2. ASSUME NEW u \in Thread, pc'[u] \in {"count", "copy", "unlink"} PROVE Matched(u)'
    <3>1. u # t /\ pc[u] \in {"count", "copy", "unlink"}
      BY <1>0, <1>1, <2>2 DEF Only
    <3>2. Typed /\ Local(u) /\ Matched(u)
      BY <1>0 DEF Placed, Requested
    <3>3. current[u] \in Fibre /\ current[u] # f
      <4>1. current[u] \in Mine(u)
        BY <3>1, <3>2 DEF Local, Typed, Mine, Runs, Destroying
      <4> QED
        BY <1>0, <1>6, <3>1, <4>1 DEF Placed, Mine
    <3>4. pc[u] # "unlink" => peer[u] \in Fibre /\ peer[u] # f
      <4> SUFFICES ASSUME pc[u] # "unlink" PROVE peer[u] \in Fibre /\ peer[u] # f
        OBVIOUS
      <4>1. peer[u] \in Mine(u)
        BY <3>1, <3>2 DEF Local, Typed, Mine, WithPeer
      <4> QED
        BY <1>0, <1>6, <3>1, <4>1 DEF Placed, Mine
    <3>5. pc[u] = "unlink" /\ link[u] = top => Head(top) \in Fibre /\ Head(top) # f
      <4> SUFFICES ASSUME pc[u] = "unlink", link[u] = top
                   PROVE  Head(top) \in Fibre /\ Head(top) # f
        OBVIOUS
      <4>1. Head(top) \in Fibre /\ Head(top) \in Elements(top)
        BY <3>2, PopElements DEF Local, Typed
      <4> QED
        BY <1>6, <4>1 DEF Suspended, Elements
    <3>6. \A g \in Fibre \ {f} : code'[g] = code[g]
      BY <1>0, <1>7 DEF Requested
    <3>7. /\ pc'[u] = pc[u] /\ peer'[u] = peer[u] /\ current'[u] = current[u]
          /\ link'[u] = link[u] /\ top' = top
      BY <1>0, <1>1, <3>1 DEF Only
    <3>8. CASE pc[u] = "unlink"
      BY <3>2, <3>3, <3>5, <3>6, <3>7, <3>8 DEF Matched
    <3>9. CASE pc[u] # "unlink"
      BY <3>2, <3>3, <3>4, <3>6, <3>7, <3>9 DEF Matched
    <3> QED
      BY <3>8, <3>9
  <2>3. code' \in [Fibre -> {"nothing", "read", "write"}] /\ word' \in [Fibre -> Word]
    BY <1>0, <1>7, <1>9 DEF Requested
  <2>4. \A u \in Thread : Matched(u)'
    BY <2>2 DEF Matched
  <2>5. Sharing' = Sharing
    BY DEF Sharing, Copying, Whole
  <2> QED
    BY <1>0, <1>1, <2>1, <2>3, <2>4, <2>5 DEF Requested, Elements
<1> QED
  BY <1>10, <1>13, KeepRefines

\* The copy of the word, after which both fibres go on.
LEMMA CopyRefines ==
  ASSUME NEW t \in Thread, Whole(t), Copy(t)
  PROVE  Refines
<1>0. Exclusion /\ Placed /\ Requested /\ Only(t) /\ UNCHANGED given
  BY DEF Whole
<1>1. /\ Typed /\ Local(t) /\ pc[t] = "copy" /\ pc'[t] = "resume"
      /\ UNCHANGED <<current, peer, unwind, live, top, code>>
  BY <1>0, GoPlaces DEF Copy, Placed, Typed, channelVars
<1>2. PICK f \in Fibre : f = current[t]
  BY <1>1 DEF Local, Destroying
<1>3. PICK p \in Fibre : p = peer[t]
  BY <1>1 DEF Local, Typed, WithPeer
<1>4. p # f /\ Serves(t) = {f, p} /\ Serves(t)' = {} /\ Suspended' = Suspended
  BY <1>1, <1>2, <1>3, ConcurrentAssumption
     DEF Serves, Suspended, InsidePlaces, Local
<1>5. {f, p} \cap Suspended = {}
  BY <1>0, <1>4, ServedAreMine
<1>6. \A g \in Fibre : g \in Asking' <=> g \in Asking /\ g \notin {f, p}
  <2>1. \A g \in Fibre : g \in Suspended => g \in Asking
    BY AskingServed
  <2> QED
    BY <1>0, <1>4, <1>5, <2>1, AskingMoves
<1>7. f \in Asking /\ p \in Asking
  BY <1>4, AskingServed
<1>8. f \in live /\ p \in live
  BY <1>0, <1>7, AskingLive
<1>9. /\ code[f] \in {"read", "write"} /\ code[p] \in {"read", "write"}
      /\ code[f] # code[p]
  BY <1>0, <1>1, <1>2, <1>3, <1>7 DEF Requested, Matched
<1>10. /\ Asks[f] = code[f] /\ Asks[p] = code[p]
       /\ Asks' = [Asks EXCEPT ![f] = "nothing", ![p] = "nothing"]
       /\ Asks' = [Asks EXCEPT ![p] = "nothing", ![f] = "nothing"]
  BY <1>1, <1>4, <1>6, <1>7, <1>8 DEF Asks
<1>11. word' = IF code[f] = "read" THEN [word EXCEPT ![f] = word[p]]
                                   ELSE [word EXCEPT ![p] = word[f]]
  BY <1>2, <1>3 DEF Copy
<1>12. Promise!Meet
  <2>1. CASE code[f] = "read"
    BY <1>9, <1>10, <1>11, <2>1 DEF Promise!Meet
  <2>2. CASE code[f] = "write"
    BY <1>9, <1>10, <1>11, <2>2 DEF Promise!Meet
  <2> QED
    BY <1>9, <2>1, <2>2
<1>15. Requested'
  <2>1. word' \in [Fibre -> Word]
    BY <1>0, <1>11 DEF Requested
  <2>2. Sharing \/ Fibre \cap Elements(unwind'[t]) \subseteq Quitter
    BY <1>0, <1>1 DEF Requested
  <2>3. Matched(t)'
    BY <1>1 DEF Matched
  <2> QED
    BY <1>0, <1>1, <1>6, <2>1, <2>2, <2>3, RequestedKept
<1> QED
  BY <1>12, <1>15, KeepRefines

\* Fibres that wait are deleted: the destructors of t are to destroy them.
LEMMA LoseRefines ==
  ASSUME NEW t \in Thread, Whole(t), Sharing, NEW F \in SUBSET Fibre,
         UNCHANGED <<code, word, live>>,
         top' \in {top, << >>} \/ pc[t] \in InsidePlaces,
         Matched(t)',
         Serves(t)' \cup Suspended' = (Serves(t) \cup Suspended) \ F,
         F \subseteq Serves(t) \cup Suspended
  PROVE  Refines
<1>0. Exclusion /\ Placed /\ Requested /\ Only(t) /\ UNCHANGED given
  BY DEF Whole
<1>1. \A f \in Fibre : f \in Asking' <=> f \in Asking /\ f \notin F
  <2>1. \A f \in Serves(t) \cup Suspended : f \in Fibre => f \in Asking
    BY AskingServed
  <2> QED
    BY <1>0, <2>1, AskingMoves
<1>2. \A f \in F : f \in Asking /\ f \in live /\ code[f] \in {"read", "write"}
  BY <1>0, AskingServed, AskingLive DEF Requested
<1>3. \A f \in F : Asks[f] \in {"read", "write"}
  BY <1>2 DEF Asks
<1>4. Asks' = [f \in Fibre |-> IF f \in F THEN "nothing" ELSE Asks[f]]
  BY <1>1, <1>2 DEF Asks
<1>5. Asks \in [Fibre -> {"nothing", "read", "write", "gone"}]
  BY <1>0 DEF Asks, Requested
<1>6. Promise!Lose
  BY <1>3, <1>4, <1>5 DEF Promise!Lose
<1>8. word' \in [Fibre -> Word]
  BY <1>0 DEF Requested
<1>9. Requested'
  BY <1>0, <1>1, <1>8, RequestedKept
<1> QED
  BY <1>6, <1>9, KeepRefines

\* The places in which a thread serves its current fibre, its peer too in those
\* of Meeting.
Serving == InsidePlaces \cup {"lock", "copy"}
Meeting == {"count", "copy"}

\* What a thread does elsewhere.
LEMMA ElsewhereRefines ==
  ASSUME NEW t \in Thread, Whole(t), pc[t] \notin Serving, pc'[t] \notin Serving,
         UNCHANGED <<code, word, live, top>>,
         Sharing \/ Fibre \cap Elements(unwind'[t]) \subseteq Quitter
  PROVE  Refines
<1>1. Serves(t) = {} /\ Serves(t)' = {} /\ Matched(t)'
  BY DEF Serves, Serving, InsidePlaces, Matched
<1>2. Suspended' = Suspended
  BY DEF Suspended
<1> QED
  BY <1>1, <1>2, StutterRefines

\* The next step with the fibres it has.
LEMMA PlaceRefines ==
  ASSUME NEW t \in Thread, Whole(t),
         pc[t] \in Serving <=> pc'[t] \in Serving,
         pc[t] \in Meeting <=> pc'[t] \in Meeting,
         pc'[t] = "unlink" => code[Head(top)] # code[current[t]],
         UNCHANGED <<current, peer, unwind, code, word, live, top>>
  PROVE  Refines
<1>1. Serves(t)' = Serves(t) /\ Suspended' = Suspended
  BY DEF Serves, Suspended, Serving, Meeting
<1>2. Matched(t)'
  BY DEF Requested, Meeting, Matched, Whole
<1>3. Sharing \/ Fibre \cap Elements(unwind'[t]) \subseteq Quitter
  BY DEF Requested, Whole
<1> QED
  BY <1>1, <1>2, <1>3, StutterRefines

\* The fibre on top of the channel meets the current one, if it asks for the
\* opposite.
LEMMA MatchRefines ==
  ASSUME NEW t \in Thread, Whole(t), Match(t)
  PROVE  Refines
<1>1. Typed /\ UNCHANGED <<current, peer, unwind, live, code, word, top>>
  BY DEF Match, Whole, Placed, fibreVars, channelVars
<1>2. /\ pc[t] = "match" /\ pc'[t] \in {"unlink", "check"}
      /\ pc'[t] = "unlink" => code[Head(top)] # code[current[t]]
  BY <1>1, GoPlaces DEF Match, Typed, HasPeer
<1> QED
  BY <1>1, <1>2, PlaceRefines DEF Serving, Meeting, InsidePlaces

LEMMA UnlinkRefines ==
  ASSUME NEW t \in Thread, Whole(t), Unlink(t)
  PROVE  Refines
<1>0. Placed /\ Requested /\ Typed /\ Local(t) /\ Matched(t)
  BY DEF Whole, Placed, Requested
<1>1. /\ pc[t] = "unlink" /\ pc'[t] = "count"
      /\ UNCHANGED <<current, unwind, live, code, word>>
  BY <1>0, GoPlaces DEF Unlink, Typed, fibreVars
<1>2. top = link[t] /\ top' = Tail(top) /\ peer' = [peer EXCEPT ![t] = Head(top)]
  <2>1. StoreTop(t, Tail(link[t])) /\ ub = "nothing"
    BY GoPlaces, <1>0 DEF Unlink, Typed
  <2> QED
    BY <2>1, StoredTop DEF Unlink, Whole
<1>3. top # << >> /\ code[Head(top)] # code[current[t]]
  BY <1>0, <1>1, <1>2 DEF Local, Matched
<1>4. PICK f \in Fibre, h \in Fibre : f = current[t] /\ h = Head(top)
  BY <1>0, <1>1, <1>3, PopElements DEF Typed, Local, Destroying
<1>5. Suspended = Suspended' \cup {h}
  <2>1. Elements(top) = Elements(Tail(top)) \cup {Head(top)}
    BY <1>0, <1>3, PopElements DEF Typed
  <2> QED
    BY <1>2, <1>4, <2>1 DEF Suspended, Elements
<1>6. peer'[t] = h /\ peer[t] = None /\ None \notin Fibre
  BY <1>0, <1>1, <1>2, <1>4, ConcurrentAssumption DEF Typed, Local, WithPeer
<1>7. Serves(t) = {f} /\ Serves(t)' = {f, h}
  BY <1>1, <1>4, <1>6 DEF Serves, InsidePlaces
<1>8. Sharing \/ Fibre \cap Elements(unwind'[t]) \subseteq Quitter
  BY <1>0, <1>1 DEF Requested
<1>9. Matched(t)'
  BY <1>1, <1>3, <1>4, <1>6 DEF Matched
<1>10. pc[t] \in InsidePlaces /\ Serves(t)' \cup Suspended' = Serves(t) \cup Suspended
  BY <1>1, <1>5, <1>7 DEF InsidePlaces
<1> QED
  BY <1>1, <1>8, <1>9, <1>10, StutterRefines

\* A fibre that suspends goes on asking.
LEMMA LinkRefines ==
  ASSUME NEW t \in Thread, Whole(t), Link(t)
  PROVE  Refines
<1>0. Placed /\ Requested /\ Typed /\ Local(t)
  BY DEF Whole, Placed
<1>1. /\ pc[t] = "link" /\ pc'[t] = "pop"
      /\ UNCHANGED <<current, peer, unwind, live, code, word>>
  BY <1>0, GoPlaces DEF Link, Typed, fibreVars
<1>2. top' = <<current[t]>> \o top
  <2>1. StoreTop(t, <<current[t]>> \o link[t]) /\ ub = "nothing"
    BY <1>0, GoPlaces DEF Link, Typed
  <2> QED
    BY <2>1, StoredTop DEF Whole
<1>3. PICK f \in Fibre : f = current[t]
  BY <1>0, <1>1 DEF Local, Destroying
<1>4. peer[t] = None /\ None \notin Fibre
  BY <1>0, <1>1, ConcurrentAssumption DEF Local, WithPeer
<1>5. Serves(t) = {f} /\ Serves(t)' = {}
  BY <1>1, <1>3, <1>4 DEF Serves, InsidePlaces
<1>6. Suspended' = Suspended \cup {f}
  <2>1. Elements(top') = Elements(top) \cup {f}
    BY <1>0, <1>2, <1>3, PushElements DEF Typed
  <2> QED
    BY <2>1 DEF Suspended, Elements
<1>7. Sharing \/ Fibre \cap Elements(unwind'[t]) \subseteq Quitter
  BY <1>0, <1>1 DEF Requested
<1>8. /\ Matched(t)' /\ pc[t] \in InsidePlaces
      /\ Serves(t)' \cup Suspended' = Serves(t) \cup Suspended
  BY <1>1, <1>5, <1>6 DEF Matched, InsidePlaces
<1> QED
  BY <1>1, <1>7, <1>8, StutterRefines

\* The fibre that nobody could answer is lost.
LEMMA StarveRefines ==
  ASSUME NEW t \in Thread, Whole(t), Starve(t), Sharing
  PROVE  Refines
<1>0. Placed /\ Typed /\ Local(t)
  BY DEF Whole, Placed
<1>1. /\ pc[t] = "starved" /\ pc'[t] = "unwind"
      /\ UNCHANGED <<peer, live, code, word, top>>
  BY <1>0, FetchPlaces, GoPlaces DEF Starve, Typed, channelVars
<1>2. PICK f \in Fibre : f = current[t]
  BY <1>0, <1>1 DEF Local, Destroying
<1>3. peer[t] = None /\ None \notin Fibre
  BY <1>0, <1>1, ConcurrentAssumption DEF Local, WithPeer
<1>4. /\ Serves(t) = {f} /\ Serves(t)' = {} /\ Suspended' = Suspended
      /\ Matched(t)'
  BY <1>1, <1>2, <1>3 DEF Serves, Suspended, InsidePlaces, Matched
<1>5. f \notin Suspended
  BY <1>0, <1>4, ServedAreMine
<1>6. PICK F \in SUBSET Fibre : F = {f}
  OBVIOUS
<1>7. /\ Serves(t)' \cup Suspended' = (Serves(t) \cup Suspended) \ F
      /\ F \subseteq Serves(t) \cup Suspended
  BY <1>4, <1>5, <1>6
<1> QED
  BY <1>1, <1>4, <1>7, LoseRefines

\* As are those that wait on the channel that is deleted.
LEMMA ClearTopRefines ==
  ASSUME NEW t \in Thread, Whole(t), ClearTop(t), Sharing
  PROVE  Refines
<1>0. Placed /\ Typed
  BY DEF Whole, Placed
<1>1. /\ pc[t] = "clear" /\ pc'[t] = "zero" /\ top' = << >>
      /\ UNCHANGED <<live, code, word>>
  BY <1>0, GoPlaces DEF ClearTop, StoreTop, Typed, fibreVars
<1>2. /\ Serves(t) = {} /\ Serves(t)' = {} /\ Suspended' = {}
      /\ Matched(t)'
  BY <1>1 DEF Serves, Suspended, InsidePlaces, Matched
<1>3. Suspended \subseteq Fibre
  BY <1>0, FiniteParts
<1>4. PICK F \in SUBSET Fibre : F = Suspended
  BY <1>3
<1>5. /\ Serves(t)' \cup Suspended' = (Serves(t) \cup Suspended) \ F
      /\ F \subseteq Serves(t) \cup Suspended
  BY <1>2, <1>4
<1> QED
  BY <1>1, <1>2, <1>5, LoseRefines

\* A reference is copied for a fibre: it starts.
LEMMA ReferRefines ==
  ASSUME NEW t \in Thread, Whole(t), Refer(t)
  PROVE  Refines
<1>0. Exclusion /\ Placed /\ Requested /\ Typed /\ Only(t) /\ Local(t) /\ UNCHANGED given
  BY DEF Whole, Placed
<1>1. PICK g \in Fibre \ live :
        given[g] = None /\ live' = live \cup {g}
  BY DEF Refer
<1>2. /\ pc[t] = "run" /\ pc'[t] = "refer"
      /\ UNCHANGED <<current, link, unwind, code, word, top>>
  BY <1>0, GoPlaces DEF Refer, Typed, channelVars
<1>3. /\ Serves(t) = {} /\ Serves(t)' = {} /\ Suspended' = Suspended
      /\ Matched(t)' /\ top' \in {top, << >>}
  <2>1. peer[t] = None /\ None \notin Fibre
    BY <1>0, <1>2, ConcurrentAssumption DEF Local, WithPeer
  <2> QED
    BY <1>2, <2>1 DEF Serves, Suspended, InsidePlaces, Matched
<1>4. \A f \in Fibre : f \in Asking' <=> f \in Asking
  <2>1. \A f \in Fibre : f \in Suspended => f \in Asking
    BY AskingServed
  <2> QED
    BY <1>0, <1>3, <2>1, AskingMoves
<1>5. g \notin Asking
  BY <1>0, <1>1, AskingLive
<1>6. Asks' = [Asks EXCEPT ![g] = "nothing"] /\ Asks[g] = "gone"
  BY <1>1, <1>2, <1>4, <1>5 DEF Asks
<1>7. Sharing
  BY <1>1 DEF Sharing, Copying
<1>8. Promise!Start(g)
  BY <1>2, <1>6, <1>7 DEF Promise!Start
<1>9. Requested'
  <2>1. word' \in [Fibre -> Word]
    BY <1>0, <1>2 DEF Requested
  <2> QED
    BY <1>0, <1>2, <1>3, <1>4, <1>7, <2>1, RequestedKept
<1> QED
  BY <1>1, <1>8, <1>9, KeepRefines

\* A fibre is freed: it goes.
LEMMA FreeFibreRefines ==
  ASSUME NEW t \in Thread, Whole(t), FreeFibre(t)
  PROVE  Refines
<1>0. Exclusion /\ Placed /\ Requested /\ Typed /\ Local(t) /\ Only(t) /\ UNCHANGED given
  BY DEF Whole, Placed
<1>1. /\ Unwinding(t) /\ Return(t) /\ Dying(t) # ChannelFrame
      /\ live' = live \ {Dying(t)}
      /\ UNCHANGED <<current, peer, link, active, code, word, top>>
  BY DEF FreeFibre, channelVars
<1>2. /\ unwind[t] # << >> /\ pc[t] = "unwind" /\ pc'[t] \in {"unwind", "pop", "run"}
      /\ Elements(unwind[t]) = Elements(unwind'[t]) \cup {Dying(t)}
  BY <1>0, <1>1, ReturnFacts DEF Dying
<1>3. PICK f \in Fibre : f = Dying(t)
  <2>1. Dying(t) \in Fibre \cup {ChannelFrame}
    BY <1>0, <1>2, PopElements DEF Typed, Dying
  <2> QED
    BY <1>1, <2>1
<1>4. /\ Serves(t) = {} /\ Serves(t)' = {} /\ Suspended' = Suspended
      /\ Matched(t)' /\ top' \in {top, << >>}
  BY <1>1, <1>2 DEF Serves, Suspended, InsidePlaces, Matched
<1>5. f \in Mine(t)
  BY <1>2, <1>3 DEF Mine
<1>6. f \notin Asking /\ f \in live
  BY <1>0, <1>4, <1>5, MineNotAsking DEF Placed
<1>7. \A g \in Fibre : g \in Asking' <=> g \in Asking
  <2>1. \A g \in Fibre : g \in Suspended => g \in Asking
    BY AskingServed
  <2> QED
    BY <1>0, <1>4, <2>1, AskingMoves
<1>9. Asks' = [Asks EXCEPT ![f] = "gone"] /\ Asks[f] = "nothing"
  BY <1>1, <1>3, <1>6, <1>7 DEF Asks
<1>10. f \in Quitter \/ Sharing
  BY <1>0, <1>2, <1>3 DEF Requested
<1>11. Promise!Quit(f)
  BY <1>1, <1>9, <1>10 DEF Promise!Quit
<1>13. Requested'
  <2>1. word' \in [Fibre -> Word]
    BY <1>0, <1>1 DEF Requested
  <2>2. Sharing \/ Fibre \cap Elements(unwind'[t]) \subseteq Quitter
    BY <1>0, <1>2 DEF Requested
  <2> QED
    BY <1>0, <1>1, <1>4, <1>7, <2>1, <2>2, RequestedKept
<1> QED
  BY <1>11, <1>13, KeepRefines

\* Of a fibre that may end the destructor runs.
LEMMA EndRefines ==
  ASSUME NEW t \in Thread, Whole(t), End(t)
  PROVE  Refines
<1>1. /\ Typed /\ pc[t] = "run" /\ pc'[t] = "unwind"
      /\ unwind'[t] = <<current[t]>> /\ current[t] \in Quitter
      /\ UNCHANGED <<code, word, live, top>>
  BY GoPlaces DEF End, Whole, Placed, Typed, fibreVars, channelVars
<1>2. Elements(unwind'[t]) = {current[t]}
  BY <1>1 DEF Elements
<1> QED
  BY <1>1, <1>2, ElsewhereRefines DEF Serving, InsidePlaces

-----------------------------------------------------------------------------

LEMMA RequestedInit == Init => Requested /\ Promise!RendezvousInit
<1> SUFFICES ASSUME Init PROVE Requested /\ Promise!RendezvousInit
  OBVIOUS
<1>1. \A f \in Fibre : f \notin Asking
  BY DEF Init, Asking, Suspended, InsidePlaces, At
<1>2. \A t \in Thread : Elements(unwind[t]) = {} /\ Matched(t)
  BY DEF Init, Elements, Matched
<1>3. Requested
  BY <1>1, <1>2 DEF Init, Requested
<1>4. Asks \in [Fibre -> {"nothing", "gone"}]
  BY <1>1 DEF Asks
<1>5. ub = "nothing" /\ Sharing \in BOOLEAN /\ word \in [Fibre -> Word]
  BY DEF Init, Sharing, Copying
<1>6. Promise!RendezvousInit
  BY <1>4, <1>5 DEF Promise!RendezvousInit
<1> QED
  BY <1>3, <1>6

\* Where two stores to top meet, the channel breaks.
LEMMA LostRefines ==
  ASSUME Placed, Requested, Sharing, UNCHANGED given, NEW t \in Thread, Step(t),
         ub # "lost", ub' = "lost"
  PROVE  [Promise!RendezvousNext]_(Promise!rendezvousVars)
<1>1. UNCHANGED <<word, code>>
  BY LostStep
<1>2. Asks' \in [Fibre -> {"nothing", "read", "write", "gone"}]
  BY <1>1 DEF Asks, Requested
<1>3. Sharing' = Sharing
  BY DEF Sharing, Copying
<1>4. Promise!Break
  BY <1>1, <1>2, <1>3 DEF Promise!Break
<1> QED
  BY <1>4 DEF Promise!RendezvousNext

\* Every other step of the channel, as one of Rendezvous.
LEMMA StepRefines ==
  ASSUME NEW t \in Thread, Whole(t), Step(t), Sharing \/ OwnedInv
  PROVE  Refines
<1>0. Placed /\ Typed /\ Local(t) /\ Requested /\ ConcurrentInv
  BY DEF Whole, Placed, ConcurrentInv
<1>1. Sharing \/ Fibre \cap Elements(unwind[t]) \subseteq Quitter
  BY <1>0 DEF Requested
<1>2. CASE FindWork(t) \/ Pop(t)
  <2>1. PICK from \in {"idle", "pop"}, to \in {"run", "idle"} : Go(t, from, to)
    BY <1>2, FetchPlaces DEF FindWork, Pop
  <2>2. pc[t] \notin Serving /\ pc'[t] \notin Serving
    BY <1>0, <2>1, GoPlaces DEF Typed, Serving, InsidePlaces
  <2>3. UNCHANGED <<unwind, code, word, live, top>>
    BY <1>2 DEF FindWork, Pop, channelVars
  <2> QED
    BY <1>1, <2>2, <2>3, ElsewhereRefines
<1>3. CASE Resume(t) \/ Spawn(t)
  <2>1. /\ pc[t] \in {"resume", "refer"} /\ pc'[t] = "run"
        /\ UNCHANGED <<unwind, code, word, live, top>>
    BY <1>0, <1>3, GoPlaces DEF Resume, Spawn, Typed, channelVars
  <2> QED
    BY <1>1, <2>1, ElsewhereRefines DEF Serving, InsidePlaces
<1>4. CASE Lock(t) \/ CountPeer(t) \/ Check(t) \/ Subtract(t) \/ Push(t)
  <2>1. /\ pc[t] \in Serving /\ pc'[t] \in Serving
        /\ pc[t] \in Meeting <=> pc'[t] \in Meeting
        /\ pc'[t] # "unlink"
    BY <1>0, <1>4, GoPlaces
       DEF Lock, CountPeer, Check, Subtract, Push, Typed, Serving, Meeting, InsidePlaces
  <2>2. UNCHANGED <<current, peer, unwind, code, word, live, top>>
    BY <1>4 DEF Lock, CountPeer, Check, Subtract, Push, fibreVars, channelVars
  <2> QED
    BY <2>1, <2>2, PlaceRefines
<1>5. CASE \/ LoadReferences(t) \/ ReloadReferences(t) \/ DropReference(t)
           \/ LoadRefcnt(t) \/ LeaveChannel(t) \/ DeleteChannel(t)
  <2>1. PICK from \in Destroying, to \in Destroying : Go(t, from, to)
    <3>1. CASE LoadRefcnt(t)
      <4>1. PICK to \in {"delete", "leave", "unwind"} : Go(t, "endpoint", to)
        BY <3>1 DEF LoadRefcnt
      <4> QED
        BY <4>1 DEF Destroying
    <3>2. CASE LoadReferences(t)
      <4>1. PICK to \in {"endpoint", "drop"} : Go(t, "unwind", to)
        BY <3>2 DEF LoadReferences
      <4> QED
        BY <4>1 DEF Destroying
    <3> QED
      BY <1>5, <3>1, <3>2
         DEF ReloadReferences, DropReference, LeaveChannel, DeleteChannel, Destroying
  <2>2. pc[t] \notin Serving /\ pc'[t] \notin Serving
    BY <1>0, <2>1, GoPlaces DEF Typed, Destroying, Serving, InsidePlaces
  <2>3. UNCHANGED <<unwind, code, word, live, top>>
    BY <1>5 DEF LoadReferences, ReloadReferences, DropReference, LoadRefcnt, LeaveChannel,
                DeleteChannel, fibreVars, channelVars
  <2> QED
    BY <1>1, <2>2, <2>3, ElsewhereRefines
<1>6. CASE ClearRefcnt(t)
  <2>1. /\ pc[t] = "zero" /\ pc'[t] = "unwind"
        /\ UNCHANGED <<code, word, live, top>>
    BY <1>0, <1>6, GoPlaces DEF ClearRefcnt, Typed, fibreVars
  <2>2. Sharing
    BY <1>0, <1>6, Impossible
  <2> QED
    BY <2>1, <2>2, ElsewhereRefines DEF Serving, InsidePlaces
<1>7. CASE FreeChannel(t)
  <2>1. /\ Unwinding(t) /\ Return(t) /\ UNCHANGED <<code, word, live, top>>
    BY <1>7 DEF FreeChannel, fibreVars
  <2>2. /\ pc[t] = "unwind" /\ pc'[t] \in {"unwind", "pop", "run"}
        /\ Elements(unwind'[t]) \subseteq Elements(unwind[t])
    BY <1>0, <2>1, ReturnFacts
  <2> QED
    BY <1>1, <2>1, <2>2, ElsewhereRefines DEF Serving, InsidePlaces
<1>8. CASE UseFreed(t)
  <2>1. UNCHANGED <<pc, current, peer, link, unwind, code, word, live, top>>
    BY <1>8 DEF UseFreed, threadVars, fibreVars, channelVars
  <2>2. Serves(t)' = Serves(t) /\ Suspended' = Suspended /\ Matched(t)'
    BY <1>0, <2>1 DEF Serves, Suspended, Matched, Requested
  <2> QED
    BY <1>1, <2>1, <2>2, StutterRefines
<1>9. CASE Starve(t) \/ ClearTop(t)
  <2>1. Sharing
    BY <1>0, <1>9, Impossible
  <2> QED
    BY <1>9, <2>1, StarveRefines, ClearTopRefines
<1>10. CASE \E dir \in {"read", "write"} : Ask(t, dir)
  BY <1>10, AskRefines
<1>11. CASE Match(t) \/ Unlink(t) \/ Copy(t) \/ Link(t) \/ End(t) \/ FreeFibre(t) \/ Refer(t)
  BY <1>11, MatchRefines, UnlinkRefines, CopyRefines, LinkRefines, EndRefines,
     FreeFibreRefines, ReferRefines
<1> QED
  BY <1>2, <1>3, <1>4, <1>5, <1>6, <1>7, <1>8, <1>9, <1>10, <1>11
     DEF Step, Transfer, Destroy

-----------------------------------------------------------------------------
(***************************************************************************)
(* All of it                                                               *)
(***************************************************************************)

\* What was said of the fibres holds until two stores to top meet; the rest does
\* also then.
ChannelInv ==
  /\ UntilLost
  /\ Copying \/ Referred
  /\ code \in [Fibre -> {"nothing", "read", "write"}] /\ word \in [Fibre -> Word]
  /\ ub # "lost" => Requested

LEMMA ChannelNext ==
  ASSUME ChannelInv, [Next]_vars
  PROVE  ChannelInv' /\ [Promise!RendezvousNext]_(Promise!rendezvousVars)
<1>1. UntilLost'
  BY ExclusionNext, PlacedNext, OwnedNext DEF UntilLost, ChannelInv
<1>2. (Copying \/ Referred)'
  BY ReferredNext DEF ChannelInv, UntilLost
<1>3. ASSUME NEW t \in Thread, Step(t), UNCHANGED given
      PROVE  /\ (code \in [Fibre -> {"nothing", "read", "write"}] /\ word \in [Fibre -> Word])'
             /\ ub' # "lost" => Requested'
             /\ [Promise!RendezvousNext]_(Promise!rendezvousVars)
  <2>1. ub # "lost" /\ Placed /\ Requested
    BY <1>3, StepBeforeLost DEF ChannelInv, UntilLost, PlacedUntilLost
  <2>2. CASE ub' # "lost"
    <3>1. Only(t)
      <4>1. Typed
        BY <2>1 DEF Placed
      <4> QED
        BY <1>3, <4>1, OnlyOne
    <3>2. Whole(t)
      BY <1>3, <2>1, <2>2, <3>1 DEF Whole, ChannelInv, UntilLost
    <3>3. Refines
      BY <1>3, <3>2, StepRefines DEF ChannelInv, UntilLost
    <3> QED
      BY <3>3 DEF Refines, Requested
  <2>3. CASE ub' = "lost"
    <3>1. Sharing
      <4>1. Sharing'
        BY <1>1, <2>3 DEF UntilLost, OwnedInv, Kept
      <4> QED
        BY <1>3, <4>1 DEF Sharing, Copying
    <3>2. UNCHANGED <<word, code>>
      BY <1>3, <2>1, <2>3, LostStep
    <3> QED
      BY <1>3, <2>1, <2>3, <3>1, <3>2, LostRefines DEF ChannelInv
  <2> QED
    BY <2>2, <2>3
<1>4. CASE UNCHANGED vars
  <2>1. (ub # "lost" => Requested)'
    BY <1>4 DEF vars, threadVars, fibreVars, channelVars, ChannelInv, Requested, Matched,
                Asking, At, Suspended, Sharing, Copying, Elements
  <2>2. UNCHANGED Promise!rendezvousVars
    BY <1>4 DEF vars, threadVars, fibreVars, channelVars, Promise!rendezvousVars, Asks,
                Asking, At, Suspended, Sharing, Copying
  <2>3. UNCHANGED <<code, word>>
    BY <1>4 DEF vars, fibreVars
  <2> QED
    BY <1>1, <1>2, <2>1, <2>2, <2>3 DEF ChannelInv
<1> QED
  BY <1>1, <1>2, <1>3, <1>4 DEF Next, ChannelInv

LEMMA ChannelHolds == Spec => []ChannelInv
<1>1. Init => ChannelInv
  <2>1. Init => UntilLost
    BY ExclusionInit, PlacedInit, OwnedInit DEF UntilLost, PlacedUntilLost, Placed, Init
  <2> QED
    BY <2>1, ReferredInit, RequestedInit DEF ChannelInv, Requested
<1>2. ChannelInv /\ [Next]_vars => ChannelInv'
  BY ChannelNext
<1> QED
  BY <1>1, <1>2, PTL DEF Spec

\* Through the lock, the copy after it and the two ways to resume a peer, every
\* step of the threads is one of Rendezvous or none: a reader and a writer
\* exchange one word once, nobody goes on without, and only where endpoints are
\* shared is a fibre that waits lost, or the channel broken.
THEOREM ThreadsMeet == Spec => Promise!RendezvousSafety
<1>1. Init => Promise!RendezvousInit
  BY RequestedInit
<1>2. ChannelInv /\ [Next]_vars => [Promise!RendezvousNext]_(Promise!rendezvousVars)
  BY ChannelNext
<1> QED
  BY <1>1, <1>2, ChannelHolds, PTL DEF Spec, Promise!RendezvousSafety

-----------------------------------------------------------------------------
\* The types that the rest does not rely on.
Plain ==
  /\ lk \in BOOLEAN /\ freed \in BOOLEAN /\ ub \in {"nothing", "freed", "lost"}
  /\ refcnt \in Int /\ loaded \in [Thread -> Int]
  /\ epref \in [Fibre -> Endpoint \cup {None}] /\ eprefcnt \in [Endpoint -> Int]
  /\ dead \subseteq Endpoint

\* The reference that a thread drops has not been dropped.
Holding ==
  \A t \in Thread : pc[t] \in {"drop", "store"} \cup Deletes => epref[Dying(t)] # None

LEMMA PlainInit == Init => Plain /\ Holding
<1> SUFFICES ASSUME Init PROVE Plain /\ Holding
  OBVIOUS
<1>1. epref \in [Fibre -> Endpoint \cup {None}]
  BY ConcurrentAssumption DEF Init
<1>2. \A e : Copies(e) = Cardinality(Referring(e))
  BY DEF Copies, Referring
<1>3. eprefcnt \in [Endpoint -> Int]
  BY <1>2, ReferringSize DEF Init
<1>4. refcnt \in Int
  <2>1. refcnt = 1 + Cardinality(Endpoints)
    BY DEF Init
  <2> QED
    BY <2>1, EndpointsFinite
<1>5. lk \in BOOLEAN /\ freed \in BOOLEAN
  BY DEF Init
<1>6. ub = "nothing" /\ loaded \in [Thread -> Int] /\ dead \subseteq Endpoint
  BY DEF Init
<1>7. Holding
  BY DEF Init, Holding, Deletes
<1> QED
  BY <1>1, <1>3, <1>4, <1>5, <1>6, <1>7 DEF Plain

LEMMA HoldingNext ==
  ASSUME Placed, Plain, Holding, NEW t \in Thread, Step(t)
  PROVE  Holding'
<1>0. Typed /\ Local(t) /\ Only(t)
  BY OnlyOne DEF Placed
<1>1. CASE /\ pc'[t] \notin {"drop", "store"} \cup Deletes
           /\ \A u \in Thread \ {t} :
                pc[u] \in {"drop", "store"} \cup Deletes => epref'[Dying(u)] = epref[Dying(u)]
  BY <1>0, <1>1 DEF Holding, Only, Dying
<1>2. CASE FindWork(t) \/ Transfer(t) \/ Refer(t) \/ End(t) \/ UseFreed(t)
           \/ FreeFibre(t) \/ FreeChannel(t)
  <2>1. UNCHANGED epref
    BY <1>2 DEF FindWork, Transfer, Ask, Lock, Match, Unlink, CountPeer, Copy, Resume, Check,
                Subtract, Push, Link, Pop, Starve, Refer, End, UseFreed, FreeFibre,
                FreeChannel, endpointVars
  <2>2. \/ pc'[t] \notin {"drop", "store"} \cup Deletes
        \/ pc'[t] = pc[t] /\ unwind'[t] = unwind[t]
    <3>1. CASE UseFreed(t)
      BY <3>1 DEF UseFreed, threadVars
    <3>2. CASE FindWork(t) \/ Pop(t) \/ Starve(t)
      <4>1. PICK from \in {"idle", "pop", "starved"}, to \in {"run", "idle", "unwind"} :
              Go(t, from, to)
        BY <3>2, FetchPlaces DEF FindWork, Pop, Starve
      <4>2. pc'[t] \in {"run", "idle", "unwind"}
        BY <1>0, <4>1, GoPlaces DEF Typed
      <4> QED
        BY <4>2 DEF Deletes
    <3>3. CASE FreeFibre(t) \/ FreeChannel(t)
      <4>1. pc'[t] \in {"unwind", "pop", "run"}
        BY <1>0, <3>3, ReturnFacts DEF FreeFibre, FreeChannel
      <4> QED
        BY <4>1 DEF Deletes
    <3>4. CASE Match(t) \/ Check(t)
      <4>1. pc'[t] \in {"unlink", "check", "starved", "subtract"}
        BY <1>0, <3>4, GoPlaces DEF Match, Check, Typed
      <4> QED
        BY <4>1 DEF Deletes
    <3>5. CASE \/ \E dir \in {"read", "write"} : Ask(t, dir)
               \/ Lock(t) \/ Unlink(t) \/ CountPeer(t) \/ Copy(t) \/ Resume(t)
               \/ Subtract(t) \/ Push(t) \/ Link(t) \/ Refer(t) \/ End(t)
      <4>1. PICK from \in Places,
                 to \in {"lock", "match", "count", "copy", "resume", "run", "push", "link",
                         "pop", "refer", "unwind"} : Go(t, from, to)
        BY <3>5 DEF Ask, Lock, Unlink, CountPeer, Copy, Resume, Subtract, Push, Link, Refer,
                    End, Places, WithPeer
      <4> QED
        BY <1>0, <4>1, GoPlaces DEF Typed, Deletes
    <3> QED
      BY <1>2, <3>1, <3>2, <3>3, <3>4, <3>5 DEF Transfer
  <2> QED
    BY <1>0, <2>1, <2>2 DEF Holding, Only, Dying
<1>3. CASE Spawn(t)
  <2>1. /\ pc[t] = "refer" /\ pc'[t] = "run"
        /\ epref' = [epref EXCEPT ![peer[t]] = epref[current[t]]]
    BY <1>0, <1>3, GoPlaces DEF Spawn, Typed
  <2>2. peer[t] \in Mine(t)
    BY <1>0, <2>1 DEF Local, Mine, WithPeer, Typed
  <2>3. ASSUME NEW u \in Thread \ {t}, pc[u] \in {"drop", "store"} \cup Deletes
        PROVE  epref'[Dying(u)] = epref[Dying(u)]
    <3>1. Local(u) /\ unwind[u] # << >> /\ Dying(u) \in Fibre
      BY <2>3 DEF Placed, Local, Destroying, Dying, Deletes
    <3>2. Dying(u) \in Mine(u)
      BY <1>0, <3>1, PopElements DEF Typed, Mine, Dying
    <3> QED
      BY <2>1, <2>2, <3>1, <3>2 DEF Placed, Plain
  <2> QED
    BY <1>1, <2>1, <2>3 DEF Deletes
<1>4. CASE \/ LoadReferences(t) \/ ReloadReferences(t) \/ DeleteChannel(t) \/ ClearTop(t)
           \/ LoadRefcnt(t) /\ refcnt # 0
  <2>1. /\ UNCHANGED <<epref, unwind>>
        /\ epref[Dying(t)] # None \/ pc[t] \in {"drop", "store"} \cup Deletes
    BY <1>0, <1>4, GoPlaces
       DEF LoadReferences, ReloadReferences, DeleteChannel, ClearTop, LoadRefcnt, Typed,
           endpointVars, Deletes
  <2> QED
    BY <1>0, <2>1 DEF Holding, Only, Dying
<1>5. CASE DropReference(t) \/ LeaveChannel(t) \/ ClearRefcnt(t) \/ (LoadRefcnt(t) /\ refcnt = 0)
  <2>1. /\ pc[t] \in {"store", "leave", "zero", "endpoint"} /\ pc'[t] = "unwind"
        /\ epref' = [epref EXCEPT ![Dying(t)] = None]
    BY <1>0, <1>5, GoPlaces
       DEF DropReference, LeaveChannel, ClearRefcnt, LoadRefcnt, DeleteEndpoint, Typed
  <2>2. ASSUME NEW u \in Thread \ {t}, pc[u] \in {"drop", "store"} \cup Deletes
        PROVE  epref'[Dying(u)] = epref[Dying(u)]
    BY <2>1, <2>2, DyingApart DEF Destroying, Deletes, Plain
  <2> QED
    BY <1>1, <2>1, <2>2 DEF Deletes
<1> QED
  BY <1>2, <1>3, <1>4, <1>5 DEF Step, Destroy

LEMMA PlainStep ==
  ASSUME Placed, Plain, Holding, NEW t \in Thread, Step(t)
  PROVE  Plain'
<1>0. Typed /\ Local(t)
  BY DEF Placed
<1>1. /\ lk' = lk \/ lk' \in BOOLEAN
      /\ freed' = freed \/ freed' = TRUE
      /\ ub' \in {ub, "freed", "lost"}
      /\ refcnt' \in {refcnt, refcnt + 1, refcnt - 1, 0}
  <2>1. CASE FindWork(t) \/ Transfer(t) \/ Refer(t) \/ Spawn(t) \/ End(t)
    BY <2>1 DEF FindWork, Transfer, Ask, Lock, Match, Unlink, CountPeer, Copy, Resume, Check,
                Subtract, Push, Link, Pop, Starve, Refer, Spawn, End, StoreTop, channelVars
  <2>2. CASE Destroy(t) \/ UseFreed(t)
    BY <2>2 DEF Destroy, LoadReferences, ReloadReferences, DropReference, LoadRefcnt,
                LeaveChannel, DeleteChannel, ClearTop, ClearRefcnt, FreeFibre, FreeChannel,
                UseFreed, StoreTop, channelVars
  <2> QED
    BY <2>1, <2>2 DEF Step
<1>2. /\ epref' \in [Fibre -> Endpoint \cup {None}] /\ eprefcnt' \in [Endpoint -> Int]
      /\ loaded' \in [Thread -> Int] /\ dead' \subseteq Endpoint
  <2>1. CASE FindWork(t) \/ Transfer(t) \/ End(t) \/ UseFreed(t)
    <3>1. UNCHANGED <<loaded, epref, eprefcnt, dead>>
      BY <2>1 DEF FindWork, Transfer, Ask, Lock, Match, Unlink, CountPeer, Copy, Resume, Check,
                  Subtract, Push, Link, Pop, Starve, End, UseFreed, threadVars, endpointVars
    <3> QED
      BY <3>1 DEF Plain
  <2>2. CASE Refer(t) \/ Spawn(t)
    <3>1. current[t] \in Fibre
      <4>1. pc[t] \in {"run", "refer"}
        BY <1>0, <2>2, GoPlaces DEF Refer, Spawn, Typed
      <4> QED
        BY <1>0, <4>1 DEF Local, Destroying
    <3>2. CASE Refer(t)
      BY <3>2, ConcurrentAssumption DEF Plain, Refer, endpointVars
    <3>3. CASE Spawn(t)
      <4>1. PICK e \in Endpoint \cup {None} : e = epref[current[t]]
        BY <3>1 DEF Plain
      <4>2. /\ eprefcnt' = [eprefcnt EXCEPT ![e] = loaded[t] + 1]
            /\ epref' = [epref EXCEPT ![peer[t]] = e]
            /\ UNCHANGED <<loaded, dead>>
        BY <3>3, <4>1 DEF Spawn
      <4>3. loaded[t] + 1 \in Int
        BY DEF Plain
      <4> QED
        BY <4>1, <4>2, <4>3 DEF Plain
    <3> QED
      BY <2>2, <3>2, <3>3
  <2>3. CASE Destroy(t)
    <3>1. CASE \/ LoadReferences(t) \/ DeleteChannel(t) \/ ClearTop(t) \/ FreeFibre(t)
               \/ FreeChannel(t)
      <4>1. UNCHANGED <<loaded, epref, eprefcnt, dead>>
        BY <3>1 DEF LoadReferences, DeleteChannel, ClearTop, FreeFibre, FreeChannel,
                    endpointVars
      <4> QED
        BY <4>1 DEF Plain
    <3>2. CASE \/ ReloadReferences(t) \/ DropReference(t) \/ LoadRefcnt(t)
               \/ LeaveChannel(t) \/ ClearRefcnt(t)
      <4>1. pc[t] \in {"drop", "store"} \cup Deletes
        BY <1>0, <3>2, GoPlaces
           DEF ReloadReferences, DropReference, LoadRefcnt, LeaveChannel, ClearRefcnt, Typed,
               Deletes
      <4>2. Dying(t) \in Fibre /\ epref[Dying(t)] \in Endpoint
        BY <1>0, <4>1 DEF Local, Destroying, Deletes, Dying, Holding, Plain
      <4>3. CASE ReloadReferences(t) \/ DropReference(t)
        BY <4>2, <4>3 DEF Plain, ReloadReferences, DropReference, endpointVars
      <4>4. CASE LoadRefcnt(t) \/ LeaveChannel(t) \/ ClearRefcnt(t)
        <5>1. /\ UNCHANGED loaded
              /\ UNCHANGED <<epref, eprefcnt, dead>> \/ DeleteEndpoint(t)
          BY <4>4 DEF LoadRefcnt, LeaveChannel, ClearRefcnt, endpointVars
        <5> QED
          BY <4>2, <5>1 DEF Plain, DeleteEndpoint
      <4> QED
        BY <3>2, <4>3, <4>4
    <3> QED
      BY <2>3, <3>1, <3>2 DEF Destroy
  <2> QED
    BY <2>1, <2>2, <2>3 DEF Step
<1>3. lk' \in BOOLEAN
  BY <1>1, Zenon DEF Plain
<1>4. freed' \in BOOLEAN
  BY <1>1, Zenon DEF Plain
<1>5. ub' \in {"nothing", "freed", "lost"}
  BY <1>1, Zenon DEF Plain
<1>6. refcnt' \in Int
  <2>1. refcnt' \in {refcnt, refcnt + 1, refcnt - 1, 0} /\ refcnt \in Int
    BY <1>1, Zenon DEF Plain
  <2> QED
    BY <2>1, SMT
<1> QED
  BY <1>2, <1>3, <1>4, <1>5, <1>6, Zenon DEF Plain

LEMMA PlainNext ==
  ASSUME ChannelInv, Plain, Holding, [Next]_vars
  PROVE  Plain' /\ Holding'
<1>1. ASSUME NEW t \in Thread, Step(t) PROVE Plain' /\ Holding'
  <2>1. Placed
    BY <1>1, StepBeforeLost DEF ChannelInv, UntilLost, PlacedUntilLost
  <2> QED
    BY <1>1, <2>1, PlainStep, HoldingNext
<1>2. CASE UNCHANGED vars
  <2>1. Holding'
    BY <1>2 DEF vars, threadVars, endpointVars, Holding, Dying
  <2>2. UNCHANGED <<lk, freed, ub, refcnt, loaded, epref, eprefcnt, dead>>
    BY <1>2 DEF vars, threadVars, channelVars, endpointVars
  <2>3. Plain'
    BY <2>2, Zenon DEF Plain
  <2> QED
    BY <2>1, <2>3
<1> QED
  BY <1>1, <1>2 DEF Next

\* The variables have their types; where no endpoint is shared the count of the
\* channel is at most one more than there are fibres, and where no reference is
\* copied while threads run that of an endpoint at most that many.
THEOREM ChannelTypes == Spec => []TypeOK
<1>1. ASSUME ChannelInv, Plain PROVE TypeOK
  <2>1. Typed /\ active \subseteq live
    BY <1>1 DEF ChannelInv, UntilLost, PlacedUntilLost
  <2>2. pc \in [Thread -> UsesChannel \cup
                  {"idle", "run", "refer", "copy", "resume", "pop", "starved",
                   "unwind", "drop", "store"}]
    BY <2>1 DEF Typed, Places, WithPeer, Destroying, UsesChannel
  <2>3. ~Sharing => refcnt \in 0..(Cardinality(Fibre) + 1)
    <3> SUFFICES ASSUME OwnedInv, Placed PROVE refcnt \in 0..(Cardinality(Fibre) + 1)
      BY <1>1 DEF ChannelInv, UntilLost, PlacedUntilLost, OwnedInv, Kept
    <3>1. /\ Cardinality(References) \in Nat /\ Cardinality(Suspended) \in Nat
          /\ Cardinality(Pushing) \in Nat /\ Cardinality(Counting) \in Nat
      BY FiniteParts DEF Pushing, Counting
    <3>2. Cardinality(References) <= Cardinality(Fibre) /\ Cardinality(Fibre) \in Nat
      BY ConcurrentAssumption, FS_Subset, FS_CardinalityType DEF References
    <3> QED
      BY <3>1, <3>2 DEF OwnedInv, Exact
  <2>4. Copying \/ eprefcnt \in [Endpoint -> 0..Cardinality(Fibre)]
    BY <1>1 DEF ChannelInv, Referred
  <2> QED
    BY <1>1, <2>1, <2>2, <2>3, <2>4 DEF TypeOK, Typed, Plain, ChannelInv
<1>2. Init => Plain /\ Holding
  BY PlainInit
<1>3. ChannelInv /\ Plain /\ Holding /\ [Next]_vars => Plain' /\ Holding'
  BY PlainNext
<1> QED
  BY <1>1, <1>2, <1>3, ChannelHolds, PTL DEF Spec
=============================================================================
