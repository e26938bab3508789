------------------------------ MODULE ClockProofs ------------------------------
(***************************************************************************)
(* Theorems about AsyncClock, for any number of clients and any alarms.    *)
(***************************************************************************)
EXTENDS AsyncClock, StackLemmas, FiniteSetTheorems

\* The places of a client whose request is not answered.
RequestPlaces == {"lock", "check", "subtract", "push", "link", "asleep", "starved"}
Places == RequestPlaces \cup {"run", "join", "endpoint", "leave", "delete", "clear", "zero",
                              "free", "gone"}

\* Those of a client that has not signalled its request yet.
WritePlaces == {"lock", "check", "subtract", "push", "link"}

Holder == Client \cup {Owner}

\* The clients that are being deleted with the channel.
Held(f) == {g \in Client : pc[f] \in {"zero", "free"} /\ g \in Elements(link[f])}

Typed ==
  /\ pc \in [Holder -> Places]
  /\ top \in Seq(Client) /\ q \subseteq Client
  /\ link \in [Holder -> Seq(Client)] /\ found \in Seq(Client)
  /\ clock = "unlink" => found # << >>

\* A client is asleep while it is on the channel or in the queue, or on the list
\* of a thread that has taken it from the channel to delete it, where it is once.
Cared ==
  /\ Distinct(top)
  /\ \A f \in Holder : pc[f] \in {"zero", "free"} => Distinct(link[f])
  /\ Elements(top) \cap q = {}
  /\ \A f \in Holder : Held(f) \cap (Elements(top) \cup q) = {}
  /\ \A f, g \in Holder : f # g => Held(f) \cap Held(g) = {}
  /\ \A f \in Client :
       pc[f] = "asleep" <=> f \in Elements(top) \cup q \/ \E g \in Holder : f \in Held(g)

CareInv == Typed /\ (ub # "lost" => Cared)

\* What Go says of the place of a client, or of the owner.
LEMMA GoPlaces ==
  ASSUME NEW f \in Holder, NEW from, NEW to, Go(f, from, to),
         pc \in [Holder -> Places]
  PROVE  /\ pc[f] = from /\ pc'[f] = to
         /\ \A g \in Holder \ {f} : pc'[g] = pc[g]
         /\ to \in Places => pc' \in [Holder -> Places]
BY DEF Go

\* The steps of a client, or of the owner, that neither put it to sleep, answer
\* its request nor change who is on the channel.
Quiet(f) ==
  \/ Lock(f) \/ Check(f) \/ Subtract(f) \/ Push(f) \/ End(f) \/ LoadRefcnt(f) \/ LeaveChannel(f)
  \/ DeleteChannel(f) \/ ClearRefcnt(f) \/ FreeChannel(f)
  \/ (f = Owner /\ (Stop \/ Join))

\* From where to where they go.
Goes(f, from, to) ==
  /\ Go(f, from, to)
  /\ f \in Client => (from \in RequestPlaces <=> to \in RequestPlaces)
  /\ to \in WritePlaces => from \in WritePlaces
  /\ from # "gone"
  /\ from = "free" => freed'

LEMMA QuietSteps ==
  ASSUME pc \in [Holder -> Places], NEW f \in Holder, Quiet(f)
  PROVE  /\ \E from, to \in Places \ {"asleep"} : Goes(f, from, to)
         /\ UNCHANGED <<alarm, sleeps, async_count, top, signals, q, found, woken, t,
                        sleep_until, now, ub>>
         /\ freed' = freed \/ freed' = TRUE
         /\ clock' = clock \/ (clock = "waiting" /\ clock' = "loop")
<1> USE DEF Use, Places, RequestPlaces, WritePlaces, Goes
<1>1. CASE Lock(f)
  <2>1. Go(f, "lock", "check")
    BY <1>1 DEF Lock
  <2> QED
    BY <1>1, <2>1 DEF Lock, clockVars
<1>2. CASE Check(f)
  <2>1. Go(f, "check", "starved") \/ Go(f, "check", "subtract")
    BY <1>2 DEF Check
  <2> QED
    BY <1>2, <2>1 DEF Check, channelVars, clockVars
<1>3. CASE Subtract(f)
  <2>1. Go(f, "subtract", "push")
    BY <1>3 DEF Subtract
  <2> QED
    BY <1>3, <2>1 DEF Subtract, clockVars
<1>4. CASE Push(f)
  <2>1. Go(f, "push", "link")
    BY <1>4 DEF Push
  <2> QED
    BY <1>4, <2>1 DEF Push, channelVars, clockVars
<1>5. CASE End(f)
  <2>1. Go(f, "run", "endpoint")
    BY <1>5 DEF End
  <2> QED
    BY <1>5, <2>1 DEF End, channelVars, clockVars
<1>6. CASE LoadRefcnt(f)
  <2>1. Go(f, "endpoint", "gone") \/ Go(f, "endpoint", "delete") \/ Go(f, "endpoint", "leave")
    BY <1>6 DEF LoadRefcnt
  <2> QED
    BY <1>6, <2>1 DEF LoadRefcnt, channelVars, clockVars
<1>7. CASE LeaveChannel(f)
  <2>1. Go(f, "leave", "gone")
    BY <1>7 DEF LeaveChannel
  <2> QED
    BY <1>7, <2>1 DEF LeaveChannel, clockVars
<1>8. CASE DeleteChannel(f)
  <2>1. Go(f, "delete", "clear")
    BY <1>8 DEF DeleteChannel
  <2> QED
    BY <1>8, <2>1 DEF DeleteChannel, channelVars, clockVars
<1>9. CASE ClearRefcnt(f)
  <2>1. Go(f, "zero", "free")
    BY <1>9 DEF ClearRefcnt
  <2> QED
    BY <1>9, <2>1 DEF ClearRefcnt, clockVars
<1>10. CASE FreeChannel(f)
  <2>1. Go(f, "free", "gone")
    BY <1>10 DEF FreeChannel
  <2> QED
    BY <1>10, <2>1 DEF FreeChannel, clockVars
<1>11. CASE f = Owner /\ Stop
  <2>1. Go(f, "run", "join") /\ f \notin Client
    BY <1>11, ClockAssumption DEF Stop
  <2> QED
    BY <1>11, <2>1 DEF Stop, channelVars
<1>12. CASE f = Owner /\ Join
  <2>1. Go(f, "join", "endpoint") /\ f \notin Client
    BY <1>12, ClockAssumption DEF Join
  <2> QED
    BY <1>12, <2>1 DEF Join, channelVars, clockVars
<1> QED
  BY <1>1, <1>2, <1>3, <1>4, <1>5, <1>6, <1>7, <1>8, <1>9, <1>10, <1>11, <1>12 DEF Quiet

\* What they load, they load before they hold it.
LEMMA QuietLinks ==
  ASSUME Typed, NEW f \in Holder, Quiet(f)
  PROVE  /\ link' \in [Holder -> Seq(Client)]
         /\ \A g \in Holder : /\ Held(g)' = Held(g)
                              /\ pc'[g] \in {"zero", "free"}
                                   => pc[g] \in {"zero", "free"} /\ link'[g] = link[g]
<1>0. /\ pc \in [Holder -> Places] /\ link \in [Holder -> Seq(Client)] /\ top \in Seq(Client)
      /\ \A from, to : Go(f, from, to) => /\ pc[f] = from /\ pc'[f] = to
                                          /\ \A g \in Holder \ {f} : pc'[g] = pc[g]
  BY GoPlaces DEF Typed
<1>1. CASE Push(f) \/ DeleteChannel(f)
  <2>1. /\ link' = [link EXCEPT ![f] = top] /\ pc[f] \in {"push", "delete"}
        /\ pc'[f] \in {"link", "clear"} /\ \A g \in Holder \ {f} : pc'[g] = pc[g]
    BY <1>0, <1>1 DEF Push, DeleteChannel, Use
  <2>2. \A g \in Holder \ {f} : pc'[g] = pc[g] /\ link'[g] = link[g]
    BY <1>0, <2>1
  <2> QED
    BY <1>0, <2>1, <2>2 DEF Held
<1>2. CASE ClearRefcnt(f)
  <2>1. /\ link' = link /\ pc[f] = "zero" /\ pc'[f] = "free"
        /\ \A g \in Holder \ {f} : pc'[g] = pc[g]
    BY <1>0, <1>2 DEF ClearRefcnt, Use
  <2> QED
    BY <1>0, <2>1 DEF Held
<1>3. CASE FreeChannel(f)
  <2>1. /\ link' = link /\ pc[f] = "free" /\ pc'[f] = "gone" /\ link[f] = << >>
        /\ \A g \in Holder \ {f} : pc'[g] = pc[g]
    BY <1>0, <1>3 DEF FreeChannel, Use
  <2>2. Elements(link[f]) = {}
    BY <2>1 DEF Elements
  <2>3. Held(f) = {} /\ Held(f)' = {}
    BY <2>1, <2>2 DEF Held
  <2>4. \A g \in Holder \ {f} : Held(g)' = Held(g)
    BY <2>1 DEF Held
  <2> QED
    BY <1>0, <2>1, <2>3, <2>4
<1>4. CASE \/ Lock(f) \/ Check(f) \/ Subtract(f) \/ End(f) \/ LoadRefcnt(f) \/ LeaveChannel(f)
           \/ (f = Owner /\ (Stop \/ Join))
  <2>1. link' = link /\ \A g \in Holder \ {f} : pc'[g] = pc[g]
    BY <1>0, <1>4 DEF Lock, Check, Subtract, End, LoadRefcnt, LeaveChannel, Stop, Join, Use
  <2>2. pc[f] \notin {"zero", "free"} /\ pc'[f] \notin {"zero", "free"}
    BY <1>0, <1>4 DEF Lock, Check, Subtract, End, LoadRefcnt, LeaveChannel, Stop, Join, Use
  <2> QED
    BY <1>0, <2>1, <2>2 DEF Held
<1> QED
  BY <1>1, <1>2, <1>3, <1>4 DEF Quiet

\* Steps at which nobody goes anywhere.
StandStill ==
  \/ Signal \/ Loop \/ PopWriter \/ ReadTime \/ ScanEnd \/ Complete \/ CheckRun \/ Wait
  \/ Timeout \/ WakeSpuriously \/ Tick \/ UseFreedChannel \/ (\E f \in Client : UseFreedFibre(f))

LEMMA StandStillKeeps ==
  ASSUME StandStill \/ UNCHANGED vars
  PROVE  /\ UNCHANGED <<pc, alarm, sleeps, top, freed, link, q>>
         /\ ub' \in {ub, "fibre", "channel"}
<1>1. CASE PopWriter \/ Complete
  BY <1>1 DEF PopWriter, Complete, channelVars
<1>2. CASE Signal \/ Loop \/ ReadTime \/ ScanEnd \/ CheckRun \/ Wait \/ Timeout \/ WakeSpuriously
  BY <1>2 DEF Signal, Loop, ReadTime, ScanEnd, CheckRun, Wait, Timeout, WakeSpuriously,
              channelVars
<1>3. CASE \/ Tick \/ UseFreedChannel \/ (\E f \in Client : UseFreedFibre(f))
           \/ UNCHANGED vars
  BY <1>3 DEF Tick, UseFreedChannel, UseFreedFibre, vars, channelVars, clockVars
<1> QED
  BY <1>1, <1>2, <1>3 DEF StandStill

\* The steps of the clients, the clock and the owner by what they do.
LEMMA StepKinds ==
  ASSUME [Next]_vars
  PROVE  \/ \E f \in Holder : Quiet(f)
         \/ StandStill \/ UNCHANGED vars
         \/ \E f \in Client, d \in Delay : Sleep(f, d)
         \/ \E f \in Client : Link(f) \/ Activate(f)
         \/ Unlink
         \/ \E f \in Holder : ClearTop(f) \/ FreeClient(f)
<1>1. ASSUME NEW f \in Client, Request(f) \/ Write(f)
      PROVE  \/ Quiet(f) \/ (\E d \in Delay : Sleep(f, d)) \/ Link(f) \/ UseFreedFibre(f)
  BY <1>1 DEF Request, Write, Quiet
<1>2. ASSUME NEW f \in Holder, Release(f)
      PROVE  Quiet(f) \/ ClearTop(f) \/ FreeClient(f)
  BY <1>2 DEF Release, Quiet
<1>3. CASE Service \/ WakeSpuriously
  BY <1>3 DEF Service, StandStill
<1>4. CASE Stop \/ Join
  <2>1. Quiet(Owner) /\ Owner \in Holder
    BY <1>4 DEF Quiet, Holder
  <2> QED
    BY <2>1
<1> QED
  BY <1>1, <1>2, <1>3, <1>4 DEF Next, StandStill, Holder

\* Nobody steps after two stores to top have met.
LEMMA StepBeforeLost ==
  ASSUME Next
  PROVE  ub # "lost"
<1>1. /\ \A f, from, to : Go(f, from, to) => ub # "lost"
      /\ \A from, to : GoClock(from, to) => ub # "lost"
  BY DEF Go, GoClock
<1>2. ASSUME NEW f \in Client, Request(f) \/ Write(f) PROVE ub # "lost"
  BY <1>1, <1>2 DEF Request, Write, End, Sleep, Lock, Check, Subtract, Push, Link,
                    UseFreedFibre, Use
<1>3. ASSUME NEW f \in Holder, Release(f) PROVE ub # "lost"
  BY <1>1, <1>3 DEF Release, LoadRefcnt, LeaveChannel, DeleteChannel, ClearTop, ClearRefcnt,
                    FreeClient, FreeChannel, Use
<1>4. CASE Service \/ WakeSpuriously
  BY <1>1, <1>4 DEF Service, Loop, PopWriter, Unlink, ReadTime, ScanEnd, Activate, Complete,
                    CheckRun, Wait, Timeout, WakeSpuriously
<1>5. CASE Signal \/ Stop \/ Join \/ Tick \/ UseFreedChannel
  BY <1>1, <1>5 DEF Signal, Stop, Join, Tick, UseFreedChannel, Use
<1> QED
  BY <1>2, <1>3, <1>4, <1>5 DEF Next, Holder

-----------------------------------------------------------------------------
(***************************************************************************)
(* Where the clients are                                                   *)
(***************************************************************************)

\* Nobody has gone to sleep or been answered.
LEMMA SameCare ==
  ASSUME Cared, UNCHANGED <<top, q>>,
         \A g \in Holder : /\ Held(g)' = Held(g)
                           /\ pc'[g] \in {"zero", "free"}
                                => pc[g] \in {"zero", "free"} /\ link'[g] = link[g],
         \A g \in Client : pc'[g] = "asleep" <=> pc[g] = "asleep"
  PROVE  Cared'
<1>1. \A f \in Holder : pc'[f] \in {"zero", "free"} => Distinct(link'[f])
  BY DEF Cared
<1>2. /\ Distinct(top') /\ Elements(top') \cap q' = {}
      /\ \A f \in Holder : Held(f)' \cap (Elements(top') \cup q') = {}
      /\ \A f, g \in Holder : f # g => Held(f)' \cap Held(g)' = {}
  BY DEF Cared
<1>3. \A f \in Client :
        pc'[f] = "asleep" <=> f \in Elements(top') \cup q' \/ \E g \in Holder : f \in Held(g)'
  BY DEF Cared
<1> QED
  BY <1>1, <1>2, <1>3 DEF Cared

\* A store to top is of what the thread has loaded, or it is lost.
LEMMA StoredTop ==
  ASSUME NEW loaded, NEW list, StoreTop(loaded, list), ub' # "lost"
  PROVE  top = loaded /\ top' = list /\ ub' = ub
BY DEF StoreTop

\* Those who wait are nobody's to answer twice.
LEMMA QuietCares ==
  ASSUME CareInv, ub # "lost", NEW f \in Holder, Quiet(f)
  PROVE  CareInv'
<1>1. Typed /\ Cared /\ pc \in [Holder -> Places]
  BY DEF CareInv, Typed
<1>2. PICK from, to \in Places \ {"asleep"} : Go(f, from, to)
  BY <1>1, QuietSteps DEF Goes
<1>3. /\ pc[f] = from /\ pc'[f] = to /\ pc' \in [Holder -> Places]
      /\ \A g \in Holder \ {f} : pc'[g] = pc[g]
  BY <1>1, <1>2, GoPlaces
<1>4. /\ UNCHANGED <<top, q, found>> /\ (clock' = "unlink" => clock = "unlink")
  BY <1>1, QuietSteps
<1>5. Cared'
  <2>1. \A g \in Client : pc'[g] = "asleep" <=> pc[g] = "asleep"
    BY <1>3 DEF Holder
  <2> QED
    BY <1>1, <1>4, <2>1, QuietLinks, SameCare
<1>6. Typed'
  BY <1>1, <1>3, <1>4, QuietLinks DEF Typed
<1> QED
  BY <1>5, <1>6 DEF CareInv

LEMMA StillCares ==
  ASSUME CareInv, (StandStill /\ ub # "lost") \/ UNCHANGED vars
  PROVE  CareInv'
<1>1. UNCHANGED <<pc, top, link, q>> /\ (ub' # "lost" => ub # "lost")
  BY StandStillKeeps DEF vars
<1>2. found' \in Seq(Client) /\ (clock' = "unlink" => found' # << >>)
  <2>1. CASE PopWriter
    BY <2>1 DEF PopWriter, GoClock, CareInv, Typed
  <2>2. CASE Signal \/ Loop \/ ReadTime \/ ScanEnd \/ Complete
    BY <2>2 DEF Signal, Loop, ReadTime, ScanEnd, Complete, GoClock, CareInv, Typed
  <2>3. CASE CheckRun \/ Wait \/ Timeout \/ WakeSpuriously
    BY <2>3 DEF CheckRun, Wait, Timeout, WakeSpuriously, GoClock, CareInv, Typed
  <2>4. CASE Tick \/ UseFreedChannel \/ (\E f \in Client : UseFreedFibre(f)) \/ UNCHANGED vars
    BY <2>4 DEF Tick, UseFreedChannel, UseFreedFibre, vars, clockVars, CareInv, Typed
  <2> QED
    BY <2>1, <2>2, <2>3, <2>4 DEF StandStill
<1>3. Typed'
  BY <1>1, <1>2 DEF CareInv, Typed
<1>4. Cared => Cared'
  <2>1. \A g \in Holder : Held(g)' = Held(g)
    BY <1>1 DEF Held
  <2> QED
    BY <1>1, <2>1, SameCare
<1> QED
  BY <1>1, <1>3, <1>4 DEF CareInv

LEMMA SleepCares ==
  ASSUME CareInv, ub # "lost", NEW f \in Client, NEW d \in Delay, Sleep(f, d)
  PROVE  CareInv'
<1>0. pc \in [Holder -> Places] /\ f \in Holder /\ Typed /\ Cared
  BY DEF CareInv, Typed, Holder
<1>1. Go(f, "run", "lock") /\ UNCHANGED <<top, q, link, found, clock>>
  BY DEF Sleep, channelVars, clockVars
<1>2. /\ pc[f] = "run" /\ pc'[f] = "lock" /\ pc' \in [Holder -> Places]
      /\ \A g \in Holder \ {f} : pc'[g] = pc[g]
  BY <1>0, <1>1, GoPlaces DEF Places, RequestPlaces
<1>3. \A g \in Holder : Held(g)' = Held(g)
  <2>1. pc[f] \notin {"zero", "free"} /\ pc'[f] \notin {"zero", "free"}
    BY <1>2
  <2> QED
    BY <1>1, <1>2, <2>1 DEF Held
<1>4. Cared'
  BY <1>0, <1>1, <1>2, <1>3, SameCare DEF Holder
<1> QED
  BY <1>0, <1>1, <1>2, <1>4 DEF CareInv, Typed

LEMMA LinkCares ==
  ASSUME CareInv, ub # "lost", NEW f \in Client, Link(f)
  PROVE  CareInv'
<1>0. Typed /\ Cared /\ pc \in [Holder -> Places] /\ f \in Holder
  BY DEF CareInv, Typed, Holder
<1>1. /\ Go(f, "link", "asleep") /\ StoreTop(link[f], <<f>> \o link[f])
      /\ link' = [link EXCEPT ![f] = << >>] /\ UNCHANGED <<q, found, clock>>
  BY DEF Link, Use, clockVars
<1>2. /\ pc[f] = "link" /\ pc'[f] = "asleep" /\ \A g \in Holder \ {f} : pc'[g] = pc[g]
      /\ pc' \in [Holder -> Places]
  BY <1>0, <1>1, GoPlaces DEF Places, RequestPlaces
<1>3. Typed'
  <2>1. <<f>> \o link[f] \in Seq(Client)
    BY <1>0 DEF Typed
  <2>2. link' \in [Holder -> Seq(Client)]
    BY <1>0, <1>1 DEF Typed
  <2>3. top' \in Seq(Client)
    BY <1>1, <2>1 DEF StoreTop
  <2> QED
    BY <1>0, <1>1, <1>2, <2>2, <2>3 DEF Typed
<1>4. ASSUME ub' # "lost" PROVE Cared'
  <2>1. top' = <<f>> \o top
    BY <1>1, <1>4, StoredTop
  <2>2. f \notin Elements(top) /\ f \notin q /\ \A g \in Holder : f \notin Held(g)
    BY <1>0, <1>2 DEF Cared
  <2>3. Elements(top') = Elements(top) \cup {f} /\ Distinct(top')
    <3>1. top \in Seq(Client) /\ Distinct(top)
      BY <1>0 DEF Typed, Cared
    <3> QED
      BY <2>1, <2>2, <3>1, PushElements
  <2>4. \A g \in Holder : Held(g)' = Held(g)
    <3>1. Held(f)' = {} /\ Held(f) = {}
      BY <1>2 DEF Held
    <3>2. \A g \in Holder \ {f} : link'[g] = link[g]
      BY <1>0, <1>1 DEF Typed
    <3> QED
      BY <1>2, <3>1, <3>2 DEF Held
  <2>5. \A g \in Holder : pc'[g] \in {"zero", "free"} => Distinct(link'[g])
    <3>1. \A g \in Holder \ {f} : link'[g] = link[g]
      BY <1>0, <1>1 DEF Typed
    <3> QED
      BY <1>0, <1>2, <3>1 DEF Cared
  <2>6. \A g \in Holder : Held(g)' \cap (Elements(top') \cup q') = {}
    BY <1>0, <1>1, <2>2, <2>3, <2>4 DEF Cared
  <2>7. \A g, h \in Holder : g # h => Held(g)' \cap Held(h)' = {}
    BY <1>0, <2>4 DEF Cared
  <2>8. \A g \in Client :
          pc'[g] = "asleep" <=> g \in Elements(top') \cup q' \/ \E h \in Holder : g \in Held(h)'
    BY <1>0, <1>1, <1>2, <2>3, <2>4 DEF Cared, Holder
  <2>9. Elements(top') \cap q' = {}
    BY <1>0, <1>1, <2>2, <2>3 DEF Cared
  <2> QED
    BY <2>3, <2>5, <2>6, <2>7, <2>8, <2>9 DEF Cared
<1> QED
  BY <1>3, <1>4 DEF CareInv

LEMMA UnlinkCares ==
  ASSUME CareInv, ub # "lost", Unlink
  PROVE  CareInv' /\ pc' = pc
<1>0. Typed /\ Cared
  BY DEF CareInv
<1>1. /\ clock = "unlink" /\ clock' = "pop" /\ StoreTop(found, Tail(found))
      /\ q' = q \cup {Head(found)} /\ found' = << >> /\ UNCHANGED <<pc, link>>
  BY DEF Unlink, GoClock
<1>2. /\ found \in Seq(Client) /\ found # << >>
      /\ Head(found) \in Client /\ Tail(found) \in Seq(Client)
  BY <1>0, <1>1 DEF Typed
<1>3. Typed'
  BY <1>0, <1>1, <1>2 DEF Typed, StoreTop
<1>4. ASSUME ub' # "lost" PROVE Cared'
  <2>1. top = found /\ top' = Tail(top)
    BY <1>1, <1>4, StoredTop
  <2>2. PICK h \in Client : h = Head(top)
    BY <1>2, <2>1
  <2>3. /\ Elements(top) = Elements(top') \cup {h} /\ Distinct(top') /\ h \notin Elements(top')
    <3>1. top \in Seq(Client) /\ Distinct(top) /\ top # << >>
      BY <1>0, <1>2, <2>1 DEF Typed, Cared
    <3> QED
      BY <2>1, <2>2, <3>1, PopElements
  <2>4. q' = q \cup {h} /\ \A g \in Holder : Held(g)' = Held(g)
    BY <1>1, <2>1, <2>2 DEF Held
  <2>5. Elements(top') \cup q' = Elements(top) \cup q /\ Elements(top') \cap q' = {}
    BY <1>0, <2>3, <2>4 DEF Cared
  <2>6. /\ \A g \in Holder : pc'[g] \in {"zero", "free"} => Distinct(link'[g])
        /\ \A g \in Holder : Held(g)' \cap (Elements(top') \cup q') = {}
        /\ \A g, i \in Holder : g # i => Held(g)' \cap Held(i)' = {}
    BY <1>0, <1>1, <2>4, <2>5 DEF Cared
  <2>7. \A g \in Client :
          pc'[g] = "asleep" <=> g \in Elements(top') \cup q' \/ \E i \in Holder : g \in Held(i)'
    BY <1>0, <1>1, <2>4, <2>5 DEF Cared
  <2> QED
    BY <2>3, <2>5, <2>6, <2>7 DEF Cared
<1> QED
  BY <1>1, <1>3, <1>4 DEF CareInv

LEMMA ActivateCares ==
  ASSUME CareInv, ub # "lost", NEW f \in Client, Activate(f)
  PROVE  CareInv' /\ f \in q /\ pc[f] = "asleep" /\ pc'[f] = "run"
         /\ \A g \in Holder \ {f} : pc'[g] = pc[g]
<1>0. Typed /\ Cared /\ f \in Holder
  BY DEF CareInv, Holder
<1>1. /\ f \in q /\ q' = q \ {f} /\ pc' = [pc EXCEPT ![f] = "run"] /\ clock' = "complete"
      /\ UNCHANGED <<top, link, found, ub>>
  BY DEF Activate, OnTop, GoClock, channelVars
<1>2. /\ pc[f] = "asleep" /\ pc'[f] = "run" /\ \A g \in Holder \ {f} : pc'[g] = pc[g]
      /\ pc' \in [Holder -> Places] /\ f \notin Elements(top)
      /\ \A g \in Holder : f \notin Held(g)
  BY <1>0, <1>1 DEF Typed, Cared, Places
<1>3. \A g \in Holder : Held(g)' = Held(g)
  BY <1>1, <1>2 DEF Held
<1>4. \A g \in Holder : pc'[g] \in {"zero", "free"} => Distinct(link'[g])
  BY <1>0, <1>1, <1>2 DEF Cared
<1>5. /\ Distinct(top') /\ Elements(top') \cap q' = {}
      /\ \A g \in Holder : Held(g)' \cap (Elements(top') \cup q') = {}
      /\ \A g, h \in Holder : g # h => Held(g)' \cap Held(h)' = {}
  BY <1>0, <1>1, <1>3 DEF Cared
<1>6. \A g \in Client :
        pc'[g] = "asleep" <=> g \in Elements(top') \cup q' \/ \E h \in Holder : g \in Held(h)'
  BY <1>0, <1>1, <1>2, <1>3 DEF Cared, Holder
<1>7. Cared'
  BY <1>4, <1>5, <1>6 DEF Cared
<1>8. Typed'
  BY <1>0, <1>1, <1>2 DEF Typed
<1> QED
  BY <1>1, <1>2, <1>7, <1>8 DEF CareInv

\* A delete_channel takes the list.
LEMMA ClearTopCares ==
  ASSUME CareInv, ub # "lost", NEW f \in Holder, ClearTop(f)
  PROVE  CareInv' /\ pc[f] = "clear" /\ pc'[f] = "zero"
         /\ \A g \in Holder \ {f} : pc'[g] = pc[g]
<1>0. Typed /\ Cared /\ pc \in [Holder -> Places]
  BY DEF CareInv, Typed
<1>1. /\ Go(f, "clear", "zero") /\ StoreTop(link[f], << >>)
      /\ UNCHANGED <<link, q, found, clock>>
  BY DEF ClearTop, Use, clockVars
<1>2. /\ pc[f] = "clear" /\ pc'[f] = "zero" /\ \A g \in Holder \ {f} : pc'[g] = pc[g]
      /\ pc' \in [Holder -> Places]
  BY <1>0, <1>1, GoPlaces DEF Places
<1>3. Typed'
  BY <1>0, <1>1, <1>2 DEF Typed, StoreTop
<1>4. ASSUME ub' # "lost" PROVE Cared'
  <2>1. top = link[f] /\ top' = << >>
    BY <1>1, <1>4, StoredTop
  <2>2. Elements(top') = {} /\ Distinct(top')
    BY <2>1 DEF Elements, Distinct
  <2>3. /\ Held(f)' = Elements(top) /\ Held(f) = {}
        /\ \A g \in Holder \ {f} : Held(g)' = Held(g)
    <3>1. Elements(top) \subseteq Client
      BY <1>0 DEF Elements, Typed
    <3> QED
      BY <1>1, <1>2, <2>1, <3>1 DEF Held
  <2>4. \A g \in Holder : pc'[g] \in {"zero", "free"} => Distinct(link'[g])
    BY <1>0, <1>1, <1>2, <2>1 DEF Cared
  <2>5. \A g \in Holder : Held(g)' \cap (Elements(top') \cup q') = {}
    BY <1>0, <1>1, <2>2, <2>3 DEF Cared
  <2>6. \A g, h \in Holder : g # h => Held(g)' \cap Held(h)' = {}
    BY <1>0, <2>3 DEF Cared
  <2>7. \A g \in Client :
          pc'[g] = "asleep" <=> g \in Elements(top') \cup q' \/ \E h \in Holder : g \in Held(h)'
    <3> SUFFICES ASSUME NEW g \in Client
                 PROVE  pc'[g] = "asleep" <=> g \in q \/ \E h \in Holder : g \in Held(h)'
      BY <1>1, <2>2
    <3>1. pc'[g] = "asleep" <=> pc[g] = "asleep"
      BY <1>2 DEF Holder
    <3>2. (\E h \in Holder : g \in Held(h)')
            <=> g \in Elements(top) \/ \E h \in Holder : g \in Held(h)
      BY <2>3
    <3> QED
      BY <1>0, <3>1, <3>2 DEF Cared
  <2>8. Elements(top') \cap q' = {}
    BY <2>2
  <2> QED
    BY <2>2, <2>4, <2>5, <2>6, <2>7, <2>8 DEF Cared
<1> QED
  BY <1>2, <1>3, <1>4 DEF CareInv

\* A client of such a list is gone.
LEMMA FreeClientCares ==
  ASSUME CareInv, ub # "lost", NEW f \in Holder, FreeClient(f)
  PROVE  /\ CareInv' /\ pc[f] = "free" /\ pc'[f] = "free"
         /\ \E h \in Client : /\ pc[h] = "asleep" /\ pc'[h] = "gone"
                              /\ \A g \in Holder \ {h} : pc'[g] = pc[g]
<1>0. Typed /\ Cared /\ pc \in [Holder -> Places] /\ link \in [Holder -> Seq(Client)]
  BY DEF CareInv, Typed
<1>1. /\ pc[f] = "free" /\ link[f] # << >> /\ link[f] \in Seq(Client)
      /\ pc' = [pc EXCEPT ![Head(link[f])] = "gone"]
      /\ link' = [link EXCEPT ![f] = Tail(link[f])]
      /\ UNCHANGED <<top, q, found, clock, ub>>
  BY <1>0 DEF FreeClient, clockVars
<1>2. PICK h \in Client : h = Head(link[f])
  BY <1>1
<1>3. /\ Tail(link[f]) \in Seq(Client) /\ Elements(link[f]) = Elements(Tail(link[f])) \cup {h}
      /\ Distinct(Tail(link[f])) /\ h \notin Elements(Tail(link[f]))
  <2>1. Distinct(link[f])
    BY <1>0, <1>1 DEF Cared
  <2> QED
    BY <1>1, <1>2, <2>1, PopElements
<1>4. h \in Held(f)
  BY <1>1, <1>3 DEF Held
<1>5. /\ pc[h] = "asleep" /\ h \notin Elements(top) \cup q
      /\ \A g \in Holder \ {f} : h \notin Held(g)
  BY <1>0, <1>4 DEF Cared
<1>6. /\ pc'[h] = "gone" /\ \A g \in Holder \ {h} : pc'[g] = pc[g]
      /\ pc' \in [Holder -> Places] /\ f # h /\ h \in Holder
  BY <1>0, <1>1, <1>2, <1>5 DEF Places, Holder
<1>7. link' \in [Holder -> Seq(Client)] /\ link'[f] = Tail(link[f])
      /\ \A g \in Holder \ {f} : link'[g] = link[g]
  BY <1>0, <1>1, <1>3
<1>8. Held(f)' = Held(f) \ {h} /\ \A g \in Holder \ {f} : Held(g)' = Held(g)
  <2>1. Held(f)' = Held(f) \ {h}
    BY <1>1, <1>3, <1>6, <1>7 DEF Held
  <2>2. ASSUME NEW g \in Holder \ {f} PROVE Held(g)' = Held(g)
    <3>1. CASE g = h
      BY <1>5, <1>6, <3>1 DEF Held
    <3>2. CASE g # h
      BY <1>6, <1>7, <3>2 DEF Held
    <3> QED
      BY <3>1, <3>2
  <2> QED
    BY <2>1, <2>2
<1>9. Typed'
  BY <1>0, <1>1, <1>6, <1>7 DEF Typed
<1>10. Cared'
  <2>1. \A g \in Holder : pc'[g] \in {"zero", "free"} => Distinct(link'[g])
    BY <1>0, <1>3, <1>6, <1>7 DEF Cared
  <2>2. \A g \in Holder : Held(g)' \subseteq Held(g)
    BY <1>8
  <2>4. Distinct(top') /\ Elements(top') \cap q' = {}
    BY <1>0, <1>1 DEF Cared
  <2>5. \A g \in Holder : Held(g)' \cap (Elements(top') \cup q') = {}
    BY <1>0, <1>1, <2>2 DEF Cared
  <2>6. \A g, i \in Holder : g # i => Held(g)' \cap Held(i)' = {}
    BY <1>0, <2>2 DEF Cared
  <2>3. \A g \in Client :
          pc'[g] = "asleep" <=> g \in Elements(top') \cup q' \/ \E i \in Holder : g \in Held(i)'
    <3> SUFFICES ASSUME NEW g \in Client
                 PROVE  pc'[g] = "asleep"
                          <=> g \in Elements(top) \cup q \/ \E i \in Holder : g \in Held(i)'
      BY <1>1
    <3>1. CASE g = h
      BY <1>5, <1>6, <1>8, <3>1
    <3>2. CASE g # h
      <4>1. pc'[g] = pc[g] /\ \A i \in Holder : g \in Held(i)' <=> g \in Held(i)
        BY <1>6, <1>8, <3>2 DEF Holder
      <4> QED
        BY <1>0, <4>1 DEF Cared
    <3> QED
      BY <3>1, <3>2
  <2> QED
    BY <2>1, <2>3, <2>4, <2>5, <2>6 DEF Cared
<1> QED
  BY <1>1, <1>5, <1>6, <1>9, <1>10 DEF CareInv

LEMMA CareNext == CareInv /\ [Next]_vars => CareInv'
<1> SUFFICES ASSUME CareInv, [Next]_vars PROVE CareInv'
  OBVIOUS
<1>1. CASE UNCHANGED vars
  BY <1>1, StillCares
<1>2. CASE Next
  <2>1. ub # "lost"
    BY <1>2, StepBeforeLost
  <2> QED
    BY <2>1, StepKinds, QuietCares, StillCares, SleepCares, LinkCares, UnlinkCares,
       ActivateCares, ClearTopCares, FreeClientCares
<1> QED
  BY <1>1, <1>2

LEMMA CareInit == Init => CareInv
<1> SUFFICES ASSUME Init PROVE CareInv
  OBVIOUS
<1>1. /\ pc = [f \in Holder |-> "run"] /\ link = [f \in Holder |-> << >>]
      /\ top = << >> /\ q = {} /\ found = << >> /\ clock = "loop"
  BY DEF Init, Holder
<1>2. Elements(top) = {} /\ Distinct(top)
  BY <1>1 DEF Elements, Distinct
<1>3. \A f \in Holder : Held(f) = {} /\ pc[f] = "run"
  BY <1>1 DEF Held
<1>4. Cared
  BY <1>1, <1>2, <1>3 DEF Cared, Holder
<1>5. Typed
  BY <1>1 DEF Typed, Places
<1> QED
  BY <1>4, <1>5 DEF CareInv

LEMMA AtMostOne ==
  ASSUME NEW S, \A x, y \in S : x = y
  PROVE  IsFiniteSet(S) /\ Cardinality(S) = IF S = {} THEN 0 ELSE 1
<1>1. CASE S = {}
  BY <1>1, FS_EmptySet
<1>2. CASE S # {}
  <2>1. PICK x : S = {x}
    BY <1>2
  <2> QED
    BY <1>2, <2>1, FS_Singleton
<1> QED
  BY <1>1, <1>2

\* However many clients sleep at once, whenever the clock is stopped, and
\* whatever thread deletes the channel, a client asleep is on the channel, in the
\* queue or on the list of one thread that deletes it, once, and nobody else is;
\* until two threads' stores to top meet.
THEOREM SleepersAreKept == Spec => []InCareOfClock
<1>1. ASSUME CareInv PROVE InCareOfClock
  <2> SUFFICES ASSUME Cared, Typed, NEW f \in Client
               PROVE  Cardinality({i \in DOMAIN top : top[i] = f}) + Cardinality({f} \cap q)
                        + Cardinality({g \in DOMAIN pc :
                                         /\ pc[g] \in {"zero", "free"}
                                         /\ \E i \in DOMAIN link[g] : link[g][i] = f})
                        = IF pc[f] = "asleep" THEN 1 ELSE 0
    BY <1>1 DEF InCareOfClock, CareInv
  <2> DEFINE A == {i \in DOMAIN top : top[i] = f}
             B == {f} \cap q
             C == {g \in DOMAIN pc : /\ pc[g] \in {"zero", "free"}
                                     /\ \E i \in DOMAIN link[g] : link[g][i] = f}
  <2>0. \A g : g \in C <=> g \in Holder /\ f \in Held(g)
    BY DEF Held, Typed, Elements
  <2>1. A # {} <=> f \in Elements(top)
    BY DEF Elements
  <2>2. \A i, j \in A : i = j
    BY DEF Cared, Distinct
  <2>3. \A x, y \in B : x = y
    OBVIOUS
  <2>4. \A g, h \in C : g = h
    BY <2>0 DEF Cared
  <2>5. pc[f] = "asleep" <=> (A # {} \/ B # {} \/ C # {})
    BY <2>0, <2>1 DEF Cared
  <2>6. (A = {} \/ B = {}) /\ (A = {} \/ C = {}) /\ (B = {} \/ C = {})
    BY <2>0, <2>1 DEF Cared
  <2> HIDE DEF A, B, C
  <2>7. /\ Cardinality(A) = IF A = {} THEN 0 ELSE 1
        /\ Cardinality(B) = IF B = {} THEN 0 ELSE 1
        /\ Cardinality(C) = IF C = {} THEN 0 ELSE 1
    BY <2>2, <2>3, <2>4, AtMostOne
  <2>8. Cardinality(A) + Cardinality(B) + Cardinality(C) = IF pc[f] = "asleep" THEN 1 ELSE 0
    BY <2>5, <2>6, <2>7
  <2> QED
    BY <2>8 DEF A, B, C
<1> QED
  BY <1>1, CareInit, CareNext, PTL DEF Spec

-----------------------------------------------------------------------------
(***************************************************************************)
(* The requests                                                            *)
(***************************************************************************)

\* One client at most has been made ready, and its request is yet to be completed.
WokenInv ==
  /\ woken = {} \/ \E f \in Client : woken = {f}
  /\ woken # {} <=> clock = "complete"

CountInv == async_count \in Int /\ freed \in BOOLEAN /\ WokenInv /\ AsyncCountCounts

LEMMA FiniteRequests ==
  /\ IsFiniteSet(Requesting) /\ Cardinality(Requesting) \in Nat
  /\ WokenInv => Cardinality(woken) = IF clock = "complete" THEN 1 ELSE 0
<1>1. Requesting \subseteq Client
  BY DEF Requesting
<1>2. \A f : Cardinality({f}) = 1
  BY FS_Singleton
<1> QED
  BY <1>1, <1>2, ClockAssumption, FS_Subset, FS_CardinalityType, FS_EmptySet DEF WokenInv

\* Requests neither made nor answered.
LEMMA SameRequests ==
  ASSUME CountInv, UNCHANGED <<async_count, woken>>, freed' \in BOOLEAN,
         clock' = "complete" <=> clock = "complete",
         \A g \in Client : pc'[g] \in RequestPlaces <=> pc[g] \in RequestPlaces,
         ~freed' /\ (\A g \in DOMAIN pc' : pc'[g] # "free")
           => ~freed /\ (\A g \in DOMAIN pc : pc[g] # "free")
  PROVE  CountInv'
<1>1. Requesting' = Requesting
  BY DEF Requesting, RequestPlaces
<1>2. WokenInv'
  BY DEF CountInv, WokenInv
<1>3. AsyncCountCounts'
  BY <1>1 DEF CountInv, AsyncCountCounts
<1> QED
  BY <1>2, <1>3 DEF CountInv

LEMMA QuietCounts ==
  ASSUME CareInv, CountInv, NEW f \in Holder, Quiet(f)
  PROVE  CountInv'
<1>0. pc \in [Holder -> Places]
  BY DEF CareInv, Typed
<1>1. PICK from, to \in Places \ {"asleep"} : Goes(f, from, to)
  BY <1>0, QuietSteps
<1>2. /\ pc[f] = from /\ pc'[f] = to /\ pc' \in [Holder -> Places]
      /\ \A g \in Holder \ {f} : pc'[g] = pc[g]
  BY <1>0, <1>1, GoPlaces DEF Goes
<1>3. /\ UNCHANGED <<async_count, woken>> /\ (freed' = freed \/ freed' = TRUE)
      /\ (clock' = "complete" <=> clock = "complete")
  BY <1>0, QuietSteps
<1>4. \A g \in Client : pc'[g] \in RequestPlaces <=> pc[g] \in RequestPlaces
  BY <1>1, <1>2 DEF Goes, Holder
<1>5. ASSUME ~freed', \A g \in DOMAIN pc' : pc'[g] # "free"
      PROVE  ~freed /\ \A g \in DOMAIN pc : pc[g] # "free"
  BY <1>0, <1>1, <1>2, <1>3, <1>5 DEF Goes
<1>6. freed' \in BOOLEAN
  BY <1>3, Zenon DEF CountInv
<1> QED
  BY <1>3, <1>4, <1>5, <1>6, SameRequests

LEMMA CompleteCounts ==
  ASSUME CountInv, Complete
  PROVE  CountInv'
<1>1. /\ clock = "complete" /\ clock' = "scan" /\ woken' = {} /\ async_count' = async_count - 1
      /\ UNCHANGED <<pc, freed>>
  BY DEF Complete, GoClock, channelVars
<1>2. WokenInv'
  BY <1>1 DEF WokenInv
<1>3. Requesting' = Requesting
  BY <1>1 DEF Requesting
<1>4. Cardinality(woken) = 1 /\ Cardinality(woken') = 0
  BY <1>1, FiniteRequests, FS_EmptySet DEF CountInv
<1>5. AsyncCountCounts'
  BY <1>1, <1>3, <1>4, FiniteRequests DEF CountInv, AsyncCountCounts
<1> QED
  BY <1>1, <1>2, <1>5 DEF CountInv

LEMMA StillCounts ==
  ASSUME CountInv, StandStill \/ UNCHANGED vars
  PROVE  CountInv'
<1>1. UNCHANGED <<pc, freed>>
  BY StandStillKeeps
<1>2. CASE Signal \/ Loop \/ PopWriter \/ ReadTime \/ ScanEnd
  <2>1. UNCHANGED <<async_count, woken>> /\ (clock' = "complete" <=> clock = "complete")
    BY <1>2 DEF Signal, Loop, PopWriter, ReadTime, ScanEnd, GoClock
  <2> QED
    BY <1>1, <2>1, SameRequests DEF CountInv
<1>3. CASE CheckRun \/ Wait \/ Timeout \/ WakeSpuriously
  <2>1. UNCHANGED <<async_count, woken>> /\ (clock' = "complete" <=> clock = "complete")
    BY <1>3 DEF CheckRun, Wait, Timeout, WakeSpuriously, GoClock
  <2> QED
    BY <1>1, <2>1, SameRequests DEF CountInv
<1>4. CASE Tick \/ UseFreedChannel \/ (\E f \in Client : UseFreedFibre(f)) \/ UNCHANGED vars
  <2>1. UNCHANGED <<async_count, woken, clock>>
    BY <1>4 DEF Tick, UseFreedChannel, UseFreedFibre, vars, clockVars
  <2> QED
    BY <1>1, <2>1, SameRequests DEF CountInv
<1> QED
  BY <1>2, <1>3, <1>4, CompleteCounts DEF StandStill

LEMMA SleepCounts ==
  ASSUME CareInv, CountInv, NEW f \in Client, NEW d \in Delay, Sleep(f, d)
  PROVE  CountInv'
<1>0. pc \in [Holder -> Places] /\ f \in Holder
  BY DEF CareInv, Typed, Holder
<1>1. Go(f, "run", "lock") /\ async_count' = async_count + 1 /\ UNCHANGED <<freed, woken, clock>>
  BY DEF Sleep, channelVars, clockVars
<1>2. /\ pc[f] = "run" /\ pc'[f] = "lock" /\ \A g \in Holder \ {f} : pc'[g] = pc[g]
      /\ pc' \in [Holder -> Places]
  BY <1>0, <1>1, GoPlaces DEF Places, RequestPlaces
<1>3. Requesting' = Requesting \cup {f} /\ f \notin Requesting
  BY <1>2 DEF Requesting, Holder
<1>4. Cardinality(Requesting') = Cardinality(Requesting) + 1
  BY <1>3, FiniteRequests, FS_AddElement
<1>5. (\A g \in DOMAIN pc' : pc'[g] # "free") => \A g \in DOMAIN pc : pc[g] # "free"
  BY <1>0, <1>2
<1>6. AsyncCountCounts'
  BY <1>1, <1>4, <1>5, FiniteRequests DEF CountInv, AsyncCountCounts
<1> QED
  BY <1>1, <1>6 DEF CountInv, WokenInv

LEMMA LinkCounts ==
  ASSUME CareInv, CountInv, NEW f \in Client, Link(f)
  PROVE  CountInv'
<1>0. pc \in [Holder -> Places] /\ f \in Holder
  BY DEF CareInv, Typed, Holder
<1>1. Go(f, "link", "asleep") /\ UNCHANGED <<async_count, freed, woken, clock>>
  BY DEF Link, Use, clockVars
<1>2. /\ pc[f] = "link" /\ pc'[f] = "asleep" /\ \A g \in Holder \ {f} : pc'[g] = pc[g]
      /\ pc' \in [Holder -> Places]
  BY <1>0, <1>1, GoPlaces DEF Places, RequestPlaces
<1>3. \A g \in Client : pc'[g] \in RequestPlaces <=> pc[g] \in RequestPlaces
  BY <1>2 DEF RequestPlaces, Holder
<1>4. (\A g \in DOMAIN pc' : pc'[g] # "free") => \A g \in DOMAIN pc : pc[g] # "free"
  BY <1>0, <1>2
<1> QED
  BY <1>1, <1>3, <1>4, SameRequests DEF CountInv

\* A client made ready no longer waits, but its request still counts.
LEMMA ActivateCounts ==
  ASSUME CareInv, ub # "lost", CountInv, NEW f \in Client, Activate(f)
  PROVE  CountInv'
<1>0. pc \in [Holder -> Places] /\ f \in Holder
  BY DEF CareInv, Typed, Holder
<1>1. /\ clock = "scan" /\ clock' = "complete" /\ woken' = {f}
      /\ UNCHANGED <<async_count, freed>>
  BY DEF Activate, GoClock, channelVars
<1>2. /\ pc[f] = "asleep" /\ pc'[f] = "run" /\ \A g \in Holder \ {f} : pc'[g] = pc[g]
      /\ pc' \in [Holder -> Places]
  BY ActivateCares DEF CareInv, Typed
<1>3. Requesting' = Requesting \ {f} /\ f \in Requesting
  BY <1>2 DEF Requesting, Holder
<1>4. Cardinality(Requesting') = Cardinality(Requesting) - 1
  BY <1>3, FiniteRequests, FS_RemoveElement
<1>5. Cardinality(woken) = 0 /\ Cardinality(woken') = 1
  BY <1>1, FiniteRequests, FS_Singleton DEF CountInv
<1>6. (\A g \in DOMAIN pc' : pc'[g] # "free") => \A g \in DOMAIN pc : pc[g] # "free"
  BY <1>0, <1>2
<1>7. AsyncCountCounts'
  BY <1>1, <1>4, <1>5, <1>6, FiniteRequests DEF CountInv, AsyncCountCounts
<1>8. WokenInv'
  BY <1>1 DEF WokenInv
<1> QED
  BY <1>1, <1>7, <1>8 DEF CountInv

\* While the clients of the list are deleted the count is left as it is.
LEMMA TakeCounts ==
  ASSUME CareInv, ub # "lost", CountInv, NEW f \in Holder, ClearTop(f) \/ FreeClient(f)
  PROVE  CountInv'
<1>0. pc \in [Holder -> Places]
  BY DEF CareInv, Typed
<1>1. UNCHANGED <<async_count, freed, woken, clock>>
  BY DEF ClearTop, FreeClient, clockVars
<1>2. CASE ClearTop(f)
  <2>1. /\ pc[f] = "clear" /\ pc'[f] = "zero" /\ \A g \in Holder \ {f} : pc'[g] = pc[g]
        /\ pc' \in [Holder -> Places]
    BY <1>2, ClearTopCares DEF CareInv, Typed
  <2>2. \A g \in Client : pc'[g] \in RequestPlaces <=> pc[g] \in RequestPlaces
    BY <2>1 DEF RequestPlaces, Holder
  <2>3. (\A g \in DOMAIN pc' : pc'[g] # "free") => \A g \in DOMAIN pc : pc[g] # "free"
    BY <1>0, <2>1
  <2> QED
    BY <1>1, <2>2, <2>3, SameRequests DEF CountInv
<1>3. CASE FreeClient(f)
  <2>1. pc'[f] = "free" /\ pc' \in [Holder -> Places]
    BY <1>3, FreeClientCares DEF CareInv, Typed
  <2>2. ~ \A g \in DOMAIN pc' : pc'[g] # "free"
    BY <2>1
  <2> QED
    BY <1>1, <2>2 DEF CountInv, WokenInv, AsyncCountCounts
<1> QED
  BY <1>2, <1>3

LEMMA CountNext == CareInv /\ CountInv /\ [Next]_vars => CountInv'
<1> SUFFICES ASSUME CareInv, CountInv, [Next]_vars PROVE CountInv'
  OBVIOUS
<1>1. CASE UNCHANGED vars
  BY <1>1, StillCounts
<1>2. CASE Next
  <2>1. ub # "lost"
    BY <1>2, StepBeforeLost
  <2>2. ASSUME Unlink PROVE CountInv'
    <3>1. /\ UNCHANGED <<async_count, freed, woken>> /\ clock = "unlink" /\ clock' = "pop"
          /\ pc' = pc
      BY <2>2 DEF Unlink, GoClock
    <3> QED
      BY <3>1, SameRequests DEF CountInv
  <2> QED
    BY <2>1, <2>2, StepKinds, QuietCounts, StillCounts, SleepCounts, LinkCounts,
       ActivateCounts, TakeCounts
<1> QED
  BY <1>1, <1>2

LEMMA CountInit == Init => CountInv
<1> SUFFICES ASSUME Init PROVE CountInv
  OBVIOUS
<1>1. async_count = 0 /\ freed = FALSE /\ woken = {} /\ clock = "loop"
  BY DEF Init
<1>2. Requesting = {} /\ woken = {}
  BY DEF Init, Requesting
<1>3. Cardinality(Requesting) = 0 /\ Cardinality(woken) = 0
  BY <1>2, FS_EmptySet
<1>4. AsyncCountCounts
  BY <1>1, <1>3 DEF AsyncCountCounts
<1>5. WokenInv
  BY <1>1 DEF WokenInv
<1>6. async_count \in Int
  BY <1>1
<1>7. freed \in BOOLEAN
  BY <1>1
<1> QED
  BY <1>4, <1>5, <1>6, <1>7 DEF CountInv

\* async_count is the number of clients whose request is not answered, and one
\* more while the clock has made a client ready and not yet completed its
\* request, whether or not that client has asked again by then; for any number
\* of clients that write, end and are woken in any order, while the channel lives.
THEOREM SleepersAreCounted == Spec => []AsyncCountCounts
<1>1. CountInv => AsyncCountCounts
  BY DEF CountInv
<1> QED
  BY <1>1, CareInit, CareNext, CountInit, CountNext, PTL DEF Spec

-----------------------------------------------------------------------------
(***************************************************************************)
(* The alarms                                                              *)
(***************************************************************************)

Looked == {"check", "wait", "waiting"}

\* The alarms, the time, and what the clock has made of them.
TimeInv ==
  /\ alarm \in [Client -> Nat]
  /\ t \in Nat /\ now \in Nat /\ sleep_until \in Nat /\ t <= now
  /\ WakesInTime

\* What a step must leave alone while the clock has looked at its queue.
LEMMA SameAlarms ==
  ASSUME TimeInv, UNCHANGED <<t, sleep_until>>, q' \subseteq q,
         alarm' \in [Client -> Nat], \A g \in q' : alarm'[g] = alarm[g],
         now' \in Nat, now' >= now,
         clock' \in Looked => clock \in Looked
  PROVE  TimeInv'
<1>1. t' <= now'
  BY DEF TimeInv
<1>2. WakesInTime'
  BY DEF TimeInv, WakesInTime, Looked
<1> QED
  BY <1>1, <1>2 DEF TimeInv

LEMMA ServiceTimes ==
  ASSUME CareInv, TimeInv,
         \/ Loop \/ PopWriter \/ Unlink \/ ReadTime \/ ScanEnd \/ Complete \/ CheckRun \/ Wait
  PROVE  TimeInv'
<1>0. /\ alarm \in [Client -> Nat] /\ t \in Nat /\ now \in Nat /\ sleep_until \in Nat
      /\ t <= now /\ Poll \in Nat /\ q \subseteq Client
  BY ClockAssumption DEF TimeInv, CareInv, Typed
<1>1. CASE Loop \/ PopWriter \/ Unlink \/ Complete
  <2>1. clock' \notin Looked /\ UNCHANGED <<alarm, t, sleep_until, now>>
    BY <1>1 DEF Loop, PopWriter, Unlink, Complete, GoClock, Looked
  <2> QED
    BY <1>0, <2>1 DEF TimeInv, WakesInTime, Looked
<1>2. CASE ReadTime
  <2>1. /\ clock' \notin Looked /\ t' = now /\ sleep_until' = now + Poll
        /\ UNCHANGED <<alarm, now>>
    BY <1>2 DEF ReadTime, GoClock, Looked
  <2>2. t' \in Nat /\ sleep_until' \in Nat /\ t' <= now'
    BY <1>0, <2>1
  <2> QED
    BY <1>0, <2>1, <2>2 DEF TimeInv, WakesInTime, Looked
<1>3. CASE ScanEnd
  <2>1. UNCHANGED <<alarm, q, t, now>>
    BY <1>3 DEF ScanEnd
  <2>2. CASE q = {} /\ sleep_until' = sleep_until
    BY <1>0, <2>1, <2>2 DEF TimeInv, WakesInTime
  <2>3. ASSUME NEW f \in q, OnTop(f), alarm[f] > t, sleep_until' = alarm[f]
        PROVE  TimeInv'
    <3>1. \A g \in q : t < alarm[g] /\ alarm[f] <= alarm[g]
      BY <1>0, <2>3 DEF OnTop, Earlier
    <3>2. sleep_until' \in Nat
      BY <1>0, <2>3
    <3> QED
      BY <1>0, <2>1, <2>3, <3>1, <3>2 DEF TimeInv, WakesInTime
  <2> QED
    BY <1>3, <2>2, <2>3 DEF ScanEnd
<1>4. CASE CheckRun
  BY <1>0, <1>4, SameAlarms DEF CheckRun, GoClock, Looked
<1>5. CASE Wait
  BY <1>0, <1>5, SameAlarms DEF Wait, GoClock, Looked
<1> QED
  BY <1>1, <1>2, <1>3, <1>4, <1>5

LEMMA TimeNext == CareInv /\ TimeInv /\ [Next]_vars => TimeInv'
<1> SUFFICES ASSUME CareInv, TimeInv, [Next]_vars PROVE TimeInv'
  OBVIOUS
<1>0. /\ alarm \in [Client -> Nat] /\ t \in Nat /\ now \in Nat
      /\ pc \in [Holder -> Places]
  BY DEF TimeInv, CareInv, Typed
<1>1. ASSUME NEW f \in Holder, Quiet(f) PROVE TimeInv'
  <2>1. /\ UNCHANGED <<alarm, q, t, sleep_until, now>>
        /\ clock' = clock \/ (clock = "waiting" /\ clock' = "loop")
    BY <1>0, <1>1, QuietSteps
  <2> QED
    BY <1>0, <2>1, SameAlarms DEF Looked
<1>2. CASE \/ Signal \/ Timeout \/ WakeSpuriously \/ UseFreedChannel
           \/ (\E f \in Client : UseFreedFibre(f)) \/ UNCHANGED vars
  <2>1. UNCHANGED <<alarm, q, t, sleep_until, now>> /\ (clock' \in Looked => clock \in Looked)
    BY <1>2 DEF Signal, Timeout, WakeSpuriously, UseFreedChannel, UseFreedFibre, vars,
                clockVars, GoClock, Looked
  <2> QED
    BY <1>0, <2>1, SameAlarms
<1>3. CASE Tick
  <2>1. UNCHANGED <<alarm, q, t, sleep_until, clock>> /\ now' = now + 1
    BY <1>3 DEF Tick, clockVars
  <2> QED
    BY <1>0, <2>1, SameAlarms
<1>4. ASSUME NEW f \in Client, NEW d \in Delay, Sleep(f, d), ub # "lost" PROVE TimeInv'
  <2>1. /\ UNCHANGED <<q, t, sleep_until, now, clock>> /\ alarm' = [alarm EXCEPT ![f] = now + d]
        /\ pc[f] = "run" /\ d \in Nat
    BY <1>4, ClockAssumption DEF Sleep, Go, clockVars
  <2>2. f \notin q
    BY <1>4, <2>1 DEF CareInv, Cared
  <2>3. alarm' \in [Client -> Nat] /\ \A g \in q' : alarm'[g] = alarm[g]
    BY <1>0, <2>1, <2>2
  <2> QED
    BY <1>0, <2>1, <2>3, SameAlarms
<1>5. ASSUME NEW f \in Client, Activate(f) PROVE TimeInv'
  <2>1. UNCHANGED <<alarm, t, sleep_until, now>> /\ q' = q \ {f} /\ clock' \notin Looked
    BY <1>5 DEF Activate, GoClock, Looked
  <2> QED
    BY <1>0, <2>1, SameAlarms
<1>6. CASE (\E f \in Client : Link(f)) \/ (\E f \in Holder : ClearTop(f) \/ FreeClient(f))
  <2>1. UNCHANGED <<alarm, q, t, sleep_until, now, clock>>
    BY <1>6 DEF Link, ClearTop, FreeClient, clockVars
  <2> QED
    BY <1>0, <2>1, SameAlarms
<1>7. CASE Next
  <2>1. ub # "lost"
    BY <1>7, StepBeforeLost
  <2> QED
    BY <1>1, <1>2, <1>3, <1>4, <1>5, <1>6, <2>1, ServiceTimes, StepKinds DEF StandStill
<1> QED
  BY <1>2, <1>7

LEMMA TimeInit == Init => TimeInv
BY DEF Init, TimeInv, WakesInTime

\* The clock never waits past the first alarm it knows of, and has rung every
\* alarm due when it looked, whoever asks, ends or is woken meanwhile.
THEOREM ClockWakesInTime == Spec => []WakesInTime
<1>1. TimeInv => WakesInTime
  BY DEF TimeInv
<1> QED
  BY <1>1, CareInit, CareNext, TimeInit, TimeNext, PTL DEF Spec

\* Whatever is signalled, and whenever its thread wakes, the clock resumes no
\* client before the time it asked for.
THEOREM NobodyWokenEarly == Spec => NeverEarly
<1>1. ASSUME CareInv, TimeInv, [Next]_vars, NEW f \in Client, pc[f] = "asleep", pc'[f] = "run"
      PROVE  now >= alarm[f]
  <2>0. pc \in [Holder -> Places] /\ f \in Holder /\ Next /\ ub # "lost"
    BY <1>1, StepBeforeLost DEF CareInv, Typed, Holder, vars
  <2>1. ASSUME NEW g \in Holder, NEW from, NEW to, Go(g, from, to), from # "asleep"
        PROVE  FALSE
    <3>1. pc[g] = from /\ \A h \in Holder \ {g} : pc'[h] = pc[h]
      BY <2>0, <2>1, GoPlaces
    <3> QED
      BY <1>1, <2>0, <2>1, <3>1
  <2>2. ASSUME NEW g \in Holder, Quiet(g) PROVE FALSE
    <3>1. PICK from, to \in Places \ {"asleep"} : Goes(g, from, to)
      BY <2>0, <2>2, QuietSteps
    <3> QED
      BY <2>1, <3>1 DEF Goes
  <2>3. ~(StandStill \/ UNCHANGED vars)
    <3>1. pc' # pc
      BY <1>1
    <3> QED
      BY <3>1, StandStillKeeps
  <2>4. ASSUME NEW g \in Client, (\E d \in Delay : Sleep(g, d)) \/ Link(g) PROVE FALSE
    <3>1. Go(g, "run", "lock") \/ Go(g, "link", "asleep")
      BY <2>4 DEF Sleep, Link, Use
    <3> QED
      BY <2>1, <3>1 DEF Holder
  <2>5. ASSUME NEW g \in Client, Activate(g) PROVE now >= alarm[f]
    <3>1. \A h \in Holder \ {g} : pc'[h] = pc[h]
      BY <1>1, <2>0, <2>5, ActivateCares
    <3>2. f = g
      BY <1>1, <2>0, <3>1
    <3>3. alarm[f] <= t /\ t <= now /\ alarm[f] \in Nat /\ t \in Nat /\ now \in Nat
      BY <1>1, <2>5, <3>2 DEF Activate, TimeInv
    <3> QED
      BY <3>3
  <2>6. ~Unlink
    BY <1>1, <2>0, UnlinkCares
  <2>7. ASSUME NEW g \in Holder, ClearTop(g) PROVE FALSE
    <3>1. Go(g, "clear", "zero")
      BY <2>7 DEF ClearTop, Use
    <3> QED
      BY <2>1, <3>1
  <2>8. ASSUME NEW g \in Holder, FreeClient(g) PROVE FALSE
    <3>1. PICK h \in Client : pc'[h] = "gone" /\ \A i \in Holder \ {h} : pc'[i] = pc[i]
      BY <1>1, <2>0, <2>8, FreeClientCares
    <3> QED
      BY <1>1, <2>0, <3>1
  <2> QED
    BY <1>1, <2>2, <2>3, <2>4, <2>5, <2>6, <2>7, <2>8, StepKinds
<1>2. CareInv /\ TimeInv /\ [Next]_vars
        => [\A f \in Client : pc[f] = "asleep" /\ pc'[f] = "run" => now >= alarm[f]]_vars
  BY <1>1
<1> QED
  BY <1>2, CareInit, CareNext, TimeInit, TimeNext, PTL DEF Spec, NeverEarly

-----------------------------------------------------------------------------
(***************************************************************************)
(* The bounds of the variables                                             *)
(***************************************************************************)

Gone == {f \in Client : pc[f] = "gone"}
Writing == {f \in Client : pc[f] \in WritePlaces}

\* The requests counted are those not answered, but for some that were deleted
\* with the channel, and each request is made, or to be signalled, once.
BoundInv ==
  /\ alarm \in [Client -> 0..MaxTime]
  /\ now \in 0..MaxTime /\ t \in 0..MaxTime /\ sleep_until \in 0..(MaxTime + Poll)
  /\ async_count \in Int
  /\ Cardinality(Requesting) + Cardinality(woken) <= async_count
  /\ async_count <= Cardinality(Requesting \cup Gone) + Cardinality(woken)
  /\ sleeps \in Nat /\ signals \in Nat
  /\ sleeps + signals + Cardinality(Writing) <= MaxSleeps

\* The variables that only a few steps set.
FlagInv ==
  /\ lk \in BOOLEAN /\ freed \in BOOLEAN /\ run \in BOOLEAN
  /\ clock \in {"loop", "pop", "unlink", "time", "scan", "complete", "check", "wait",
               "waiting", "returned"}
  /\ ub \in {"nothing", "fibre", "channel", "lost"}
  /\ refcnt \in Int /\ refcnt <= Cardinality(Client) + 2

LEMMA FiniteClients ==
  /\ IsFiniteSet(Requesting) /\ Cardinality(Requesting) \in Nat
  /\ IsFiniteSet(Requesting \cup Gone) /\ Cardinality(Requesting \cup Gone) \in Nat
  /\ Cardinality(Requesting \cup Gone) <= Cardinality(Client)
  /\ IsFiniteSet(Writing) /\ Cardinality(Writing) \in Nat
  /\ Cardinality(Client) \in Nat
<1>1. Requesting \subseteq Client /\ Requesting \cup Gone \subseteq Client /\ Writing \subseteq Client
  BY DEF Requesting, Gone, Writing
<1> QED
  BY <1>1, ClockAssumption, FS_Subset, FS_CardinalityType

\* Clients that go anywhere, but not to ask or to be answered.
LEMMA SameBounds ==
  ASSUME BoundInv, WokenInv, UNCHANGED <<async_count, sleeps, woken>>, signals' \in Nat,
         alarm' \in [Client -> 0..MaxTime],
         now' \in 0..MaxTime, t' \in 0..MaxTime, sleep_until' \in 0..(MaxTime + Poll),
         Requesting' \subseteq Requesting, Requesting \cup Gone \subseteq Requesting' \cup Gone',
         signals' + Cardinality(Writing') <= signals + Cardinality(Writing),
         Requesting' \cup Gone' \subseteq Client, Writing' \subseteq Client
  PROVE  BoundInv'
<1>1. /\ IsFiniteSet(Requesting' \cup Gone') /\ Cardinality(Requesting' \cup Gone') \in Nat
      /\ IsFiniteSet(Writing') /\ Cardinality(Writing') \in Nat
  BY ClockAssumption, FS_Subset, FS_CardinalityType
<1>2. Cardinality(Requesting') <= Cardinality(Requesting) /\ Cardinality(Requesting') \in Nat
  BY FiniteClients, FS_Subset, FS_CardinalityType
<1>3. Cardinality(Requesting \cup Gone) <= Cardinality(Requesting' \cup Gone')
  BY <1>1, FS_Subset
<1>4. (Requesting \cup Gone)' = Requesting' \cup Gone'
  OBVIOUS
<1>5. Cardinality(woken) \in Nat /\ woken' = woken
  BY FiniteRequests
<1>6. /\ Cardinality(Requesting') + Cardinality(woken) <= async_count
      /\ async_count <= Cardinality(Requesting' \cup Gone') + Cardinality(woken)
  BY <1>1, <1>2, <1>3, <1>5, FiniteClients DEF BoundInv
<1>7. sleeps' + signals' + Cardinality(Writing') <= MaxSleeps
  BY <1>1, FiniteClients, ClockAssumption DEF BoundInv
<1> QED
  BY <1>4, <1>5, <1>6, <1>7 DEF BoundInv

NobodyAsks ==
  \A g \in Client :
    /\ pc'[g] \in RequestPlaces => pc[g] \in RequestPlaces
    /\ pc[g] \in RequestPlaces \cup {"gone"} => pc'[g] \in RequestPlaces \cup {"gone"}
    /\ pc'[g] \in WritePlaces => pc[g] \in WritePlaces

\* The same, while nobody asks and nobody signals.
LEMMA GoesBounds ==
  ASSUME BoundInv, WokenInv, UNCHANGED <<async_count, sleeps, woken>>,
         signals' \in Nat, signals' <= signals, alarm' \in [Client -> 0..MaxTime],
         now' \in 0..MaxTime, t' \in 0..MaxTime, sleep_until' \in 0..(MaxTime + Poll),
         NobodyAsks
  PROVE  BoundInv'
<1>1. /\ Requesting' \subseteq Requesting /\ Requesting' \cup Gone' \subseteq Client
      /\ Requesting \cup Gone \subseteq Requesting' \cup Gone'
  BY DEF Requesting, Gone, RequestPlaces, NobodyAsks
<1>2. Writing' \subseteq Writing /\ Writing' \subseteq Client
  BY DEF Writing, NobodyAsks
<1>3. Cardinality(Writing') <= Cardinality(Writing) /\ Cardinality(Writing') \in Nat
  BY <1>2, FiniteClients, FS_Subset, FS_CardinalityType
<1>4. signals' + Cardinality(Writing') <= signals + Cardinality(Writing)
  BY <1>3, FiniteClients DEF BoundInv
<1> QED
  BY <1>1, <1>2, <1>4, SameBounds

LEMMA QuietBounds ==
  ASSUME CareInv, CountInv, BoundInv, NEW f \in Holder, Quiet(f)
  PROVE  BoundInv'
<1>0. /\ pc \in [Holder -> Places] /\ WokenInv /\ signals \in Nat
      /\ alarm \in [Client -> 0..MaxTime]
      /\ now \in 0..MaxTime /\ t \in 0..MaxTime /\ sleep_until \in 0..(MaxTime + Poll)
  BY DEF CareInv, Typed, CountInv, BoundInv
<1>1. PICK from, to \in Places \ {"asleep"} : Goes(f, from, to)
  BY <1>0, QuietSteps
<1>2. UNCHANGED <<alarm, sleeps, async_count, signals, woken, t, sleep_until, now>>
  BY <1>0, QuietSteps
<1>3. pc[f] = from /\ pc'[f] = to /\ \A g \in Holder \ {f} : pc'[g] = pc[g]
  BY <1>0, <1>1, GoPlaces DEF Goes
<1>4. NobodyAsks
  BY <1>1, <1>3 DEF Goes, Holder, NobodyAsks
<1> QED
  BY <1>0, <1>2, <1>4, GoesBounds

LEMMA CompleteBounds ==
  ASSUME CountInv, BoundInv, Complete
  PROVE  BoundInv'
<1>1. /\ clock = "complete" /\ woken' = {} /\ async_count' = async_count - 1
      /\ UNCHANGED <<pc, alarm, sleeps, signals, t, sleep_until, now>>
  BY DEF Complete, GoClock
<1>2. Cardinality(woken) = 1 /\ Cardinality(woken') = 0
  BY <1>1, FiniteRequests, FS_EmptySet DEF CountInv
<1>3. Requesting' = Requesting /\ Gone' = Gone /\ Writing' = Writing
  BY <1>1 DEF Requesting, Gone, Writing
<1>4. /\ async_count' \in Int
      /\ Cardinality(Requesting') + Cardinality(woken') <= async_count'
      /\ async_count' <= Cardinality((Requesting \cup Gone)') + Cardinality(woken')
  BY <1>1, <1>2, <1>3, FiniteClients DEF BoundInv
<1> QED
  BY <1>1, <1>3, <1>4 DEF BoundInv

LEMMA StillBounds ==
  ASSUME CareInv, CountInv, BoundInv, StandStill \/ UNCHANGED vars
  PROVE  BoundInv'
<1>0. /\ q \subseteq Client /\ WokenInv /\ alarm \in [Client -> 0..MaxTime]
      /\ now \in 0..MaxTime /\ t \in 0..MaxTime /\ sleep_until \in 0..(MaxTime + Poll)
      /\ sleeps \in Nat /\ signals \in Nat
  BY DEF CareInv, Typed, CountInv, BoundInv
<1>1. UNCHANGED <<pc, alarm, sleeps>>
  BY StandStillKeeps
<1>2. CASE Complete
  BY <1>2, CompleteBounds
<1>3. ASSUME ~Complete PROVE BoundInv'
  <2>1. UNCHANGED <<async_count, woken>> /\ signals' \in Nat /\ signals' <= signals
    BY <1>0, <1>3
       DEF StandStill, Signal, Loop, PopWriter, ReadTime, ScanEnd, CheckRun, Wait, Timeout,
           WakeSpuriously, Tick, UseFreedChannel, UseFreedFibre, vars, clockVars
  <2>2. now' \in 0..MaxTime /\ t' \in 0..MaxTime /\ sleep_until' \in 0..(MaxTime + Poll)
    <3>1. CASE Tick
      BY <1>0, <3>1, ClockAssumption DEF Tick, clockVars
    <3>2. CASE ReadTime
      BY <1>0, <3>2, ClockAssumption DEF ReadTime
    <3>3. CASE ScanEnd
      <4>1. sleep_until' = sleep_until \/ \E f \in q : sleep_until' = alarm[f]
        BY <3>3 DEF ScanEnd
      <4>2. now' = now /\ t' = t
        BY <3>3 DEF ScanEnd
      <4> QED
        BY <1>0, <4>1, <4>2, ClockAssumption
    <3>4. CASE \/ Signal \/ Loop \/ PopWriter \/ CheckRun \/ Wait \/ Timeout \/ WakeSpuriously
               \/ UseFreedChannel \/ (\E f \in Client : UseFreedFibre(f)) \/ UNCHANGED vars
      BY <1>0, <3>4 DEF Signal, Loop, PopWriter, CheckRun, Wait, Timeout, WakeSpuriously,
                        UseFreedChannel, UseFreedFibre, vars, clockVars
    <3> QED
      BY <1>3, <3>1, <3>2, <3>3, <3>4 DEF StandStill
  <2>3. NobodyAsks
    BY <1>1 DEF NobodyAsks
  <2> QED
    BY <1>0, <1>1, <2>1, <2>2, <2>3, GoesBounds
<1> QED
  BY <1>2, <1>3

LEMMA SleepBounds ==
  ASSUME CareInv, CountInv, BoundInv, NEW f \in Client, NEW d \in Delay, Sleep(f, d)
  PROVE  BoundInv'
<1>0. /\ pc \in [Holder -> Places] /\ f \in Holder /\ alarm \in [Client -> 0..MaxTime]
      /\ now \in 0..MaxTime /\ sleeps \in Nat /\ WokenInv
  BY DEF CareInv, Typed, CountInv, BoundInv, Holder
<1>1. /\ Go(f, "run", "lock") /\ sleeps > 0 /\ now <= LastStart
      /\ sleeps' = sleeps - 1 /\ alarm' = [alarm EXCEPT ![f] = now + d]
      /\ async_count' = async_count + 1
      /\ UNCHANGED <<signals, woken, t, sleep_until, now>>
  BY DEF Sleep, clockVars
<1>2. pc[f] = "run" /\ pc'[f] = "lock" /\ \A g \in Client \ {f} : pc'[g] = pc[g]
  BY <1>0, <1>1, GoPlaces DEF Holder
<1>3. alarm' \in [Client -> 0..MaxTime]
  <2>1. LastStart + d <= MaxTime /\ d \in Nat /\ LastStart \in Nat /\ MaxTime \in Nat
    BY ClockAssumption
  <2>2. now + d \in 0..MaxTime
    BY <1>0, <1>1, <2>1
  <2> QED
    BY <1>0, <1>1, <2>2
<1>4. /\ Requesting' = Requesting \cup {f} /\ f \notin Requesting
      /\ (Requesting \cup Gone)' = (Requesting \cup Gone) \cup {f}
      /\ f \notin Requesting \cup Gone
      /\ Writing' = Writing \cup {f} /\ f \notin Writing
  BY <1>2 DEF Requesting, Gone, Writing, WritePlaces
<1>5. /\ Cardinality(Requesting') = Cardinality(Requesting) + 1
      /\ Cardinality((Requesting \cup Gone)') = Cardinality(Requesting \cup Gone) + 1
      /\ Cardinality(Writing') = Cardinality(Writing) + 1
  BY <1>4, FiniteClients, FS_AddElement
<1>6. Cardinality(woken) \in Nat /\ woken' = woken
  BY <1>0, <1>1, FiniteRequests
<1>7. /\ async_count' \in Int /\ sleeps' \in Nat
      /\ Cardinality(Requesting') + Cardinality(woken') <= async_count'
      /\ async_count' <= Cardinality((Requesting \cup Gone)') + Cardinality(woken')
      /\ sleeps' + signals' + Cardinality(Writing') <= MaxSleeps
  BY <1>0, <1>1, <1>5, <1>6, FiniteClients, ClockAssumption DEF BoundInv
<1> QED
  BY <1>1, <1>3, <1>7 DEF BoundInv

LEMMA LinkBounds ==
  ASSUME CareInv, CountInv, BoundInv, NEW f \in Client, Link(f)
  PROVE  BoundInv'
<1>0. pc \in [Holder -> Places] /\ f \in Holder /\ signals \in Nat /\ WokenInv
  BY DEF CareInv, Typed, CountInv, BoundInv, Holder
<1>1. /\ Go(f, "link", "asleep") /\ signals' = signals + 1
      /\ UNCHANGED <<alarm, sleeps, async_count, woken, t, sleep_until, now>>
  BY DEF Link, Use, clockVars
<1>2. pc[f] = "link" /\ pc'[f] = "asleep" /\ \A g \in Client \ {f} : pc'[g] = pc[g]
  BY <1>0, <1>1, GoPlaces DEF Holder
<1>3. Requesting' = Requesting /\ Gone' = Gone /\ Writing' = Writing \ {f} /\ f \in Writing
  BY <1>2 DEF Requesting, Gone, Writing, WritePlaces
<1>4. Cardinality(Writing') = Cardinality(Writing) - 1
  BY <1>3, FiniteClients, FS_RemoveElement
<1>5. signals' + Cardinality(Writing') <= signals + Cardinality(Writing) /\ signals' \in Nat
  BY <1>0, <1>1, <1>4, FiniteClients
<1>6. Requesting' \cup Gone' \subseteq Client /\ Writing' \subseteq Client
  BY DEF Requesting, Gone, Writing
<1>7. alarm' \in [Client -> 0..MaxTime] /\ now' \in 0..MaxTime /\ t' \in 0..MaxTime
      /\ sleep_until' \in 0..(MaxTime + Poll)
  BY <1>1 DEF BoundInv
<1> QED
  BY <1>0, <1>1, <1>3, <1>5, <1>6, <1>7, SameBounds

LEMMA ActivateBounds ==
  ASSUME CareInv, ub # "lost", CountInv, BoundInv, NEW f \in Client, Activate(f)
  PROVE  BoundInv'
<1>1. /\ clock = "scan" /\ woken' = {f}
      /\ UNCHANGED <<alarm, sleeps, async_count, signals, t, sleep_until, now>>
  BY DEF Activate, GoClock
<1>2. pc[f] = "asleep" /\ pc'[f] = "run" /\ \A g \in Client \ {f} : pc'[g] = pc[g]
  BY ActivateCares DEF Holder
<1>3. /\ Requesting' = Requesting \ {f} /\ f \in Requesting
      /\ (Requesting \cup Gone)' = (Requesting \cup Gone) \ {f}
      /\ f \in Requesting \cup Gone /\ Writing' = Writing
  BY <1>2 DEF Requesting, Gone, Writing, WritePlaces
<1>4. /\ Cardinality(Requesting') = Cardinality(Requesting) - 1
      /\ Cardinality((Requesting \cup Gone)') = Cardinality(Requesting \cup Gone) - 1
  <2>1. Cardinality(Requesting \ {f}) = Cardinality(Requesting) - 1
    BY <1>3, FiniteClients, FS_RemoveElement
  <2>2. Cardinality((Requesting \cup Gone) \ {f}) = Cardinality(Requesting \cup Gone) - 1
    BY <1>3, FiniteClients, FS_RemoveElement
  <2> QED
    BY <1>3, <2>1, <2>2
<1>5. Cardinality(woken) = 0 /\ Cardinality(woken') = 1
  BY <1>1, FiniteRequests, FS_Singleton DEF CountInv
<1>6. /\ async_count' \in Int
      /\ Cardinality(Requesting') + Cardinality(woken') <= async_count'
      /\ async_count' <= Cardinality((Requesting \cup Gone)') + Cardinality(woken')
  BY <1>1, <1>4, <1>5, FiniteClients DEF BoundInv
<1> QED
  BY <1>1, <1>3, <1>6 DEF BoundInv

\* The clients of the list are gone, but still counted.
LEMMA TakeBounds ==
  ASSUME CareInv, ub # "lost", CountInv, BoundInv, NEW f \in Holder, ClearTop(f) \/ FreeClient(f)
  PROVE  BoundInv'
<1>0. pc \in [Holder -> Places] /\ WokenInv /\ signals \in Nat
  BY DEF CareInv, Typed, CountInv, BoundInv
<1>1. UNCHANGED <<alarm, sleeps, async_count, woken, signals, t, sleep_until, now>>
  BY DEF ClearTop, FreeClient, clockVars
<1>2. \A g \in Client : \/ pc'[g] = pc[g]
                        \/ (pc[g] = "clear" /\ pc'[g] = "zero")
                        \/ (pc[g] = "asleep" /\ pc'[g] = "gone")
  <2>1. CASE ClearTop(f)
    BY <2>1, ClearTopCares DEF Holder
  <2>2. CASE FreeClient(f)
    <3>1. PICK h \in Client : /\ pc[h] = "asleep" /\ pc'[h] = "gone"
                              /\ \A g \in Holder \ {h} : pc'[g] = pc[g]
      BY <2>2, FreeClientCares
    <3> QED
      BY <3>1 DEF Holder
  <2> QED
    BY <2>1, <2>2
<1>3. NobodyAsks
  BY <1>2 DEF RequestPlaces, WritePlaces, NobodyAsks
<1>4. /\ alarm' \in [Client -> 0..MaxTime] /\ now' \in 0..MaxTime /\ t' \in 0..MaxTime
      /\ sleep_until' \in 0..(MaxTime + Poll) /\ signals' \in Nat /\ signals' <= signals
  BY <1>0, <1>1 DEF BoundInv
<1> QED
  BY <1>0, <1>1, <1>3, <1>4, GoesBounds

LEMMA BoundNext == CareInv /\ CountInv /\ BoundInv /\ [Next]_vars => BoundInv'
<1> SUFFICES ASSUME CareInv, CountInv, BoundInv, [Next]_vars PROVE BoundInv'
  OBVIOUS
<1>1. CASE UNCHANGED vars
  BY <1>1, StillBounds
<1>2. CASE Next
  <2>1. ub # "lost"
    BY <1>2, StepBeforeLost
  <2>2. ASSUME Unlink PROVE BoundInv'
    <3>1. UNCHANGED <<pc, alarm, sleeps, async_count, woken, signals, t, sleep_until, now>>
      BY <2>2 DEF Unlink
    <3>2. Requesting' = Requesting /\ Gone' = Gone /\ Writing' = Writing
      BY <3>1 DEF Requesting, Gone, Writing
    <3> QED
      BY <3>1, <3>2 DEF BoundInv
  <2> QED
    BY <2>1, <2>2, StepKinds, QuietBounds, StillBounds, SleepBounds, LinkBounds,
       ActivateBounds, TakeBounds
<1> QED
  BY <1>1, <1>2

LEMMA BoundInit == Init => BoundInv
<1> SUFFICES ASSUME Init PROVE BoundInv
  OBVIOUS
<1>1. Requesting = {} /\ Requesting \cup Gone = {} /\ Writing = {} /\ woken = {}
  BY DEF Init, Requesting, Gone, Writing, WritePlaces
<1>2. /\ Cardinality(Requesting) = 0 /\ Cardinality(Requesting \cup Gone) = 0
      /\ Cardinality(Writing) = 0 /\ Cardinality(woken) = 0
  BY <1>1, FS_EmptySet
<1> QED
  BY <1>2, ClockAssumption DEF Init, BoundInv

LEMMA FlagNext == FlagInv /\ [Next]_vars => FlagInv'
<1> SUFFICES ASSUME FlagInv, [Next]_vars PROVE FlagInv'
  OBVIOUS
<1>1. /\ refcnt' \in {refcnt, refcnt - 1, 0}
      /\ lk' \in {lk, TRUE, FALSE} /\ freed' \in {freed, TRUE}
      /\ run' \in {run, FALSE} /\ ub' \in {ub, "fibre", "channel", "lost"}
      /\ clock' = clock \/ clock' \in {"loop", "pop", "unlink", "time", "scan", "complete",
                                       "check", "wait", "waiting", "returned"}
  <2>1. ASSUME NEW f \in Client, Request(f) \/ Write(f) PROVE <1>1!:
    BY <2>1 DEF Request, Write, Sleep, End, Lock, Check, Subtract, Push, Link, StoreTop,
                UseFreedFibre, channelVars, clockVars
  <2>2. ASSUME NEW f \in Client \cup {Owner}, Release(f) PROVE <1>1!:
    BY <2>2 DEF Release, LoadRefcnt, LeaveChannel, DeleteChannel, ClearTop, ClearRefcnt,
                FreeClient, FreeChannel, StoreTop, channelVars, clockVars
  <2>3. CASE Service \/ WakeSpuriously
    BY <2>3 DEF Service, Loop, PopWriter, Unlink, ReadTime, ScanEnd, Activate, Complete,
                CheckRun, Wait, Timeout, WakeSpuriously, StoreTop, GoClock, channelVars
  <2>4. CASE Signal \/ Stop \/ Join \/ Tick \/ UseFreedChannel \/ UNCHANGED vars
    BY <2>4 DEF Signal, Stop, Join, Tick, UseFreedChannel, vars, channelVars, clockVars
  <2> QED
    BY <2>1, <2>2, <2>3, <2>4 DEF Next
<1>2. refcnt' \in Int /\ refcnt' <= Cardinality(Client) + 2
  <2>1. refcnt' \in {refcnt, refcnt - 1, 0}
    BY <1>1, Zenon
  <2> QED
    BY <2>1, FiniteClients DEF FlagInv
<1>3. lk' \in BOOLEAN
  BY <1>1, Zenon DEF FlagInv
<1>4. freed' \in BOOLEAN
  BY <1>1, Zenon DEF FlagInv
<1>5. run' \in BOOLEAN
  BY <1>1, Zenon DEF FlagInv
<1>6. /\ clock' \in {"loop", "pop", "unlink", "time", "scan", "complete", "check", "wait",
                     "waiting", "returned"}
      /\ ub' \in {"nothing", "fibre", "channel", "lost"}
  BY <1>1, Zenon DEF FlagInv
<1> QED
  BY <1>2, <1>3, <1>4, <1>5, <1>6 DEF FlagInv

LEMMA FlagInit == Init => FlagInv
<1> SUFFICES ASSUME Init PROVE FlagInv
  OBVIOUS
<1>1. refcnt \in Int /\ refcnt <= Cardinality(Client) + 2
  BY FiniteClients DEF Init
<1>2. lk = FALSE /\ freed = FALSE /\ run = TRUE /\ clock = "loop" /\ ub = "nothing"
  BY DEF Init
<1> QED
  BY <1>1, <1>2 DEF FlagInv

\* For any number of clients every variable keeps its type: async_count never
\* exceeds their number by more than the one request the clock has yet to
\* complete, and is never below zero, and nobody is signalled for twice.  The
\* count of the channel is never more than at first; it may fall without end.
THEOREM ClockTypes == Spec => []TypeOK
<1>1. ASSUME CareInv, CountInv, BoundInv, FlagInv PROVE TypeOK
  <2>1. pc \in [Client \cup {Owner} ->
                  {"run", "lock", "check", "subtract", "push", "link", "asleep", "starved",
                   "join", "endpoint", "leave", "delete", "clear", "zero", "free", "gone"}]
    BY <1>1 DEF CareInv, Typed, Places, RequestPlaces, Holder
  <2>2. sleeps \in 0..MaxSleeps /\ signals \in 0..MaxSleeps
    BY <1>1, FiniteClients, ClockAssumption DEF BoundInv
  <2>3. Cardinality(woken) <= 1 /\ Cardinality(woken) \in Nat /\ woken \subseteq Client
    BY <1>1, FiniteRequests DEF CountInv, WokenInv
  <2>4. async_count \in 0..(Cardinality(Client) + 1)
    BY <1>1, <2>3, FiniteClients DEF BoundInv
  <2>5. /\ top \in Seq(Client) /\ q \subseteq Client /\ found \in Seq(Client)
        /\ link \in [Client \cup {Owner} -> Seq(Client)]
    BY <1>1 DEF CareInv, Typed, Holder
  <2>6. /\ alarm \in [Client -> 0..MaxTime] /\ t \in 0..MaxTime /\ now \in 0..MaxTime
        /\ sleep_until \in 0..(MaxTime + Poll)
    BY <1>1 DEF BoundInv
  <2> QED
    BY <1>1, <2>1, <2>2, <2>3, <2>4, <2>5, <2>6 DEF TypeOK, FlagInv
<1> QED
  BY <1>1, CareInit, CareNext, CountInit, CountNext, BoundInit, BoundNext, FlagInit, FlagNext,
     PTL DEF Spec
=============================================================================
