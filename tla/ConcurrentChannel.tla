--------------------------- MODULE ConcurrentChannel ---------------------------
(***************************************************************************)
(* One concurrent_channel_t used by the fibres that several schedulers run. *)
(* Its operations are bracketed by a spin lock, but the word is copied and *)
(* the peer made active after the lock is released, the destructors of the *)
(* endpoints do not take it, nor does delete_channel, and the two branches *)
(* that delete a fibre that could never be answered do not release it.     *)
(*                                                                         *)
(* A step is one access to what the threads share, but for the release of  *)
(* the lock, taken together with the access before it: who does not wait   *)
(* for the lock does not look at it.  Each fibre holds one reference to an *)
(* endpoint, and asks to read or to write again and again; it may give a   *)
(* copy of its reference to a fibre it spawns, and the fibres of Quitter   *)
(* may end.  The order of the active set is abstracted, as is how a thread *)
(* without work finds some: see Scheduler.                                 *)
(*                                                                         *)
(* The behaviour stops at the first use of what was deleted, and where a   *)
(* store to top overwrites what another thread has stored there.           *)
(***************************************************************************)
EXTENDS Integers, Sequences, FiniteSets

CONSTANTS
  Thread, Fibre, Endpoint, Process,
  None,       \* nullptr
  Word,       \* what is transferred
  Home,       \* the process of each thread and of each fibre
  FirstEpref, \* the endpoints that programs give the fibres, None to one
              \* that is spawned, again and again, when others run
  Quitter,    \* the fibres that may end
  MaxReferences  \* bound: a reference is copied when fewer are counted

ASSUME ConcurrentAssumption ==
  /\ IsFiniteSet(Thread) /\ IsFiniteSet(Fibre)
  /\ Home \in [Thread \cup Fibre -> Process]
  /\ FirstEpref \subseteq [Fibre -> Endpoint \cup {None}]
  /\ Quitter \subseteq Fibre
  /\ MaxReferences \in Nat
  /\ None \notin Thread \cup Fibre \cup Endpoint
  /\ "channel" \notin Fibre   \* see ChannelFrame

VARIABLES
  given,      \* the endpoint the program gives each fibre, or None
  pc,         \* where each thread is
  current,    \* csp_thread_t::current
  peer,       \* the fibre a thread has popped from the channel, or is to spawn
  link,       \* the list a thread has loaded from top, or stored as its next
  loaded,     \* the endpoint count a thread has loaded
  unwind,     \* the destructors each thread is executing, innermost first
  live,       \* the fibres that exist
  active,     \* the active sets of the processes, together
  code, word, \* of each fibre, the request and the word its pdata points to
  lk, top, refcnt,   \* of the channel
  freed,      \* was the channel deleted?
  epref,      \* the endpoint of each fibre, None once it was dropped
  eprefcnt,   \* channel_endpoint_t::refcnt
  dead,       \* the endpoints that were deleted
  ub          \* did a thread use what was "freed", or had its store been "lost"?

threadVars == <<pc, current, peer, link, loaded, unwind>>
fibreVars == <<live, active, code, word>>
channelVars == <<lk, top, refcnt, freed>>
endpointVars == <<epref, eprefcnt, dead>>
vars == <<given, threadVars, fibreVars, channelVars, endpointVars, ub>>

\* Does the program copy references while its threads run?
Copying == \E f \in Fibre : given[f] = None

\* Does it give one endpoint to several fibres, by copying a reference before
\* they run or later?  Then none of its threads may touch the count while another
\* does, and the code has them do it.
Sharing == Copying \/ \E f, g \in Fibre : f # g /\ given[f] = given[g]

\* The destructor of the channel, among those of fibres.
ChannelFrame == "channel"

\* Where a thread is about to use the channel.
UsesChannel == {"lock", "match", "unlink", "count", "check", "subtract", "push", "link",
                "endpoint", "leave", "delete", "clear", "zero"}

\* The counts are unsigned: below zero, where sharing may take refcnt and copies
\* eprefcnt, they stand for the number they wrap to, for they are only compared
\* with zero and one.
TypeOK ==
  /\ pc \in [Thread -> UsesChannel \cup
                         {"idle", "run", "refer", "copy", "resume", "pop", "starved",
                          "unwind", "drop", "store"}]
  /\ current \in [Thread -> Fibre \cup {None}]
  /\ peer \in [Thread -> Fibre \cup {None}]
  /\ link \in [Thread -> Seq(Fibre)]
  /\ loaded \in [Thread -> Int]
  /\ unwind \in [Thread -> Seq(Fibre \cup {ChannelFrame})]
  /\ live \subseteq Fibre /\ active \subseteq live
  /\ code \in [Fibre -> {"nothing", "read", "write"}]
  /\ word \in [Fibre -> Word]
  /\ lk \in BOOLEAN /\ top \in Seq(Fibre) /\ freed \in BOOLEAN
  /\ refcnt \in Int /\ (Sharing \/ refcnt \in 0..(Cardinality(Fibre) + 1))
  /\ epref \in [Fibre -> Endpoint \cup {None}]
  /\ eprefcnt \in [Endpoint -> Int]
  /\ Copying \/ eprefcnt \in [Endpoint -> 0..Cardinality(Fibre)]
  /\ dead \subseteq Endpoint
  /\ ub \in {"nothing", "freed", "lost"}

\* The endpoints that fibres hold references to.
Endpoints == {epref[f] : f \in Fibre} \ {None}

\* (Mutant of Copies: a copy of a reference is not counted.)
CopiesUncounted(e) == 1

\* A reference is copied for each fibre that is given the endpoint.
Copies(e) == Cardinality({f \in Fibre : epref[f] = e})

\* The program has made the channel, its endpoints and the first fibres.
Init ==
  /\ given \in FirstEpref
  /\ pc = [t \in Thread |-> "idle"]
  /\ current = [t \in Thread |-> None]
  /\ peer = [t \in Thread |-> None]
  /\ link = [t \in Thread |-> << >>]
  /\ loaded = [t \in Thread |-> 0]
  /\ unwind = [t \in Thread |-> << >>]
  /\ live = {f \in Fibre : given[f] # None} /\ active = live
  /\ code = [f \in Fibre |-> "nothing"]
  /\ word \in [Fibre -> Word]
  /\ lk = FALSE /\ top = << >> /\ freed = FALSE
  /\ epref = given
  /\ eprefcnt = [e \in Endpoint |-> Copies(e)] /\ dead = {}
  /\ refcnt = 1 + Cardinality(Endpoints)
  /\ ub = "nothing"

-----------------------------------------------------------------------------
\* The fibre whose destructor is innermost.
Dying(t) == Head(unwind[t])
Unwinding(t) == pc[t] = "unwind" /\ unwind[t] # << >>

\* Is the thread about to use an endpoint, or the channel, that was deleted?
Stale(t) ==
  \/ pc[t] \in UsesChannel /\ freed
  \/ pc[t] \in {"run", "refer"} /\ epref[current[t]] \in dead
  \/ /\ pc[t] \in {"unwind", "drop", "store", "endpoint", "leave", "delete", "clear", "zero"}
     /\ unwind[t] # << >> /\ Dying(t) # ChannelFrame /\ epref[Dying(t)] \in dead

\* Thread t goes from one place to another.  A fibre that runs may end without a
\* use of its endpoint before the destructors.
Go(t, from, to) ==
  /\ pc[t] = from /\ ub = "nothing"
  /\ Stale(t) => from = "run" /\ to = "unwind"
  /\ pc' = [pc EXCEPT ![t] = to]

\* A use of an endpoint or of the channel after it was deleted.
UseFreed(t) ==
  /\ Stale(t) /\ ub = "nothing"
  /\ ub' = "freed"
  /\ UNCHANGED <<threadVars, fibreVars, channelVars, endpointVars>>

\* The thread stores to top, whatever it was when the thread loaded it.
StoreTop(t, list) ==
  /\ top' = list
  /\ ub' = IF top = link[t] THEN ub ELSE "lost"

\* Thread t fetches a fibre of its process, if there is one, and goes on.
Fetch(t, from, found, none) ==
  \/ \E f \in active : /\ Home[f] = Home[t]
                       /\ Go(t, from, found)
                       /\ active' = active \ {f}
                       /\ current' = [current EXCEPT ![t] = f]
  \/ /\ \A f \in active : Home[f] # Home[t]
     /\ Go(t, from, none)
     /\ current' = [current EXCEPT ![t] = None]
     /\ UNCHANGED active

FindWork(t) ==
  /\ \E f \in active : Home[f] = Home[t]
  /\ Fetch(t, "idle", "run", "idle")
  /\ UNCHANGED <<peer, link, loaded, unwind, live, code, word, channelVars, endpointVars, ub>>

-----------------------------------------------------------------------------
(***************************************************************************)
(* read and write                                                          *)
(***************************************************************************)

\* The fibre asks, dir being "read" or "write".
Ask(t, dir) ==
  /\ Go(t, "run", "lock")
  /\ epref[current[t]] # None
  /\ code' = [code EXCEPT ![current[t]] = dir]
  /\ \E x \in Word : word' = IF dir = "write" THEN [word EXCEPT ![current[t]] = x] ELSE word
  /\ UNCHANGED <<current, peer, link, loaded, unwind, live, active, channelVars, endpointVars, ub>>

\* (Mutant of Lock: the flag is not tested.)
LockUntested(t) ==
  /\ Go(t, "lock", "match")
  /\ lk' = TRUE
  /\ UNCHANGED <<current, peer, link, loaded, unwind, fibreVars, top, refcnt, freed, endpointVars, ub>>

\* The test_and_set that succeeds.
Lock(t) ==
  /\ Go(t, "lock", "match")
  /\ ~lk /\ lk' = TRUE
  /\ UNCHANGED <<current, peer, link, loaded, unwind, fibreVars, top, refcnt, freed, endpointVars, ub>>

HasPeer(f) == top # << >> /\ code[Head(top)] # code[f]

\* st_pop_reader or st_pop_writer: top is loaded, and tested for a peer,
Match(t) ==
  /\ \/ /\ Go(t, "match", "unlink")
        /\ HasPeer(current[t])
        /\ link' = [link EXCEPT ![t] = top]
     \/ /\ Go(t, "match", "check")
        /\ ~HasPeer(current[t])
        /\ UNCHANGED link
  /\ UNCHANGED <<current, peer, loaded, unwind, fibreVars, channelVars, endpointVars, ub>>

\* and the peer is taken from the list.
Unlink(t) ==
  /\ Go(t, "unlink", "count")
  /\ peer' = [peer EXCEPT ![t] = Head(link[t])]
  /\ StoreTop(t, Tail(link[t]))
  /\ link' = [link EXCEPT ![t] = << >>]
  /\ UNCHANGED <<current, loaded, unwind, fibreVars, lk, refcnt, freed, endpointVars>>

\* (Mutant of CountPeer: the peer is not counted.)
CountNobody(t) ==
  /\ Go(t, "count", "copy")
  /\ lk' = FALSE
  /\ UNCHANGED <<current, peer, link, loaded, unwind, fibreVars, top, refcnt, freed, endpointVars, ub>>

\* The peer is no longer suspended: ++refcnt, unlock.
CountPeer(t) ==
  /\ Go(t, "count", "copy")
  /\ refcnt' = refcnt + 1
  /\ lk' = FALSE
  /\ UNCHANGED <<current, peer, link, loaded, unwind, fibreVars, top, freed, endpointVars, ub>>

\* (Mutant of Copy: each fibre keeps its word.)
CopyNothing(t) ==
  /\ Go(t, "copy", "resume")
  /\ UNCHANGED <<current, peer, link, loaded, unwind, fibreVars, channelVars, endpointVars, ub>>

\* The word goes from the writer to the reader, whichever is current.
Copy(t) ==
  /\ Go(t, "copy", "resume")
  /\ LET f == current[t]  p == peer[t]
     IN  word' = IF code[f] = "read" THEN [word EXCEPT ![f] = word[p]]
                                     ELSE [word EXCEPT ![p] = word[f]]
  /\ UNCHANGED <<current, peer, link, loaded, unwind, live, active, code, channelVars, endpointVars, ub>>

\* (Mutant of Resume: a reader becomes current, and active too.)
ResumeTwice(t) ==
  /\ Go(t, "resume", "run")
  /\ active' = active \cup {peer[t]}
  /\ current' = IF code[current[t]] = "write" THEN [current EXCEPT ![t] = peer[t]] ELSE current
  /\ peer' = [peer EXCEPT ![t] = None]
  /\ UNCHANGED <<link, loaded, unwind, live, code, word, channelVars, endpointVars, ub>>

\* A reader of the process of the writer becomes current in its place; any
\* other peer becomes active.
Resume(t) ==
  /\ Go(t, "resume", "run")
  /\ peer' = [peer EXCEPT ![t] = None]
  /\ \/ /\ code[current[t]] = "write" /\ Home[peer[t]] = Home[current[t]]
        /\ active' = active \cup {current[t]}
        /\ current' = [current EXCEPT ![t] = peer[t]]
     \/ /\ code[current[t]] = "read" \/ Home[peer[t]] # Home[current[t]]
        /\ active' = active \cup {peer[t]}
        /\ UNCHANGED current
  /\ UNCHANGED <<link, loaded, unwind, live, code, word, channelVars, endpointVars, ub>>

\* Nobody to answer, and nobody left who could, or else the fibre suspends.
Check(t) ==
  /\ Go(t, "check", IF refcnt = 1 THEN "starved" ELSE "subtract")
  /\ UNCHANGED <<current, peer, link, loaded, unwind, fibreVars, channelVars, endpointVars, ub>>

\* (Mutant of Subtract: the fibre that suspends is counted still.)
SubtractNothing(t) ==
  /\ Go(t, "subtract", "push")
  /\ UNCHANGED <<current, peer, link, loaded, unwind, fibreVars, channelVars, endpointVars, ub>>

Subtract(t) ==
  /\ Go(t, "subtract", "push")
  /\ refcnt' = refcnt - 1
  /\ UNCHANGED <<current, peer, link, loaded, unwind, fibreVars, lk, top, freed, endpointVars, ub>>

\* st_push_reader or st_push_writer: the next of the fibre is what top is,
Push(t) ==
  /\ Go(t, "push", "link")
  /\ link' = [link EXCEPT ![t] = top]
  /\ UNCHANGED <<current, peer, loaded, unwind, fibreVars, channelVars, endpointVars, ub>>

\* and top becomes the fibre; unlock.
Link(t) ==
  /\ Go(t, "link", "pop")
  /\ StoreTop(t, <<current[t]>> \o link[t])
  /\ lk' = FALSE
  /\ link' = [link EXCEPT ![t] = << >>]
  /\ UNCHANGED <<current, peer, loaded, unwind, fibreVars, refcnt, freed, endpointVars>>

\* current->process->pop().  The fibre may be running elsewhere already, or be
\* deleted (see Scheduler): its process is taken to be that of the thread.
Pop(t) ==
  /\ Fetch(t, "pop", "run", "idle")
  /\ UNCHANGED <<peer, link, loaded, unwind, live, code, word, channelVars, endpointVars, ub>>

\* The lock is not released.
Starve(t) ==
  /\ Fetch(t, "starved", "unwind", "unwind")
  /\ unwind' = [unwind EXCEPT ![t] = <<current[t]>>]
  /\ UNCHANGED <<peer, link, loaded, live, code, word, channelVars, endpointVars, ub>>

-----------------------------------------------------------------------------
(***************************************************************************)
(* The copy of a reference, for a fibre that is spawned                    *)
(***************************************************************************)

\* chan_epref_t(chan_epref_t &) loads the count, which is not atomic,
Refer(t) ==
  /\ Go(t, "run", "refer")
  /\ epref[current[t]] # None
  /\ eprefcnt[epref[current[t]]] \in 1..(MaxReferences - 1)
  /\ loaded' = [loaded EXCEPT ![t] = eprefcnt[epref[current[t]]]]
  /\ \E g \in Fibre \ live :
       /\ given[g] = None /\ Home[g] = Home[t]
       /\ peer' = [peer EXCEPT ![t] = g]
       /\ live' = live \cup {g}
  /\ UNCHANGED <<current, link, unwind, active, code, word, channelVars, endpointVars, ub>>

\* and stores one more; the fibre is spawned with the copy, and is ready.
Spawn(t) ==
  /\ Go(t, "refer", "run")
  /\ LET e == epref[current[t]]
     IN  /\ eprefcnt' = [eprefcnt EXCEPT ![e] = loaded[t] + 1]
         /\ epref' = [epref EXCEPT ![peer[t]] = e]
  /\ active' = active \cup {peer[t]}
  /\ peer' = [peer EXCEPT ![t] = None]
  /\ UNCHANGED <<current, link, loaded, unwind, live, code, word, channelVars, dead, ub>>

-----------------------------------------------------------------------------
(***************************************************************************)
(* The destructors, in which the channel is used without its lock          *)
(***************************************************************************)

\* The fibre returns.
End(t) ==
  /\ Go(t, "run", "unwind")
  /\ current[t] \in Quitter
  /\ unwind' = [unwind EXCEPT ![t] = <<current[t]>>]
  /\ current' = [current EXCEPT ![t] = None]
  /\ UNCHANGED <<peer, link, loaded, fibreVars, channelVars, endpointVars, ub>>

\* ~chan_epref_t loads the count, which is not atomic, and deletes the endpoint
\* if it is one;
LoadReferences(t) ==
  /\ Unwinding(t) /\ Dying(t) # ChannelFrame /\ epref[Dying(t)] # None
  /\ Go(t, "unwind", IF eprefcnt[epref[Dying(t)]] = 1 THEN "endpoint" ELSE "drop")
  /\ UNCHANGED <<current, peer, link, loaded, unwind, fibreVars, channelVars, endpointVars, ub>>

\* or else loads it again,
ReloadReferences(t) ==
  /\ Go(t, "drop", "store")
  /\ loaded' = [loaded EXCEPT ![t] = eprefcnt[epref[Dying(t)]]]
  /\ UNCHANGED <<current, peer, link, unwind, fibreVars, channelVars, endpointVars, ub>>

\* and stores one less.
DropReference(t) ==
  /\ Go(t, "store", "unwind")
  /\ eprefcnt' = [eprefcnt EXCEPT ![epref[Dying(t)]] = loaded[t] - 1]
  /\ epref' = [epref EXCEPT ![Dying(t)] = None]
  /\ UNCHANGED <<current, peer, link, loaded, unwind, fibreVars, channelVars, dead, ub>>

\* The endpoint is deleted, and with it the reference of the fibre.
DeleteEndpoint(t) ==
  /\ epref' = [epref EXCEPT ![Dying(t)] = None]
  /\ dead' = dead \cup {epref[Dying(t)]}
  /\ UNCHANGED eprefcnt

\* ~channel_endpoint_t: switch on channel->refcnt,
LoadRefcnt(t) ==
  \/ /\ refcnt # 0
     /\ Go(t, "endpoint", IF refcnt = 1 THEN "delete" ELSE "leave")
     /\ UNCHANGED <<current, peer, link, loaded, unwind, fibreVars, channelVars, endpointVars, ub>>
  \/ /\ refcnt = 0
     /\ Go(t, "endpoint", "unwind")
     /\ DeleteEndpoint(t)
     /\ UNCHANGED <<current, peer, link, loaded, unwind, fibreVars, channelVars, ub>>

LeaveChannel(t) ==
  /\ Go(t, "leave", "unwind")
  /\ refcnt' = refcnt - 1
  /\ DeleteEndpoint(t)
  /\ UNCHANGED <<current, peer, link, loaded, unwind, fibreVars, lk, top, freed, ub>>

\* delete_channel, which does not take the lock: top is loaded,
DeleteChannel(t) ==
  /\ Go(t, "delete", "clear")
  /\ link' = [link EXCEPT ![t] = top]
  /\ UNCHANGED <<current, peer, loaded, unwind, fibreVars, channelVars, endpointVars, ub>>

\* set to nullptr,
ClearTop(t) ==
  /\ Go(t, "clear", "zero")
  /\ StoreTop(t, << >>)
  /\ UNCHANGED <<current, peer, link, loaded, unwind, fibreVars, lk, refcnt, freed, endpointVars>>

\* and the count to zero; the fibres of the list are deleted, then the channel.
ClearRefcnt(t) ==
  /\ Go(t, "zero", "unwind")
  /\ refcnt' = 0
  /\ unwind' = [unwind EXCEPT ![t] = link[t] \o <<ChannelFrame>> \o @]
  /\ link' = [link EXCEPT ![t] = << >>]
  /\ DeleteEndpoint(t)
  /\ UNCHANGED <<current, peer, loaded, fibreVars, lk, top, freed, ub>>

\* The innermost destructor is done; after the outermost the thread goes on.
Return(t) ==
  /\ unwind' = [unwind EXCEPT ![t] = Tail(@)]
  /\ Go(t, "unwind", IF Tail(unwind[t]) # << >> THEN "unwind"
                     ELSE IF current[t] = None THEN "pop" ELSE "run")

FreeFibre(t) ==
  /\ Unwinding(t) /\ Dying(t) # ChannelFrame /\ epref[Dying(t)] = None
  /\ Return(t)
  /\ live' = live \ {Dying(t)}
  /\ UNCHANGED <<current, peer, link, loaded, active, code, word, channelVars, endpointVars, ub>>

FreeChannel(t) ==
  /\ Unwinding(t) /\ Dying(t) = ChannelFrame
  /\ Return(t)
  /\ freed' = TRUE
  /\ ub' = IF freed THEN "freed" ELSE ub
  /\ UNCHANGED <<current, peer, link, loaded, fibreVars, lk, top, refcnt, endpointVars>>

-----------------------------------------------------------------------------
Transfer(t) ==
  \/ \E dir \in {"read", "write"} : Ask(t, dir)
  \/ Lock(t) \/ Match(t) \/ Unlink(t) \/ CountPeer(t) \/ Copy(t) \/ Resume(t)
  \/ Check(t) \/ Subtract(t) \/ Push(t) \/ Link(t) \/ Pop(t) \/ Starve(t)

Destroy(t) ==
  \/ LoadReferences(t) \/ ReloadReferences(t) \/ DropReference(t) \/ LoadRefcnt(t) \/ LeaveChannel(t)
  \/ DeleteChannel(t) \/ ClearTop(t) \/ ClearRefcnt(t) \/ FreeFibre(t) \/ FreeChannel(t)

Step(t) ==
  \/ FindWork(t) \/ Transfer(t) \/ Refer(t) \/ Spawn(t) \/ End(t) \/ Destroy(t)
  \/ UseFreed(t)

Next == (\E t \in Thread : Step(t)) /\ UNCHANGED given

\* Threads are preempted but run again, and no fibre computes for ever.
Spec == Init /\ [][Next]_vars /\ \A t \in Thread : WF_vars(Step(t) /\ UNCHANGED given)

-----------------------------------------------------------------------------
(***************************************************************************)
(* Properties                                                              *)
(***************************************************************************)

At(places) == {t \in Thread : pc[t] \in places}
Suspended == {top[i] : i \in DOMAIN top}

\* At most one thread is between lock() and unlock(), and while one is the
\* flag is set.
InsidePlaces == {"match", "unlink", "count", "check", "subtract", "push", "link", "starved"}
Inside == At(InsidePlaces)

MutualExclusion == Cardinality(Inside) <= 1 /\ (Inside # {} => lk)

\* A fibre that exists is in one place: run by one thread, taken from the
\* channel by one or to be spawned by it, ready, suspended once, or being
\* destroyed, from the time delete_channel has cleared top.  Where endpoints are
\* shared this ends when delete_channel and an operation that holds the lock
\* overwrite each other's top: nothing in the code keeps them apart.
Runs(t, f) == current[t] = f /\ pc[t] # "pop"
Destroys(t, f) ==
  \/ \E i \in DOMAIN unwind[t] : unwind[t][i] = f
  \/ pc[t] = "zero" /\ \E i \in DOMAIN link[t] : link[t][i] = f

FibreInOnePlace ==
  ~Sharing \/ ub # "lost" =>
    \A f \in Fibre :
      Cardinality({t \in Thread : Runs(t, f)}) + Cardinality({t \in Thread : peer[t] = f})
      + Cardinality({f} \cap active) + Cardinality({i \in DOMAIN top : top[i] = f})
      + Cardinality({t \in Thread : Destroys(t, f)})
        = IF f \in live THEN 1 ELSE 0

\* The count is one more than the endpoints less the fibres suspended, up to
\* the updates that threads are about to make; so when no thread is inside it
\* tells truly whether any endpoint is left to answer with.
Pushing == At({"push", "link"})

RefcntAccounting ==
  ~Sharing =>
    refcnt + Cardinality(Suspended) + Cardinality(Pushing) + Cardinality(At({"count"}))
      = 1 + Cardinality(Endpoints)

\* Where references are copied only before the threads run, whatever threads load
\* the count of an endpoint and store what they loaded, less one, a lost decrement
\* leaves the count too high: an endpoint may leak, but is never deleted while
\* another fibre refers to it.  (A fibre that copies its reference while another
\* drops one may have its increment lost, and then it is.)
EndpointKept ==
  ~Copying =>
    \A t \in At({"endpoint", "leave", "delete", "clear", "zero"}), f \in Fibre :
      f # Dying(t) => epref[f] # epref[Dying(t)]

\* A fibre is taken for the last that could answer, or an endpoint for the last,
\* only when nobody else could: as long as the references that fibres hold are
\* at most one more than the endpoints, every other fibre that holds one is
\* suspended, or about to be, whatever the order in which threads suspend fibres,
\* resume them and destroy references.  (With more references than that the
\* counts say too little: the first fibres to wait may be deleted while others
\* run.  With as many as endpoints it never comes to that.)
Waits(f) == f \in Suspended \/ \E t \in Pushing : current[t] = f
Deleting ==
  freed \/ \E t \in Thread :
    \/ pc[t] \in {"delete", "clear", "zero"}
    \/ \E i \in DOMAIN unwind[t] : unwind[t][i] = ChannelFrame
References == {f \in Fibre : epref[f] # None}

OthersWait(f) == \A g \in References \ {f} : Waits(g)

DeletedWhenOthersWait ==
  [][~Copying /\ ~Deleting /\ Cardinality(References) <= Cardinality(Endpoints) + 1 =>
       \A t \in Thread :
         /\ pc[t] = "check" /\ pc'[t] = "starved" => OthersWait(current[t])
         /\ pc[t] = "endpoint" /\ pc'[t] = "delete" => OthersWait(Dying(t))]_vars

\* A fibre asks until it has been given, or has given, its word.
Asking ==
  Suspended \cup {current[t] : t \in At(InsidePlaces \cup {"lock", "copy"})}
            \cup {peer[t] : t \in At({"count", "copy"})}

Asks == LET asking == Asking
        IN  [f \in Fibre |-> IF f \in asking THEN code[f]
                             ELSE IF f \in live THEN "nothing" ELSE "gone"]

Promise == INSTANCE Rendezvous
             WITH sharing <- Sharing, broken <- ub = "lost", asks <- Asks

\* Through the lock, the copy after it and the two ways to resume a peer, a
\* reader and a writer exchange one word once, and while both wait some do;
\* where endpoints are shared a fibre that waits may be lost, but until the
\* channel is broken no word is.
\* In particular the lock is given back, and readers and writers never wait on
\* the channel together, the precondition of push_reader in channel.hpp: "if the
\* channel is non-empty it must contain only readers".
ImplementsRendezvous == Promise!RendezvousSpec
=============================================================================
