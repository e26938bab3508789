---------------------------- MODULE ChannelKernel ----------------------------
(***************************************************************************)
(* The single threaded CSP kernel: the scheduler csp_thread_t running the  *)
(* fibres of one process, sequential_channel_t, the reference counted      *)
(* channel endpoints, and the destructors through which the end of a fibre *)
(* may end a channel and every fibre suspended on it.                      *)
(*                                                                         *)
(* The program the kernel runs is arbitrary: whenever a fibre is running   *)
(* it may ask for any service, construct or duplicate an endpoint, pass    *)
(* endpoint references to a fibre it spawns, or end.  A continuation is    *)
(* abstracted to the set of endpoint references it holds.                  *)
(*                                                                         *)
(* A service call is one step, because nothing else runs meanwhile.        *)
(* Destructors are the exception: they nest and recurse, so the stack of   *)
(* C++ destructor activations is a variable and each activation a step.    *)
(***************************************************************************)
EXTENDS Stacks, FiniteSets

CONSTANTS
  Fibre,            \* addresses of fibre_t objects
  Channel,          \* channel_t objects; one that was freed is not reused
  Endpoint,         \* addresses of channel_endpoint_t objects
  None              \* nullptr

ASSUME KernelAssumption ==
  /\ IsFiniteSet(Fibre)
  /\ IsFiniteSet(Endpoint)
  /\ Fibre # {}
  /\ None \notin Fibre \cup Channel

VARIABLES
  program,    \* what kind of program runs: see Sharing
  live,       \* the fibre_t objects that exist
  current,    \* csp_thread_t::current
  active,     \* csp_process_t::active, a stack of fibres, top first
  top,        \* channel_t::top, a stack of tagged fibre pointers, top first
  chstate,    \* whether a channel_t object is "unused", "live" or "freed"
  refcnt,     \* channel_t::refcnt
  channel,    \* channel_endpoint_t::channel, None when there is no endpoint
  eprefcnt,   \* channel_endpoint_t::refcnt
  eprefs,     \* the endpoints the chan_epref_t's of a fibre refer to
  owner,      \* the fibre an endpoint was made for or last passed to
  unwind,     \* the destructors being executed, innermost first
  ub          \* has freed memory been used?

objectVars == <<chstate, channel, eprefcnt, eprefs, owner>>
vars == <<program, live, current, active, top, refcnt, objectVars, unwind, ub>>

\* May several fibres do I/O through one endpoint?  That depends on the program,
\* which stays the same.
Sharing == program = "shared"

(***************************************************************************)
(* Pointers to the fibres on a channel carry the direction of their        *)
(* request in the low bit, which is set for a writer.                      *)
(***************************************************************************)
Tagged == [fib : Fibre, wr : BOOLEAN]

\* What a destructor activation destroys.
Frame == [kind : {"fibre"}, obj : Fibre] \cup [kind : {"channel"}, obj : Channel]

\* delete_concrete_object on a fibre, delete_csp_polymorphic_object on a channel.
DeleteFibre(f) == [kind |-> "fibre", obj |-> f]
DeleteChannelObject(c) == [kind |-> "channel", obj |-> c]

TypeOK ==
  /\ live \subseteq Fibre
  /\ current \in Fibre \cup {None}
  /\ active \in Seq(Fibre)
  /\ top \in [Channel -> Seq(Tagged)]
  /\ chstate \in [Channel -> {"unused", "live", "freed"}]
  /\ refcnt \in [Channel -> Nat]
  /\ channel \in [Endpoint -> Channel \cup {None}]
  /\ eprefcnt \in [Endpoint -> Nat]
  /\ eprefs \in [Fibre -> SUBSET Endpoint]
  /\ owner \in [Endpoint -> Fibre \cup {None}]
  /\ unwind \in Seq(Frame)
  /\ ub \in BOOLEAN

\* csp_run: one process, one thread, one fibre for the initial continuation.
Init ==
  /\ program \in {"owned", "shared"}
  /\ current \in Fibre
  /\ live = {current}
  /\ active = << >>
  /\ top = [c \in Channel |-> << >>]
  /\ chstate = [c \in Channel |-> "unused"]
  /\ refcnt = [c \in Channel |-> 0]
  /\ channel = [e \in Endpoint |-> None]
  /\ eprefcnt = [e \in Endpoint |-> 0]
  /\ eprefs = [f \in Fibre |-> {}]
  /\ owner = [e \in Endpoint |-> None]
  /\ unwind = << >>
  /\ ub = FALSE

-----------------------------------------------------------------------------
(***************************************************************************)
(* The scheduler                                                           *)
(***************************************************************************)

\* The scheduler has resumed a fibre, and no destructor is being executed.
Running == current # None /\ unwind = << >> /\ ~ub

\* csp_process_t::pop, whose result every caller here makes current.
PopActive ==
  \/ /\ active = << >>
     /\ current' = None
     /\ UNCHANGED active
  \/ /\ active # << >>
     /\ current' = Head(active)
     /\ active' = Tail(active)

\* (Mutant of CountCopies: a copy is not counted.)
IgnoreCopies(copied) == UNCHANGED eprefcnt

\* chan_epref_t(chan_epref_t &) for each reference in copied.
CountCopies(copied) ==
  eprefcnt' = [e \in Endpoint |->
                 IF e \in copied THEN eprefcnt[e] + 1 ELSE eprefcnt[e]]

\* The new fibre_t f holds copies of the references in copied, and the
\* references in moved, which its parent gives up.
Construct(f, copied, moved) ==
  LET given == copied \cup moved IN
  /\ f \notin live
  /\ given \subseteq eprefs[current]
  /\ copied \cap moved = {}
  /\ Sharing \/ \A e \in given : owner[e] = current
  /\ live' = live \cup {f}
  /\ eprefs' = [eprefs EXCEPT ![f] = given, ![current] = @ \ moved]
  /\ CountCopies(copied)
  /\ owner' = [e \in Endpoint |-> IF e \in given THEN f ELSE owner[e]]

\* do_spawn_fibre: the parent joins the active set and the child runs.
SpawnFibre(f, copied, moved) ==
  /\ Running
  /\ Construct(f, copied, moved)
  /\ active' = <<current>> \o active
  /\ current' = f
  /\ UNCHANGED <<top, refcnt, chstate, channel, unwind, ub>>

\* do_spawn_fibre_deferred: the child joins the active set.
SpawnFibreDeferred(f, copied, moved) ==
  /\ Running
  /\ Construct(f, copied, moved)
  /\ active' = <<f>> \o active
  /\ UNCHANGED <<current, top, refcnt, chstate, channel, unwind, ub>>

\* The coroutine returns return_control(), which deletes it, and the
\* scheduler, finding the fibre dead, deletes that.
Suicide ==
  /\ Running
  /\ unwind' = <<DeleteFibre(current)>>
  /\ UNCHANGED <<live, current, active, top, refcnt, objectVars, ub>>

-----------------------------------------------------------------------------
(***************************************************************************)
(* Channels and endpoints                                                  *)
(***************************************************************************)

\* The count a channel_t is constructed with.
InitialRefcnt == 1

\* make_sequential_channel: a new channel and, through acquire_channel, the
\* first endpoint of it.
MakeChannel(c, e) ==
  /\ Running
  /\ chstate[c] = "unused"
  /\ channel[e] = None
  /\ chstate' = [chstate EXCEPT ![c] = "live"]
  /\ refcnt' = [refcnt EXCEPT ![c] = InitialRefcnt + 1]
  /\ channel' = [channel EXCEPT ![e] = c]
  /\ eprefcnt' = [eprefcnt EXCEPT ![e] = 1]
  /\ eprefs' = [eprefs EXCEPT ![current] = @ \cup {e}]
  /\ owner' = [owner EXCEPT ![e] = current]
  /\ UNCHANGED <<live, current, active, top, unwind, ub>>

\* channel_endpoint_t::dup: d is another endpoint of the channel of e.
Dup(e, d) ==
  /\ Running
  /\ e \in eprefs[current]
  /\ chstate[channel[e]] = "live"
  /\ channel[d] = None
  /\ refcnt' = [refcnt EXCEPT ![channel[e]] = @ + 1]
  /\ channel' = [channel EXCEPT ![d] = channel[e]]
  /\ eprefcnt' = [eprefcnt EXCEPT ![d] = 1]
  /\ eprefs' = [eprefs EXCEPT ![current] = @ \cup {d}]
  /\ owner' = [owner EXCEPT ![d] = current]
  /\ UNCHANGED <<live, current, active, top, chstate, unwind, ub>>

\* The running fibre may do I/O through e.  Unless Sharing, it is the fibre
\* that owns e.
MayUse(e) ==
  /\ Running
  /\ e \in eprefs[current]
  /\ chstate[channel[e]] = "live"
  /\ Sharing \/ owner[e] = current

\* (Mutant of HasPeer: the last fibre on the channel is never found.)
HasPeerButLast(c, wr) == top[c] # << >> /\ Tail(top[c]) # << >> /\ Head(top[c]).wr = wr

\* st_pop_writer or st_pop_reader returns a fibre: the top of the stack is a
\* request in direction wr.
HasPeer(c, wr) == top[c] # << >> /\ Head(top[c]).wr = wr

\* (Mutant of PopPeer: ++refcnt is missing.)
PopPeerUncounted(c) == top' = [top EXCEPT ![c] = Tail(@)] /\ UNCHANGED refcnt

\* st_pop_writer or st_pop_reader, and ++refcnt since a fibre left.
PopPeer(c) ==
  /\ top' = [top EXCEPT ![c] = Tail(@)]
  /\ refcnt' = [refcnt EXCEPT ![c] = @ + 1]

\* No peer, and the count is one: the request is taken to be one that can
\* never be satisfied, and the fibre that made it is deleted.
Abandon(e) ==
  /\ refcnt[channel[e]] = 1
  /\ PopActive
  /\ unwind' = <<DeleteFibre(current)>>
  /\ UNCHANGED <<live, top, refcnt, objectVars, ub>>

\* No peer: --refcnt, and the fibre is suspended on the channel.
Suspend(e, wr) ==
  /\ refcnt[channel[e]] # 1
  /\ refcnt' = [refcnt EXCEPT ![channel[e]] = @ - 1]
  /\ top' = [top EXCEPT ![channel[e]] = <<[fib |-> current, wr |-> wr]>> \o @]
  /\ PopActive
  /\ UNCHANGED <<live, objectVars, unwind, ub>>

\* sequential_channel_t::read.  When there is a writer it becomes active and
\* the reader keeps running.
Read(e) ==
  /\ MayUse(e)
  /\ \/ /\ HasPeer(channel[e], TRUE)
        /\ PopPeer(channel[e])
        /\ active' = <<Head(top[channel[e]]).fib>> \o active
        /\ UNCHANGED <<live, current, objectVars, unwind, ub>>
     \/ ~HasPeer(channel[e], TRUE) /\ Abandon(e)
     \/ ~HasPeer(channel[e], TRUE) /\ Suspend(e, FALSE)

\* sequential_channel_t::write.  When there is a reader it runs next and the
\* writer becomes active.
Write(e) ==
  /\ MayUse(e)
  /\ \/ /\ HasPeer(channel[e], FALSE)
        /\ PopPeer(channel[e])
        /\ active' = <<current>> \o active
        /\ current' = Head(top[channel[e]]).fib
        /\ UNCHANGED <<live, objectVars, unwind, ub>>
     \/ ~HasPeer(channel[e], FALSE) /\ Abandon(e)
     \/ ~HasPeer(channel[e], FALSE) /\ Suspend(e, TRUE)

-----------------------------------------------------------------------------
(***************************************************************************)
(* Destructors                                                             *)
(***************************************************************************)

Unwinding == unwind # << >> /\ ~ub

\* The innermost destructor is that of fibre f.
Deleting(f) == Unwinding /\ Head(unwind) = DeleteFibre(f)

\* A reference f holds is destroyed, which leaves other references to e.
DropReference(f, e) ==
  /\ e \in eprefs[f]
  /\ eprefcnt[e] # 1
  /\ eprefs' = [eprefs EXCEPT ![f] = @ \ {e}]
  /\ eprefcnt' = [eprefcnt EXCEPT ![e] = @ - 1]
  /\ UNCHANGED <<live, current, active, top, chstate, refcnt, channel, owner,
                 unwind, ub>>

\* (Mutant of DeleteChannel: channel->top is not reset.)
DeleteChannelKeepsTop(c) ==
  /\ refcnt[c] = 1
  /\ refcnt' = [refcnt EXCEPT ![c] = 0]
  /\ unwind' = [i \in 1..Len(top[c]) |-> DeleteFibre(top[c][i].fib)]
               \o <<DeleteChannelObject(c)>> \o unwind
  /\ UNCHANGED top

\* (Mutant of DeleteChannel: the channel is not marked.)
DeleteChannelUnmarked(c) ==
  /\ refcnt[c] = 1
  /\ top' = [top EXCEPT ![c] = << >>]
  /\ unwind' = [i \in 1..Len(top[c]) |-> DeleteFibre(top[c][i].fib)]
               \o <<DeleteChannelObject(c)>> \o unwind
  /\ UNCHANGED refcnt

\* ~channel_endpoint_t when the count is one: delete_channel marks the channel
\* with a count of zero, then deletes each fibre on it and the channel itself.
DeleteChannel(c) ==
  /\ refcnt[c] = 1
  /\ refcnt' = [refcnt EXCEPT ![c] = 0]
  /\ top' = [top EXCEPT ![c] = << >>]
  /\ unwind' = [i \in 1..Len(top[c]) |->
                  DeleteFibre(top[c][i].fib)]
               \o <<DeleteChannelObject(c)>> \o unwind

\* ~channel_endpoint_t when the count is zero: the channel is being deleted.
LeaveDeletedChannel(c) ==
  /\ refcnt[c] = 0
  /\ UNCHANGED <<refcnt, top, unwind>>

\* ~channel_endpoint_t otherwise.
LeaveChannel(c) ==
  /\ refcnt[c] \notin {0, 1}
  /\ refcnt' = [refcnt EXCEPT ![c] = @ - 1]
  /\ UNCHANGED <<top, unwind>>

\* The last reference to endpoint e is destroyed, and the endpoint with it.
DeleteEndpoint(f, e) ==
  /\ e \in eprefs[f]
  /\ eprefcnt[e] = 1
  /\ chstate[channel[e]] = "live"
  /\ eprefs' = [eprefs EXCEPT ![f] = @ \ {e}]
  /\ eprefcnt' = [eprefcnt EXCEPT ![e] = 0]
  /\ channel' = [channel EXCEPT ![e] = None]
  /\ \/ DeleteChannel(channel[e])
     \/ LeaveDeletedChannel(channel[e])
     \/ LeaveChannel(channel[e])
  /\ UNCHANGED <<live, current, active, chstate, owner, ub>>

\* The innermost destructor is done.
Return == unwind' = Tail(unwind)

\* After a suicide, though not otherwise, the scheduler looks for more work.
FetchAfter(f) ==
  \/ current = f /\ PopActive
  \/ current # f /\ UNCHANGED <<current, active>>

\* The fibre holds nothing more and its store is returned.
FreeFibre(f) ==
  /\ Deleting(f)
  /\ eprefs[f] = {}
  /\ live' = live \ {f}
  /\ Return
  /\ FetchAfter(f)
  /\ UNCHANGED <<top, refcnt, objectVars, ub>>

\* Every fibre that was on the channel is gone, and its store is returned.
FreeChannel(c) ==
  /\ Unwinding
  /\ Head(unwind) = DeleteChannelObject(c)
  /\ chstate' = [chstate EXCEPT ![c] = "freed"]
  /\ Return
  /\ UNCHANGED <<live, current, active, top, refcnt, channel, eprefcnt, eprefs,
                 owner, ub>>

\* ~chan_epref_t, on a reference f holds to e.
Release(f, e) == DropReference(f, e) \/ DeleteEndpoint(f, e)

\* The running fibre overwrites a reference, or a subroutine that holds it
\* returns and is deleted.
Discard(e) == Running /\ Release(current, e)

\* The destructor of an endpoint that outlived its channel reads the count of
\* the freed channel_t.  Nothing can be said of what follows.
DeleteStaleEndpoint(f) ==
  /\ Deleting(f)
  /\ \E e \in eprefs[f] : eprefcnt[e] = 1 /\ chstate[channel[e]] = "freed"
  /\ ub' = TRUE
  /\ UNCHANGED <<live, current, active, top, refcnt, objectVars, unwind>>

\* The running fibre uses such an endpoint.
UseStaleEndpoint ==
  /\ Running
  /\ \E e \in eprefs[current] : chstate[channel[e]] = "freed"
  /\ ub' = TRUE
  /\ UNCHANGED <<live, current, active, top, refcnt, objectVars, unwind>>

Unwind ==
  \/ \E f \in Fibre, e \in Endpoint : Deleting(f) /\ Release(f, e)
  \/ \E f \in Fibre : FreeFibre(f) \/ DeleteStaleEndpoint(f)
  \/ \E c \in Channel : FreeChannel(c)

-----------------------------------------------------------------------------
Next ==
  /\ \/ \E f \in Fibre, copied, moved \in SUBSET Endpoint :
          SpawnFibre(f, copied, moved) \/ SpawnFibreDeferred(f, copied, moved)
     \/ Suicide
     \/ \E c \in Channel, e \in Endpoint : MakeChannel(c, e)
     \/ \E e, d \in Endpoint : Dup(e, d)
     \/ \E e \in Endpoint : Read(e) \/ Write(e) \/ Discard(e)
     \/ UseStaleEndpoint
     \/ Unwind
  /\ UNCHANGED program

\* A destructor does not wait for anything.
Spec == Init /\ [][Next]_vars /\ WF_vars(Unwind /\ UNCHANGED program)

-----------------------------------------------------------------------------
(***************************************************************************)
(* Properties                                                              *)
(***************************************************************************)

\* Where a fibre can be: run, ready on the active set, on a channel, or in the
\* hands of a destructor.  One that ended by returning is current as well.
Ready == Elements(active)
OnStack(c) == {t.fib : t \in Elements(top[c])}
Dying == {f \in Fibre : DeleteFibre(f) \in Elements(unwind)}

\* Each fibre_t that exists is in just one of these places, and once; no list
\* holds a pointer to one that does not exist.  The intrusive lists share the
\* link fibre_t::next, so a fibre in two places corrupts both; one in no place
\* can never run or be deleted.
FibreInOnePlace ==
  /\ live = ({current} \ {None}) \cup Ready \cup Dying
               \cup UNION {OnStack(c) : c \in Channel}
  /\ Ready \cap (Dying \cup {current}) = {}
  /\ \A c \in Channel : OnStack(c) \cap (Ready \cup Dying \cup {current}) = {}
  /\ Distinct(active) /\ Distinct(unwind)
  /\ \A c \in Channel : Distinct(top[c])
  /\ \A c, d \in Channel : \A t \in Elements(top[c]), u \in Elements(top[d]) :
       t.fib = u.fib => c = d /\ t = u

\* channel_t::push_reader: "if the channel is non-empty it must contain only
\* readers", and likewise for push_writer.  read and write must never suspend
\* a fibre while one waits to do the opposite.
OnePolarity ==
  \A c \in Channel : \A t, u \in Elements(top[c]) : t.wr = u.wr

EndpointsOf(c) == {e \in Endpoint : channel[e] = c}

\* What channel_t::refcnt counts, through suspensions, resumptions, dup and
\* the destructors: one, and the endpoints, less the fibres suspended.  It is
\* zero from when delete_channel has begun until the channel is freed.
RefcntAccounting ==
  \A c \in Channel : chstate[c] = "live" =>
    \/ refcnt[c] + Len(top[c]) = Cardinality(EndpointsOf(c)) + 1
    \/ refcnt[c] = 0 /\ DeleteChannelObject(c) \in Elements(unwind)

\* channel_endpoint_t::refcnt is the number of fibres whose continuations
\* refer to the endpoint, and the endpoint exists just while there are any:
\* no reference dangles, no endpoint is left behind, and a fibre that was
\* deleted has given up all it referred to.
Holders(e) == {f \in Fibre : e \in eprefs[f]}

EndpointRefs ==
  /\ \A e \in Endpoint :
       /\ eprefcnt[e] = Cardinality(Holders(e))
       /\ (eprefcnt[e] = 0) <=> (channel[e] = None)
  /\ \A f \in Fibre \ live : eprefs[f] = {}

\* A count of one is what read, write and ~channel_endpoint_t take to mean that
\* nobody else can answer, upon which they delete the fibre that asked, or the
\* channel and every fibre suspended on it.  As long as the fibres hold at most one
\* reference more than the channel has endpoints that is true: of the fibres that
\* hold an endpoint of the channel at most one is not suspended on it.
References(c) == {p \in Fibre \X Endpoint : p[2] \in eprefs[p[1]] /\ channel[p[2]] = c}
HoldersOf(c) == {f \in Fibre : \E e \in eprefs[f] : channel[e] = c}

LastWhenOne ==
  \A c \in Channel :
    (/\ chstate[c] = "live"
     /\ refcnt[c] = 1
     /\ Cardinality(References(c)) <= Cardinality(EndpointsOf(c)) + 1)
    => \A f, g \in HoldersOf(c) \ OnStack(c) : f = g

\* However fibres share endpoints, the destructors that the end of a fibre
\* starts, which delete channels and through them more fibres, come to an end:
\* each leaves less to destroy.
Remaining ==
  Cardinality(live) + Cardinality({c \in Channel : chstate[c] = "live"})
  + Cardinality({p \in Fibre \X Endpoint : p[2] \in eprefs[p[1]]})

UnwindTerminates == [][Unwinding /\ ~ub' => Remaining' < Remaining]_vars

\* csp_theory.tex: "When there are no references to an endpoint, the endpoint is
\* deleted and the count of endpoints in the channel decremented.  If the count
\* would become zero, the channel, and all fibres waiting for I/O on that channel
\* deleted", the count being that of the endpoints held by fibres that are not
\* suspended on the channel.  So when no destructor is being executed a channel
\* that exists has such a fibre.
ChannelsReclaimed ==
  unwind = << >> =>
    \A c \in Channel : chstate[c] = "live" => HoldersOf(c) \ OnStack(c) # {}
=============================================================================
