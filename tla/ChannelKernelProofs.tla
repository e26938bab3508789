-------------------------- MODULE ChannelKernelProofs --------------------------
(***************************************************************************)
(* Theorems about ChannelKernel, for any fibres, channels and endpoints.   *)
(*                                                                         *)
(* The invariants hold only together: that a count is a natural number     *)
(* rests on what it counts, that rests on a deleted fibre holding nothing, *)
(* and that on no list holding a fibre that was deleted.  KernelInv is     *)
(* their conjunction, with what is known of a channel while it is deleted. *)
(* Under it a count of one is that of the last who could answer, however   *)
(* endpoints are shared, and where they are not it is never met; and the   *)
(* kernel implements CSPModel, by the mapping of KernelRefinement.         *)
(***************************************************************************)
EXTENDS KernelRefinement, StackLemmas, FiniteSetTheorems

\* A channel that is being deleted: it is marked, and empty.
Marked(c) ==
  refcnt[c] = 0 /\ top[c] = << >> /\ DeleteChannelObject(c) \in Elements(unwind)

\* A channel that is not.
Counted(c) ==
  /\ refcnt[c] # 0
  /\ refcnt[c] + Len(top[c]) = Cardinality(EndpointsOf(c)) + 1
  /\ DeleteChannelObject(c) \notin Elements(unwind)

\* Every channel is one or the other, has not been made, or has been freed.
ChannelInv(c) ==
  /\ chstate[c] = "unused" => top[c] = << >> /\ EndpointsOf(c) = {}
  /\ chstate[c] = "live" => Marked(c) \/ Counted(c)
  /\ chstate[c] # "live" => DeleteChannelObject(c) \notin Elements(unwind)

KernelInv ==
  /\ TypeOK
  /\ FibreInOnePlace
  /\ EndpointRefs
  /\ OnePolarity
  /\ \A c \in Channel : ChannelInv(c)

-----------------------------------------------------------------------------
(***************************************************************************)
(* Facts about one state                                                   *)
(***************************************************************************)

LEMMA FiniteHolders ==
  ASSUME NEW e
  PROVE  IsFiniteSet(Holders(e)) /\ Cardinality(Holders(e)) \in Nat
BY KernelAssumption, FS_Subset, FS_CardinalityType DEF Holders

LEMMA FiniteEndpoints ==
  ASSUME NEW c
  PROVE  IsFiniteSet(EndpointsOf(c)) /\ Cardinality(EndpointsOf(c)) \in Nat
BY KernelAssumption, FS_Subset, FS_CardinalityType DEF EndpointsOf

\* While a fibre runs, no destructor does and it exists.
LEMMA RunningFacts ==
  ASSUME KernelInv, Running
  PROVE  /\ current \in Fibre /\ current \in live /\ unwind = << >>
         /\ Dying = {} /\ Elements(unwind) = {}
         /\ current \notin Ready
         /\ \A c \in Channel : current \notin OnStack(c)
         /\ \A c \in Channel : chstate[c] = "live" => Counted(c)
<1>1. unwind = << >> /\ current # None
  BY DEF Running
<1>2. Elements(unwind) = {}
  BY <1>1 DEF Elements
<1>3. current \in Fibre /\ current \in live
  BY <1>1 DEF KernelInv, TypeOK, FibreInOnePlace
<1>4. Dying = {}
  BY <1>2 DEF Dying
<1>5. current \notin Ready /\ \A c \in Channel : current \notin OnStack(c)
  BY <1>3 DEF KernelInv, FibreInOnePlace
<1>6. \A c \in Channel : chstate[c] = "live" => Counted(c)
  BY <1>2 DEF KernelInv, ChannelInv, Marked
<1> QED
  BY <1>1, <1>2, <1>3, <1>4, <1>5, <1>6

\* An endpoint that is referred to exists, and its channel was made.
LEMMA HeldEndpoint ==
  ASSUME KernelInv, NEW f \in Fibre, NEW e \in eprefs[f]
  PROVE  /\ e \in Endpoint /\ f \in live
         /\ eprefcnt[e] \in Nat \ {0}
         /\ channel[e] \in Channel
         /\ chstate[channel[e]] # "unused"
<1>1. e \in Endpoint /\ f \in live
  BY DEF KernelInv, TypeOK, EndpointRefs
<1>2. f \in Holders(e)
  BY DEF Holders
<1>3. Cardinality(Holders(e)) # 0
  BY <1>2, FiniteHolders, FS_EmptySet
<1>4. eprefcnt[e] \in Nat \ {0}
  BY <1>1, <1>3, FiniteHolders DEF KernelInv, EndpointRefs
<1>5. channel[e] # None
  BY <1>1, <1>4 DEF KernelInv, EndpointRefs
<1>6. channel[e] \in Channel
  BY <1>1, <1>5 DEF KernelInv, TypeOK
<1>7. e \in EndpointsOf(channel[e])
  BY <1>1 DEF EndpointsOf
<1>8. chstate[channel[e]] # "unused"
  BY <1>6, <1>7 DEF KernelInv, ChannelInv
<1> QED
  BY <1>1, <1>4, <1>6, <1>8

\* The next fibre to run comes from the active set.
LEMMA PopActiveFacts ==
  ASSUME TypeOK, Distinct(active), PopActive
  PROVE  /\ current' \in Fibre \cup {None}
         /\ active' \in Seq(Fibre)
         /\ Ready = Elements(active') \cup ({current'} \ {None})
         /\ current' \notin Elements(active')
         /\ Distinct(active')
<1>0. active \in Seq(Fibre) /\ None \notin Fibre
  BY KernelAssumption DEF TypeOK
<1>1. CASE active = << >> /\ current' = None /\ UNCHANGED active
  BY <1>0, <1>1 DEF Ready, Elements
<1>2. CASE active # << >> /\ current' = Head(active) /\ active' = Tail(active)
  BY <1>0, <1>2, PopElements DEF Ready
<1> QED
  BY <1>1, <1>2 DEF PopActive

\* A single destructor activation.
LEMMA OneFrame ==
  ASSUME NEW f \in Fibre
  PROVE  /\ <<DeleteFibre(f)>> \in Seq(Frame)
         /\ Elements(<<DeleteFibre(f)>>) = {DeleteFibre(f)}
         /\ Distinct(<<DeleteFibre(f)>>)
BY DEF Frame, DeleteFibre, Elements, Distinct

\* A fibre is not a channel.
LEMMA FramesDiffer ==
  ASSUME NEW f, NEW c
  PROVE  DeleteFibre(f) # DeleteChannelObject(c)
BY DEF DeleteFibre, DeleteChannelObject

\* What FibreInOnePlace says is settled by where the fibres are.
LEMMA StackElements ==
  ASSUME TypeOK, NEW c \in Channel, NEW s \in Seq(Tagged),
         top' = [top EXCEPT ![c] = s]
  PROVE  /\ top' \in [Channel -> Seq(Tagged)]
         /\ top'[c] = s
         /\ \A d \in Channel \ {c} : top'[d] = top[d]
BY DEF TypeOK

-----------------------------------------------------------------------------
(***************************************************************************)
(* The scheduler                                                           *)
(***************************************************************************)

\* What the continuations refer to is the same.
refsVars == <<eprefcnt, eprefs, channel>>

LEMMA SameRefs ==
  ASSUME EndpointRefs, UNCHANGED refsVars, live \subseteq live'
  PROVE  EndpointRefs'
<1>1. \A e : Holders(e)' = Holders(e)
  BY DEF refsVars, Holders
<1>2. \A f \in Fibre \ live' : eprefs'[f] = {}
  BY DEF EndpointRefs, refsVars
<1> QED
  BY <1>1, <1>2 DEF EndpointRefs, refsVars

\* What the channels count is the same.
countVars == <<chstate, refcnt, top, channel>>

LEMMA SameCounts ==
  ASSUME NEW c \in Channel, ChannelInv(c), UNCHANGED countVars,
         DeleteChannelObject(c) \in Elements(unwind)
           <=> DeleteChannelObject(c) \in Elements(unwind)'
  PROVE  ChannelInv(c)'
<1>1. EndpointsOf(c)' = EndpointsOf(c)
  BY DEF EndpointsOf, countVars
<1> QED
  BY <1>1 DEF ChannelInv, Marked, Counted, countVars

\* A spawn copies references for the child, each of which counts it as one
\* more holder; for those that are moved the child replaces its parent.
LEMMA ConstructRefs ==
  ASSUME KernelInv, current \in live, current \in Fibre,
         NEW f \in Fibre, NEW copied \in SUBSET Endpoint,
         NEW moved \in SUBSET Endpoint,
         Construct(f, copied, moved), UNCHANGED channel
  PROVE  /\ EndpointRefs'
         /\ live' \subseteq Fibre
         /\ eprefs' \in [Fibre -> SUBSET Endpoint]
         /\ eprefcnt' \in [Endpoint -> Nat]
         /\ owner' \in [Endpoint -> Fibre \cup {None}]
<1>1. /\ f \notin live /\ live' = live \cup {f} /\ f # current
      /\ copied \cup moved \subseteq eprefs[current]
      /\ copied \cap moved = {}
      /\ eprefs' = [eprefs EXCEPT ![f] = copied \cup moved,
                                 ![current] = @ \ moved]
      /\ eprefcnt' = [e \in Endpoint |->
                        IF e \in copied THEN eprefcnt[e] + 1 ELSE eprefcnt[e]]
      /\ owner' = [e \in Endpoint |->
                     IF e \in copied \cup moved THEN f ELSE owner[e]]
  BY DEF Construct, CountCopies
<1>2. TypeOK /\ eprefs[f] = {}
  BY <1>1 DEF KernelInv, EndpointRefs
<1>3. /\ live' \subseteq Fibre
      /\ eprefs' \in [Fibre -> SUBSET Endpoint]
      /\ owner' \in [Endpoint -> Fibre \cup {None}]
  BY <1>1, <1>2 DEF TypeOK
<1>4. eprefcnt' \in [Endpoint -> Nat]
  BY <1>1, <1>2 DEF TypeOK
<1>5. /\ eprefs'[f] = copied \cup moved
      /\ eprefs'[current] = eprefs[current] \ moved
      /\ \A g \in Fibre \ {f, current} : eprefs'[g] = eprefs[g]
  BY <1>1, <1>2 DEF TypeOK
<1>6. ASSUME NEW e \in Endpoint
      PROVE  /\ eprefcnt'[e] = Cardinality(Holders(e)')
             /\ (eprefcnt'[e] = 0) <=> (channel'[e] = None)
  <2>1. /\ eprefcnt[e] = Cardinality(Holders(e))
        /\ (eprefcnt[e] = 0) <=> (channel[e] = None)
    BY DEF KernelInv, EndpointRefs
  <2>2. f \notin Holders(e)
    BY <1>2 DEF Holders
  <2>3. CASE e \in copied
    <3>1. Holders(e)' = Holders(e) \cup {f}
      BY <1>1, <1>5, <2>3 DEF Holders
    <3>2. Cardinality(Holders(e)') = Cardinality(Holders(e)) + 1
      BY <2>2, <3>1, FiniteHolders, FS_AddElement
    <3>3. eprefcnt'[e] = eprefcnt[e] + 1
      BY <1>1, <2>3
    <3>4. eprefcnt[e] \in Nat \ {0} /\ channel[e] \in Channel
      BY <1>1, <2>3, HeldEndpoint
    <3> QED
      BY <2>1, <3>2, <3>3, <3>4, KernelAssumption
  <2>4. CASE e \in moved
    <3>1. Holders(e)' = (Holders(e) \ {current}) \cup {f}
      BY <1>1, <1>5, <2>4 DEF Holders
    <3>2. current \in Holders(e) /\ f \notin Holders(e) \ {current}
      BY <1>1, <2>2, <2>4 DEF Holders
    <3>3. /\ IsFiniteSet(Holders(e) \ {current})
          /\ Cardinality(Holders(e) \ {current}) = Cardinality(Holders(e)) - 1
      BY <3>2, FiniteHolders, FS_RemoveElement
    <3>4. Cardinality(Holders(e)') = Cardinality(Holders(e) \ {current}) + 1
      BY <3>1, <3>2, <3>3, FS_AddElement
    <3>5. Cardinality(Holders(e)') = Cardinality(Holders(e))
      BY <3>3, <3>4, FiniteHolders
    <3>6. eprefcnt'[e] = eprefcnt[e]
      BY <1>1, <2>4
    <3> QED
      BY <2>1, <3>5, <3>6
  <2>5. CASE e \notin copied \cup moved
    <3>1. Holders(e)' = Holders(e)
      BY <1>2, <1>5, <2>5 DEF Holders
    <3>2. eprefcnt'[e] = eprefcnt[e]
      BY <1>1, <2>5
    <3> QED
      BY <2>1, <3>1, <3>2
  <2> QED
    BY <2>3, <2>4, <2>5
<1>7. ASSUME NEW g \in Fibre \ live' PROVE eprefs'[g] = {}
  BY <1>1, <1>5 DEF KernelInv, EndpointRefs
<1> QED
  BY <1>3, <1>4, <1>6, <1>7 DEF EndpointRefs

LEMMA SpawnFibreInv ==
  ASSUME KernelInv, NEW f \in Fibre, NEW copied \in SUBSET Endpoint,
         NEW moved \in SUBSET Endpoint, SpawnFibre(f, copied, moved)
  PROVE  KernelInv'
<1>1. /\ TypeOK /\ Running /\ Construct(f, copied, moved)
      /\ active' = <<current>> \o active /\ current' = f
      /\ UNCHANGED <<top, refcnt, chstate, channel, unwind, ub>>
  BY DEF SpawnFibre, KernelInv
<1>2. /\ current \in Fibre /\ current \in live /\ unwind = << >>
      /\ Dying = {} /\ current \notin Ready
      /\ \A c \in Channel : current \notin OnStack(c)
  BY <1>1, RunningFacts
<1>3. /\ EndpointRefs'
      /\ live' \subseteq Fibre
      /\ eprefs' \in [Fibre -> SUBSET Endpoint]
      /\ eprefcnt' \in [Endpoint -> Nat]
      /\ owner' \in [Endpoint -> Fibre \cup {None}]
  BY <1>1, <1>2, ConstructRefs
<1>4. /\ active' \in Seq(Fibre)
      /\ Elements(active') = Ready \cup {current}
      /\ Distinct(active')
  <2>1. active \in Seq(Fibre) /\ Distinct(active)
    BY <1>1 DEF KernelInv, TypeOK, FibreInOnePlace
  <2> QED
    BY <1>1, <1>2, <2>1, PushElements DEF Ready
<1>5. TypeOK'
  BY <1>1, <1>3, <1>4 DEF TypeOK
<1>6. FibreInOnePlace'
  <2>1. /\ Ready' = Ready \cup {current} /\ Dying' = {}
        /\ \A c : OnStack(c)' = OnStack(c)
    BY <1>1, <1>2, <1>4 DEF Ready, Dying, OnStack
  <2>2. f \notin live /\ live' = live \cup {f} /\ f # None
    BY <1>1, KernelAssumption DEF Construct
  <2>3. FibreInOnePlace
    BY DEF KernelInv
  <2>4. live' = ({current'} \ {None}) \cup Ready' \cup Dying'
                  \cup UNION {OnStack(c)' : c \in Channel}
    BY <1>1, <1>2, <2>1, <2>2, <2>3 DEF FibreInOnePlace
  <2>5. /\ Ready' \cap (Dying' \cup {current'}) = {}
        /\ \A c \in Channel :
             OnStack(c)' \cap (Ready' \cup Dying' \cup {current'}) = {}
    BY <1>1, <1>2, <2>1, <2>2, <2>3 DEF FibreInOnePlace
  <2> QED
    BY <1>1, <1>4, <2>3, <2>4, <2>5 DEF FibreInOnePlace
<1>7. OnePolarity'
  BY <1>1 DEF KernelInv, OnePolarity
<1>8. ASSUME NEW c \in Channel PROVE ChannelInv(c)'
  BY <1>1, SameCounts DEF KernelInv, countVars
<1> QED
  BY <1>3, <1>5, <1>6, <1>7, <1>8 DEF KernelInv

LEMMA SpawnFibreDeferredInv ==
  ASSUME KernelInv, NEW f \in Fibre, NEW copied \in SUBSET Endpoint,
         NEW moved \in SUBSET Endpoint, SpawnFibreDeferred(f, copied, moved)
  PROVE  KernelInv'
<1>1. /\ TypeOK /\ Running /\ Construct(f, copied, moved)
      /\ active' = <<f>> \o active
      /\ UNCHANGED <<current, top, refcnt, chstate, channel, unwind, ub>>
  BY DEF SpawnFibreDeferred, KernelInv
<1>2. /\ current \in Fibre /\ current \in live /\ unwind = << >>
      /\ Dying = {} /\ current \notin Ready
      /\ \A c \in Channel : current \notin OnStack(c)
  BY <1>1, RunningFacts
<1>3. /\ EndpointRefs'
      /\ live' \subseteq Fibre
      /\ eprefs' \in [Fibre -> SUBSET Endpoint]
      /\ eprefcnt' \in [Endpoint -> Nat]
      /\ owner' \in [Endpoint -> Fibre \cup {None}]
  BY <1>1, <1>2, ConstructRefs
<1>4. f \notin live /\ live' = live \cup {f} /\ f # None
  BY <1>1, KernelAssumption DEF Construct
<1>5. f \notin Ready
  BY <1>4 DEF KernelInv, FibreInOnePlace
<1>6. /\ active' \in Seq(Fibre)
      /\ Elements(active') = Ready \cup {f}
      /\ Distinct(active')
  <2>1. active \in Seq(Fibre) /\ Distinct(active)
    BY <1>1 DEF KernelInv, TypeOK, FibreInOnePlace
  <2> QED
    BY <1>1, <1>5, <2>1, PushElements DEF Ready
<1>7. TypeOK'
  BY <1>1, <1>3, <1>6 DEF TypeOK
<1>8. FibreInOnePlace'
  <2>1. /\ Ready' = Ready \cup {f} /\ Dying' = {}
        /\ \A c : OnStack(c)' = OnStack(c)
    BY <1>1, <1>2, <1>6 DEF Ready, Dying, OnStack
  <2>2. FibreInOnePlace
    BY DEF KernelInv
  <2>3. live' = ({current'} \ {None}) \cup Ready' \cup Dying'
                  \cup UNION {OnStack(c)' : c \in Channel}
    BY <1>1, <1>2, <1>4, <2>1, <2>2 DEF FibreInOnePlace
  <2>4. /\ Ready' \cap (Dying' \cup {current'}) = {}
        /\ \A c \in Channel :
             OnStack(c)' \cap (Ready' \cup Dying' \cup {current'}) = {}
    BY <1>1, <1>2, <1>4, <2>1, <2>2 DEF FibreInOnePlace
  <2> QED
    BY <1>1, <1>6, <2>2, <2>3, <2>4 DEF FibreInOnePlace
<1>9. OnePolarity'
  BY <1>1 DEF KernelInv, OnePolarity
<1>10. ASSUME NEW c \in Channel PROVE ChannelInv(c)'
  BY <1>1, SameCounts DEF KernelInv, countVars
<1> QED
  BY <1>3, <1>7, <1>8, <1>9, <1>10 DEF KernelInv

LEMMA SuicideInv ==
  ASSUME KernelInv, Suicide
  PROVE  KernelInv'
<1>1. /\ TypeOK /\ Running /\ unwind' = <<DeleteFibre(current)>>
      /\ UNCHANGED <<live, current, active, top, refcnt, objectVars, ub>>
  BY DEF Suicide, KernelInv
<1>2. /\ current \in Fibre /\ current \in live /\ unwind = << >>
      /\ Dying = {} /\ Elements(unwind) = {} /\ current \notin Ready
      /\ \A c \in Channel : current \notin OnStack(c)
  BY <1>1, RunningFacts
<1>3. /\ unwind' \in Seq(Frame) /\ Distinct(unwind')
      /\ Elements(unwind') = {DeleteFibre(current)}
  BY <1>1, <1>2, OneFrame
<1>4. TypeOK'
  BY <1>1, <1>3 DEF TypeOK, objectVars
<1>5. FibreInOnePlace'
  <2>1. /\ Dying' = {current} /\ Ready' = Ready
        /\ \A c : OnStack(c)' = OnStack(c)
    BY <1>1, <1>2, <1>3 DEF Dying, DeleteFibre, Ready, OnStack
  <2>2. FibreInOnePlace
    BY DEF KernelInv
  <2>3. live' = ({current'} \ {None}) \cup Ready' \cup Dying'
                  \cup UNION {OnStack(c)' : c \in Channel}
    BY <1>1, <1>2, <2>1, <2>2, KernelAssumption DEF FibreInOnePlace
  <2>4. /\ Ready' \cap (Dying' \cup {current'}) = {}
        /\ \A c \in Channel :
             OnStack(c)' \cap (Ready' \cup Dying' \cup {current'}) = {}
    BY <1>1, <1>2, <2>1, <2>2 DEF FibreInOnePlace
  <2> QED
    BY <1>1, <1>3, <2>2, <2>3, <2>4 DEF FibreInOnePlace
<1>6. EndpointRefs'
  BY <1>1, SameRefs DEF KernelInv, refsVars, objectVars
<1>7. OnePolarity'
  BY <1>1 DEF KernelInv, OnePolarity
<1>8. ASSUME NEW c \in Channel PROVE ChannelInv(c)'
  BY <1>1, <1>2, <1>3, FramesDiffer, SameCounts
     DEF KernelInv, countVars, objectVars
<1> QED
  BY <1>4, <1>5, <1>6, <1>7, <1>8 DEF KernelInv

-----------------------------------------------------------------------------
(***************************************************************************)
(* Channels and endpoints                                                  *)
(***************************************************************************)

\* A new endpoint of c, which the current fibre refers to.
LEMMA AcquireRefs ==
  ASSUME KernelInv, current \in Fibre, current \in live,
         NEW c \in Channel, NEW e \in Endpoint, channel[e] = None,
         channel' = [channel EXCEPT ![e] = c],
         eprefcnt' = [eprefcnt EXCEPT ![e] = 1],
         eprefs' = [eprefs EXCEPT ![current] = @ \cup {e}],
         UNCHANGED live
  PROVE  /\ EndpointRefs'
         /\ Cardinality(EndpointsOf(c)') = Cardinality(EndpointsOf(c)) + 1
         /\ \A d \in Channel \ {c} : EndpointsOf(d)' = EndpointsOf(d)
<1>1. /\ TypeOK
      /\ channel'[e] = c /\ eprefcnt'[e] = 1
      /\ eprefs'[current] = eprefs[current] \cup {e}
      /\ \A g \in Fibre \ {current} : eprefs'[g] = eprefs[g]
      /\ \A d \in Endpoint \ {e} :
           channel'[d] = channel[d] /\ eprefcnt'[d] = eprefcnt[d]
  BY DEF KernelInv, TypeOK
<1>2. Holders(e) = {}
  <2>1. Cardinality(Holders(e)) = 0
    BY DEF KernelInv, EndpointRefs
  <2> QED
    BY <2>1, FiniteHolders, FS_EmptySet
<1>3. ASSUME NEW d \in Endpoint
      PROVE  /\ eprefcnt'[d] = Cardinality(Holders(d)')
             /\ (eprefcnt'[d] = 0) <=> (channel'[d] = None)
  <2>1. CASE d = e
    <3>1. Holders(e)' = {current}
      BY <1>1, <1>2 DEF Holders
    <3>2. Cardinality(Holders(e)') = 1
      BY <3>1, FS_Singleton
    <3> QED
      BY <1>1, <2>1, <3>2, KernelAssumption
  <2>2. CASE d # e
    <3>1. Holders(d)' = Holders(d)
      BY <1>1, <2>2 DEF Holders
    <3> QED
      BY <1>1, <2>2, <3>1 DEF KernelInv, EndpointRefs
  <2> QED
    BY <2>1, <2>2
<1>4. EndpointRefs'
  <2>1. \A g \in Fibre \ live' : eprefs'[g] = {}
    BY <1>1 DEF KernelInv, EndpointRefs
  <2> QED
    BY <1>3, <2>1 DEF EndpointRefs
<1>5. Cardinality(EndpointsOf(c)') = Cardinality(EndpointsOf(c)) + 1
  <2>1. EndpointsOf(c)' = EndpointsOf(c) \cup {e}
    BY <1>1 DEF EndpointsOf
  <2>2. e \notin EndpointsOf(c)
    BY KernelAssumption DEF EndpointsOf
  <2> QED
    BY <2>1, <2>2, FiniteEndpoints, FS_AddElement
<1>6. ASSUME NEW d \in Channel \ {c} PROVE EndpointsOf(d)' = EndpointsOf(d)
  BY <1>1, KernelAssumption DEF EndpointsOf
<1> QED
  BY <1>4, <1>5, <1>6

LEMMA MakeChannelInv ==
  ASSUME KernelInv, NEW c \in Channel, NEW e \in Endpoint, MakeChannel(c, e)
  PROVE  KernelInv'
<1>1. /\ TypeOK /\ Running /\ chstate[c] = "unused" /\ channel[e] = None
      /\ chstate' = [chstate EXCEPT ![c] = "live"]
      /\ refcnt' = [refcnt EXCEPT ![c] = 2]
      /\ channel' = [channel EXCEPT ![e] = c]
      /\ eprefcnt' = [eprefcnt EXCEPT ![e] = 1]
      /\ eprefs' = [eprefs EXCEPT ![current] = @ \cup {e}]
      /\ owner' = [owner EXCEPT ![e] = current]
      /\ UNCHANGED <<live, current, active, top, unwind, ub>>
  BY DEF MakeChannel, InitialRefcnt, KernelInv
<1>2. current \in Fibre /\ current \in live /\ Elements(unwind) = {}
  BY <1>1, RunningFacts
<1>3. /\ EndpointRefs'
      /\ Cardinality(EndpointsOf(c)') = Cardinality(EndpointsOf(c)) + 1
      /\ \A d \in Channel \ {c} : EndpointsOf(d)' = EndpointsOf(d)
  BY <1>1, <1>2, AcquireRefs
<1>4. TypeOK'
  BY <1>1, <1>2 DEF TypeOK
<1>5. FibreInOnePlace'
  <2>1. /\ Ready' = Ready /\ Dying' = Dying
        /\ \A d \in Channel : OnStack(d)' = OnStack(d)
    BY <1>1 DEF Ready, OnStack, Dying
  <2> QED
    BY <1>1, <2>1 DEF KernelInv, FibreInOnePlace
<1>6. OnePolarity'
  BY <1>1 DEF KernelInv, OnePolarity
<1>7. ASSUME NEW d \in Channel PROVE ChannelInv(d)'
  <2>1. ChannelInv(d)
    BY DEF KernelInv
  <2>2. CASE d = c
    <3>0. top[c] = << >> /\ EndpointsOf(c) = {}
      BY <1>1, <2>1, <2>2 DEF ChannelInv
    <3>1. Cardinality(EndpointsOf(c)) = 0 /\ Len(top[c]) = 0
      BY <3>0, FS_EmptySet
    <3>2. chstate'[c] = "live" /\ refcnt'[c] = 2 /\ top' = top
      BY <1>1 DEF TypeOK
    <3>3. DeleteChannelObject(c) \notin Elements(unwind')
      BY <1>1, <1>2
    <3>4. Counted(c)'
      BY <1>3, <3>1, <3>2, <3>3 DEF Counted
    <3> QED
      BY <2>2, <3>2, <3>4 DEF ChannelInv
  <2>3. CASE d # c
    <3>1. chstate'[d] = chstate[d] /\ refcnt'[d] = refcnt[d]
      BY <1>1, <2>3 DEF TypeOK
    <3> QED
      BY <1>1, <1>3, <2>1, <2>3, <3>1 DEF ChannelInv, Marked, Counted
  <2> QED
    BY <2>2, <2>3
<1> QED
  BY <1>3, <1>4, <1>5, <1>6, <1>7 DEF KernelInv

LEMMA DupInv ==
  ASSUME KernelInv, NEW e \in Endpoint, NEW d \in Endpoint, Dup(e, d)
  PROVE  KernelInv'
<1>1. Running /\ e \in eprefs[current]
  BY DEF Dup
<1>2. /\ current \in Fibre /\ current \in live /\ Elements(unwind) = {}
      /\ \A b \in Channel : chstate[b] = "live" => Counted(b)
  BY <1>1, RunningFacts
<1>3. PICK c \in Channel : c = channel[e]
  BY <1>1, <1>2, HeldEndpoint
<1>4. /\ TypeOK /\ chstate[c] = "live" /\ channel[d] = None
      /\ refcnt' = [refcnt EXCEPT ![c] = @ + 1]
      /\ channel' = [channel EXCEPT ![d] = c]
      /\ eprefcnt' = [eprefcnt EXCEPT ![d] = 1]
      /\ eprefs' = [eprefs EXCEPT ![current] = @ \cup {d}]
      /\ owner' = [owner EXCEPT ![d] = current]
      /\ UNCHANGED <<live, current, active, top, chstate, unwind, ub>>
  BY <1>3 DEF Dup, KernelInv
<1>5. /\ EndpointRefs'
      /\ Cardinality(EndpointsOf(c)') = Cardinality(EndpointsOf(c)) + 1
      /\ \A b \in Channel \ {c} : EndpointsOf(b)' = EndpointsOf(b)
  BY <1>4, <1>2, <1>3, AcquireRefs
<1>6. TypeOK'
  BY <1>4, <1>2, <1>3 DEF TypeOK
<1>7. FibreInOnePlace'
  BY <1>4 DEF KernelInv, FibreInOnePlace, Ready, OnStack, Dying
<1>8. OnePolarity'
  BY <1>4 DEF KernelInv, OnePolarity
<1>9. ASSUME NEW b \in Channel PROVE ChannelInv(b)'
  <2>1. ChannelInv(b)
    BY DEF KernelInv
  <2>2. CASE b = c
    <3>1. Counted(c) /\ Len(top[c]) \in Nat /\ refcnt[c] \in Nat
      BY <1>4, <1>2, <1>3 DEF TypeOK
    <3>2. refcnt'[c] = refcnt[c] + 1
      BY <1>4, <1>3 DEF TypeOK
    <3>3. Counted(c)'
      BY <1>4, <1>5, <3>1, <3>2, FiniteEndpoints DEF Counted
    <3> QED
      BY <1>4, <2>2, <3>3 DEF ChannelInv
  <2>3. CASE b # c
    <3>1. refcnt'[b] = refcnt[b]
      BY <1>4, <2>3 DEF TypeOK
    <3> QED
      BY <1>4, <1>5, <2>1, <2>3, <3>1 DEF ChannelInv, Marked, Counted
  <2> QED
    BY <2>2, <2>3
<1> QED
  BY <1>5, <1>6, <1>7, <1>8, <1>9 DEF KernelInv

-----------------------------------------------------------------------------
(***************************************************************************)
(* read and write                                                          *)
(***************************************************************************)

\* The fibre taken off a channel was on it only, and its departure is counted.
LEMMA PopPeerFacts ==
  ASSUME KernelInv, Running, NEW c \in Channel, chstate[c] = "live",
         top[c] # << >>, PopPeer(c), UNCHANGED <<chstate, channel, unwind>>
  PROVE  /\ top' \in [Channel -> Seq(Tagged)]
         /\ refcnt' \in [Channel -> Nat]
         /\ Head(top[c]) \in Tagged
         /\ Head(top[c]).fib \notin Ready \cup {current}
         /\ \A f : (f = Head(top[c]).fib \/ \E d \in Channel : f \in OnStack(d)')
                   <=> \E d \in Channel : f \in OnStack(d)
         /\ \A d \in Channel : OnStack(d)' \subseteq OnStack(d) \ {Head(top[c]).fib}
         /\ \A d \in Channel : Distinct(top'[d])
         /\ \A b, d \in Channel :
              \A t \in Elements(top'[b]), u \in Elements(top'[d]) :
                t.fib = u.fib => b = d /\ t = u
         /\ OnePolarity'
         /\ \A d \in Channel : ChannelInv(d)'
<1>1. TypeOK /\ FibreInOnePlace /\ OnePolarity
  BY DEF KernelInv
<1>2. top[c] \in Seq(Tagged) /\ Distinct(top[c])
  BY <1>1 DEF TypeOK, FibreInOnePlace
<1>3. PICK h : h = Head(top[c])
  OBVIOUS
<1>4. PICK s : s = Tail(top[c])
  OBVIOUS
<1>5. /\ h \in Tagged /\ s \in Seq(Tagged)
      /\ Len(top[c]) = Len(s) + 1
      /\ Elements(top[c]) = Elements(s) \cup {h}
      /\ Distinct(s) /\ h \notin Elements(s)
  BY <1>2, <1>3, <1>4, PopElements
<1>6. /\ top' = [top EXCEPT ![c] = s]
      /\ refcnt' = [refcnt EXCEPT ![c] = @ + 1]
  BY <1>4 DEF PopPeer
<1>7. /\ top' \in [Channel -> Seq(Tagged)] /\ top'[c] = s
      /\ \A d \in Channel \ {c} : top'[d] = top[d]
  BY <1>1, <1>5, <1>6, StackElements
<1>8. /\ refcnt' \in [Channel -> Nat] /\ refcnt'[c] = refcnt[c] + 1
      /\ \A d \in Channel \ {c} : refcnt'[d] = refcnt[d]
  BY <1>1, <1>6 DEF TypeOK
<1>9. /\ OnStack(c) = OnStack(c)' \cup {h.fib}
      /\ \A d \in Channel \ {c} : OnStack(d)' = OnStack(d)
  BY <1>5, <1>7 DEF OnStack
<1>10. \A d \in Channel : Elements(top'[d]) \subseteq Elements(top[d])
  BY <1>5, <1>7
<1>11. h.fib \notin Ready \cup {current}
  BY <1>1, <1>9 DEF FibreInOnePlace
<1>12. ASSUME NEW d \in Channel PROVE h.fib \notin OnStack(d)'
  <2> SUFFICES ASSUME NEW t \in Elements(top'[d]), t.fib = h.fib PROVE FALSE
    BY DEF OnStack
  <2>1. t \in Elements(top[d]) /\ h \in Elements(top[c])
    BY <1>5, <1>10
  <2>2. d = c /\ t = h
    BY <1>1, <2>1 DEF FibreInOnePlace
  <2> QED
    BY <1>5, <1>7, <2>2
<1>13. \A d \in Channel : Distinct(top'[d])
  BY <1>1, <1>5, <1>7 DEF FibreInOnePlace
<1>14. \A b, d \in Channel :
         \A t \in Elements(top'[b]), u \in Elements(top'[d]) :
           t.fib = u.fib => b = d /\ t = u
  BY <1>1, <1>10 DEF FibreInOnePlace
<1>15. OnePolarity'
  BY <1>1, <1>10 DEF OnePolarity
<1>16. ASSUME NEW d \in Channel PROVE ChannelInv(d)'
  <2>1. ChannelInv(d) /\ EndpointsOf(d)' = EndpointsOf(d)
    BY DEF KernelInv, EndpointsOf
  <2>2. CASE d = c
    <3>1. Counted(c)
      BY RunningFacts
    <3>2. Len(s) \in Nat /\ refcnt[c] \in Nat
      BY <1>1, <1>5 DEF TypeOK
    <3>3. refcnt[c] # 0 /\ refcnt[c] + Len(top[c]) = Cardinality(EndpointsOf(c)) + 1
      BY <3>1 DEF Counted
    <3>4. /\ refcnt'[c] # 0
          /\ refcnt'[c] + Len(top'[c]) = Cardinality(EndpointsOf(c)) + 1
      <4>1. Len(top'[c]) = Len(s) /\ Len(top[c]) = Len(s) + 1
        BY <1>5, <1>7
      <4>2. refcnt'[c] = refcnt[c] + 1
        BY <1>8
      <4>3. refcnt'[c] # 0
        BY <3>2, <4>2
      <4>4. refcnt'[c] + Len(top'[c]) = refcnt[c] + Len(top[c])
        BY <3>2, <4>1, <4>2
      <4> QED
        BY <3>3, <4>3, <4>4
    <3>5. Counted(c)'
      BY <2>1, <2>2, <3>1, <3>4 DEF Counted
    <3> QED
      BY <2>2, <3>5 DEF ChannelInv
  <2>3. CASE d # c
    BY <1>7, <1>8, <2>1, <2>3 DEF ChannelInv, Marked, Counted
  <2> QED
    BY <2>2, <2>3
<1>17. ASSUME NEW d \in Channel PROVE OnStack(d)' \subseteq OnStack(d)
  <2>1. CASE d = c
    BY <1>9, <2>1
  <2>2. CASE d # c
    BY <1>9, <2>2
  <2> QED
    BY <2>1, <2>2
<1>18. \A f : (f = h.fib \/ \E d \in Channel : f \in OnStack(d)')
             <=> \E d \in Channel : f \in OnStack(d)
  <2>1. ASSUME NEW f, f # h.fib, NEW d \in Channel, f \in OnStack(d)
        PROVE  f \in OnStack(d)'
    <3>1. CASE d = c
      BY <1>9, <2>1, <3>1
    <3>2. CASE d # c
      BY <1>9, <2>1, <3>2
    <3> QED
      BY <3>1, <3>2
  <2>2. h.fib \in OnStack(c)
    BY <1>9
  <2> QED
    BY <1>17, <2>1, <2>2
<1> QED
  BY <1>3, <1>5, <1>7, <1>8, <1>11, <1>12, <1>13, <1>14, <1>15, <1>16, <1>17,
     <1>18

\* A fibre waits on the channel, and another runs.
LEMMA SuspendInv ==
  ASSUME KernelInv, NEW e \in Endpoint, NEW wr \in BOOLEAN, MayUse(e),
         ~HasPeer(channel[e], ~wr), Suspend(e, wr)
  PROVE  KernelInv'
<1>1. Running /\ e \in eprefs[current] /\ TypeOK /\ FibreInOnePlace
  BY DEF MayUse, KernelInv
<1>2. /\ current \in Fibre /\ current \in live /\ unwind = << >>
      /\ Dying = {} /\ current \notin Ready
      /\ \A d \in Channel : current \notin OnStack(d)
      /\ \A d \in Channel : chstate[d] = "live" => Counted(d)
  BY <1>1, RunningFacts
<1>3. PICK c \in Channel : c = channel[e]
  BY <1>1, <1>2, HeldEndpoint
<1>4. PICK t : t = [fib |-> current, wr |-> wr]
  OBVIOUS
<1>5. /\ chstate[c] = "live" /\ ~HasPeer(c, ~wr) /\ refcnt[c] # 1
      /\ refcnt' = [refcnt EXCEPT ![c] = @ - 1]
      /\ top' = [top EXCEPT ![c] = <<t>> \o @]
      /\ PopActive
      /\ UNCHANGED <<live, objectVars, unwind, ub>>
  BY <1>3, <1>4 DEF MayUse, Suspend
<1>6. t \in Tagged /\ t.fib = current /\ t.wr = wr
  BY <1>2, <1>4 DEF Tagged
<1>7. top[c] \in Seq(Tagged) /\ Distinct(top[c]) /\ t \notin Elements(top[c])
  BY <1>1, <1>2, <1>6 DEF TypeOK, FibreInOnePlace, OnStack
<1>8. PICK s : s = <<t>> \o top[c]
  OBVIOUS
<1>9. /\ s \in Seq(Tagged) /\ Len(s) = Len(top[c]) + 1
      /\ Elements(s) = Elements(top[c]) \cup {t} /\ Distinct(s)
  BY <1>6, <1>7, <1>8, PushElements
<1>10. /\ top' \in [Channel -> Seq(Tagged)] /\ top'[c] = s
       /\ \A d \in Channel \ {c} : top'[d] = top[d]
  BY <1>1, <1>5, <1>8, <1>9, StackElements
<1>11. refcnt[c] \in Nat \ {0, 1}
  BY <1>1, <1>2, <1>5 DEF TypeOK, Counted
<1>12. /\ refcnt' \in [Channel -> Nat] /\ refcnt'[c] = refcnt[c] - 1
       /\ \A d \in Channel \ {c} : refcnt'[d] = refcnt[d]
  BY <1>1, <1>5, <1>11 DEF TypeOK
<1>13. /\ current' \in Fibre \cup {None}
       /\ active' \in Seq(Fibre)
       /\ Ready = Elements(active') \cup ({current'} \ {None})
       /\ current' \notin Elements(active')
       /\ Distinct(active')
  BY <1>1, <1>5, PopActiveFacts DEF FibreInOnePlace
<1>14. TypeOK'
  BY <1>1, <1>5, <1>10, <1>12, <1>13 DEF TypeOK, objectVars
<1>15. FibreInOnePlace'
  <2>1. /\ Ready' = Elements(active') /\ Dying' = {}
        /\ OnStack(c)' = OnStack(c) \cup {current}
        /\ \A d \in Channel \ {c} : OnStack(d)' = OnStack(d)
    <3>1. Ready' = Elements(active') /\ Dying' = {}
      BY <1>2, <1>5 DEF Ready, Dying
    <3>2. OnStack(c)' = OnStack(c) \cup {current}
      BY <1>6, <1>9, <1>10 DEF OnStack
    <3>3. \A d \in Channel \ {c} : OnStack(d)' = OnStack(d)
      BY <1>10 DEF OnStack
    <3> QED
      BY <3>1, <3>2, <3>3
  <2>2. live' = ({current'} \ {None}) \cup Ready' \cup Dying'
                  \cup UNION {OnStack(d)' : d \in Channel}
    <3>1. \A f : (\E d \in Channel : f \in OnStack(d)')
                <=> f = current \/ \E d \in Channel : f \in OnStack(d)
      BY <2>1
    <3> QED
      BY <1>1, <1>2, <1>5, <1>13, <2>1, <3>1 DEF FibreInOnePlace
  <2>3. Ready' \cap (Dying' \cup {current'}) = {}
    BY <1>13, <2>1
  <2>4. ASSUME NEW d \in Channel
        PROVE  OnStack(d)' \cap (Ready' \cup Dying' \cup {current'}) = {}
    <3>1. OnStack(d) \cap Ready = {}
      BY <1>1 DEF FibreInOnePlace
    <3>2. OnStack(d)' \subseteq OnStack(d) \cup {current}
      BY <2>1
    <3>3. None \notin OnStack(d)'
      <4>1. top'[d] \in Seq(Tagged)
        BY <1>10
      <4>2. \A x \in Elements(top'[d]) : x \in Tagged
        BY <4>1 DEF Elements
      <4> QED
        BY <4>2, KernelAssumption DEF OnStack, Tagged
    <3> QED
      BY <1>2, <1>13, <2>1, <3>1, <3>2, <3>3
  <2>5. \A d \in Channel : Distinct(top'[d])
    BY <1>1, <1>9, <1>10 DEF FibreInOnePlace
  <2>6. \A b, d \in Channel :
          \A x \in Elements(top'[b]), y \in Elements(top'[d]) :
            x.fib = y.fib => b = d /\ x = y
    <3>1. ASSUME NEW d \in Channel, NEW x \in Elements(top'[d])
          PROVE  \/ x \in Elements(top[d]) /\ x.fib # current
                 \/ x = t /\ d = c
      BY <1>2, <1>9, <1>10 DEF OnStack
    <3> QED
      BY <1>1, <1>6, <3>1 DEF FibreInOnePlace
  <2> QED
    BY <1>1, <1>5, <1>13, <2>2, <2>3, <2>4, <2>5, <2>6 DEF FibreInOnePlace
<1>16. EndpointRefs'
  BY <1>5, SameRefs DEF KernelInv, refsVars, objectVars
<1>17. OnePolarity'
  <2>1. ASSUME NEW x \in Elements(top[c]) PROVE x.wr = wr
    <3>1. top[c] # << >>
      BY <2>1 DEF Elements
    <3>2. Head(top[c]) \in Elements(top[c]) /\ Head(top[c]) \in Tagged
      BY <1>7, <3>1, PopElements
    <3>3. Head(top[c]).wr = wr
      BY <1>5, <3>1, <3>2 DEF HasPeer, Tagged
    <3> QED
      BY <3>2, <3>3 DEF KernelInv, OnePolarity
  <2>2. \A x \in Elements(top'[c]) : x.wr = wr
    BY <1>6, <1>9, <1>10, <2>1
  <2> QED
    BY <1>10, <2>2 DEF KernelInv, OnePolarity
<1>18. ASSUME NEW d \in Channel PROVE ChannelInv(d)'
  <2>1. ChannelInv(d) /\ EndpointsOf(d)' = EndpointsOf(d)
    BY <1>5 DEF KernelInv, EndpointsOf, objectVars
  <2>2. CASE d = c
    <3>1. Counted(c) /\ Len(top[c]) \in Nat
      BY <1>2, <1>5, <1>7
    <3>2. Counted(c)'
      BY <1>5, <1>9, <1>10, <1>11, <1>12, <2>1, <2>2, <3>1 DEF Counted
    <3> QED
      BY <1>5, <2>2, <3>2 DEF ChannelInv, objectVars
  <2>3. CASE d # c
    BY <1>5, <1>10, <1>12, <2>1, <2>3 DEF ChannelInv, Marked, Counted, objectVars
  <2> QED
    BY <2>2, <2>3
<1> QED
  BY <1>14, <1>15, <1>16, <1>17, <1>18 DEF KernelInv

LEMMA AbandonInv ==
  ASSUME KernelInv, NEW e \in Endpoint, MayUse(e), Abandon(e)
  PROVE  KernelInv'
<1>1. /\ Running /\ TypeOK /\ FibreInOnePlace /\ PopActive
      /\ unwind' = <<DeleteFibre(current)>>
      /\ UNCHANGED <<live, top, refcnt, objectVars, ub>>
  BY DEF MayUse, Abandon, KernelInv
<1>2. /\ current \in Fibre /\ current \in live /\ unwind = << >>
      /\ Dying = {} /\ Elements(unwind) = {} /\ current \notin Ready
      /\ \A d \in Channel : current \notin OnStack(d)
  BY <1>1, RunningFacts
<1>3. /\ unwind' \in Seq(Frame) /\ Distinct(unwind')
      /\ Elements(unwind') = {DeleteFibre(current)}
  BY <1>1, <1>2, OneFrame
<1>4. /\ current' \in Fibre \cup {None}
      /\ active' \in Seq(Fibre)
      /\ Ready = Elements(active') \cup ({current'} \ {None})
      /\ current' \notin Elements(active')
      /\ Distinct(active')
  BY <1>1, PopActiveFacts DEF FibreInOnePlace
<1>5. TypeOK'
  BY <1>1, <1>3, <1>4 DEF TypeOK, objectVars
<1>6. FibreInOnePlace'
  <2>1. /\ Ready' = Elements(active') /\ Dying' = {current}
        /\ \A d : OnStack(d)' = OnStack(d)
    BY <1>1, <1>2, <1>3 DEF Ready, Dying, DeleteFibre, OnStack
  <2>2. live' = ({current'} \ {None}) \cup Ready' \cup Dying'
                  \cup UNION {OnStack(d)' : d \in Channel}
    BY <1>1, <1>2, <1>4, <2>1, KernelAssumption DEF FibreInOnePlace
  <2>3. Ready' \cap (Dying' \cup {current'}) = {}
    BY <1>2, <1>4, <2>1
  <2>4. ASSUME NEW d \in Channel
        PROVE  OnStack(d)' \cap (Ready' \cup Dying' \cup {current'}) = {}
    <3>1. OnStack(d) \cap Ready = {}
      BY <1>1 DEF FibreInOnePlace
    <3>2. None \notin OnStack(d)
      <4>1. \A x \in Elements(top[d]) : x \in Tagged
        BY <1>1 DEF Elements, TypeOK
      <4> QED
        BY <4>1, KernelAssumption DEF OnStack, Tagged
    <3> QED
      BY <1>2, <1>4, <2>1, <3>1, <3>2
  <2> QED
    BY <1>1, <1>3, <1>4, <2>2, <2>3, <2>4 DEF FibreInOnePlace
<1>7. EndpointRefs'
  BY <1>1, SameRefs DEF KernelInv, refsVars, objectVars
<1>8. OnePolarity'
  BY <1>1 DEF KernelInv, OnePolarity
<1>9. ASSUME NEW d \in Channel PROVE ChannelInv(d)'
  BY <1>1, <1>2, <1>3, FramesDiffer, SameCounts
     DEF KernelInv, countVars, objectVars
<1> QED
  BY <1>5, <1>6, <1>7, <1>8, <1>9 DEF KernelInv

\* The reader finds a writer.
LEMMA ReadMatchInv ==
  ASSUME KernelInv, NEW e \in Endpoint, MayUse(e), HasPeer(channel[e], TRUE),
         PopPeer(channel[e]),
         active' = <<Head(top[channel[e]]).fib>> \o active,
         UNCHANGED <<live, current, objectVars, unwind, ub>>
  PROVE  KernelInv'
<1>1. Running /\ e \in eprefs[current] /\ TypeOK /\ FibreInOnePlace
  BY DEF MayUse, KernelInv
<1>2. /\ current \in Fibre /\ current \in live /\ unwind = << >>
      /\ Dying = {} /\ current \notin Ready
      /\ \A d \in Channel : current \notin OnStack(d)
  BY <1>1, RunningFacts
<1>3. PICK c \in Channel : c = channel[e]
  BY <1>1, <1>2, HeldEndpoint
<1>4. PICK g : g = Head(top[c]).fib
  OBVIOUS
<1>5. /\ chstate[c] = "live" /\ top[c] # << >> /\ PopPeer(c)
      /\ UNCHANGED <<chstate, channel, unwind>>
  BY <1>3 DEF MayUse, HasPeer, objectVars
<1>6. /\ top' \in [Channel -> Seq(Tagged)]
      /\ refcnt' \in [Channel -> Nat]
      /\ g \in Fibre /\ g \notin Ready \cup {current}
      /\ \A f : (f = g \/ \E d \in Channel : f \in OnStack(d)')
                <=> \E d \in Channel : f \in OnStack(d)
      /\ \A d \in Channel : OnStack(d)' \subseteq OnStack(d) \ {g}
      /\ \A d \in Channel : Distinct(top'[d])
      /\ \A b, d \in Channel :
           \A t \in Elements(top'[b]), u \in Elements(top'[d]) :
             t.fib = u.fib => b = d /\ t = u
      /\ OnePolarity'
      /\ \A d \in Channel : ChannelInv(d)'
  BY <1>1, <1>4, <1>5, PopPeerFacts DEF Tagged
<1>7. active' \in Seq(Fibre) /\ Elements(active') = Ready \cup {g}
      /\ Distinct(active')
  <2>1. active \in Seq(Fibre) /\ Distinct(active) /\ active' = <<g>> \o active
    BY <1>1, <1>3, <1>4 DEF TypeOK, FibreInOnePlace
  <2> QED
    BY <1>6, <2>1, PushElements DEF Ready
<1>8. TypeOK'
  BY <1>1, <1>6, <1>7 DEF TypeOK, objectVars
<1>9. FibreInOnePlace'
  <2>1. Ready' = Ready \cup {g} /\ Dying' = {}
    BY <1>2, <1>7 DEF Ready, Dying
  <2>2. live' = ({current'} \ {None}) \cup Ready' \cup Dying'
                  \cup UNION {OnStack(d)' : d \in Channel}
    BY <1>1, <1>2, <1>6, <2>1 DEF FibreInOnePlace
  <2>3. Ready' \cap (Dying' \cup {current'}) = {}
    BY <1>2, <1>6, <2>1
  <2>4. ASSUME NEW d \in Channel
        PROVE  OnStack(d)' \cap (Ready' \cup Dying' \cup {current'}) = {}
    <3>1. OnStack(d) \cap Ready = {}
      BY <1>1 DEF FibreInOnePlace
    <3> QED
      BY <1>2, <1>6, <2>1, <3>1
  <2> QED
    BY <1>1, <1>6, <1>7, <2>2, <2>3, <2>4 DEF FibreInOnePlace
<1>10. EndpointRefs'
  BY SameRefs DEF KernelInv, refsVars, objectVars
<1> QED
  BY <1>6, <1>8, <1>9, <1>10 DEF KernelInv

\* The writer finds a reader.
LEMMA WriteMatchInv ==
  ASSUME KernelInv, NEW e \in Endpoint, MayUse(e), HasPeer(channel[e], FALSE),
         PopPeer(channel[e]),
         active' = <<current>> \o active,
         current' = Head(top[channel[e]]).fib,
         UNCHANGED <<live, objectVars, unwind, ub>>
  PROVE  KernelInv'
<1>1. Running /\ e \in eprefs[current] /\ TypeOK /\ FibreInOnePlace
  BY DEF MayUse, KernelInv
<1>2. /\ current \in Fibre /\ current \in live /\ unwind = << >>
      /\ Dying = {} /\ current \notin Ready
      /\ \A d \in Channel : current \notin OnStack(d)
  BY <1>1, RunningFacts
<1>3. PICK c \in Channel : c = channel[e]
  BY <1>1, <1>2, HeldEndpoint
<1>4. PICK g : g = Head(top[c]).fib
  OBVIOUS
<1>5. /\ chstate[c] = "live" /\ top[c] # << >> /\ PopPeer(c) /\ current' = g
      /\ UNCHANGED <<chstate, channel, unwind>>
  BY <1>3, <1>4 DEF MayUse, HasPeer, objectVars
<1>6. /\ top' \in [Channel -> Seq(Tagged)]
      /\ refcnt' \in [Channel -> Nat]
      /\ g \in Fibre /\ g \notin Ready \cup {current}
      /\ \A f : (f = g \/ \E d \in Channel : f \in OnStack(d)')
                <=> \E d \in Channel : f \in OnStack(d)
      /\ \A d \in Channel : OnStack(d)' \subseteq OnStack(d) \ {g}
      /\ \A d \in Channel : Distinct(top'[d])
      /\ \A b, d \in Channel :
           \A t \in Elements(top'[b]), u \in Elements(top'[d]) :
             t.fib = u.fib => b = d /\ t = u
      /\ OnePolarity'
      /\ \A d \in Channel : ChannelInv(d)'
  BY <1>1, <1>4, <1>5, PopPeerFacts DEF Tagged
<1>7. /\ active' \in Seq(Fibre)
      /\ Elements(active') = Ready \cup {current}
      /\ Distinct(active')
  <2>1. active \in Seq(Fibre) /\ Distinct(active)
    BY <1>1 DEF TypeOK, FibreInOnePlace
  <2> QED
    BY <1>2, <2>1, PushElements DEF Ready
<1>8. TypeOK'
  BY <1>1, <1>5, <1>6, <1>7 DEF TypeOK, objectVars
<1>9. FibreInOnePlace'
  <2>1. Ready' = Ready \cup {current} /\ Dying' = {}
    BY <1>2, <1>7 DEF Ready, Dying
  <2>2. live' = ({current'} \ {None}) \cup Ready' \cup Dying'
                  \cup UNION {OnStack(d)' : d \in Channel}
    BY <1>1, <1>2, <1>5, <1>6, <2>1, KernelAssumption DEF FibreInOnePlace
  <2>3. Ready' \cap (Dying' \cup {current'}) = {}
    BY <1>5, <1>6, <2>1
  <2>4. ASSUME NEW d \in Channel
        PROVE  OnStack(d)' \cap (Ready' \cup Dying' \cup {current'}) = {}
    <3>1. OnStack(d) \cap Ready = {}
      BY <1>1 DEF FibreInOnePlace
    <3> QED
      BY <1>2, <1>5, <1>6, <2>1, <3>1
  <2> QED
    BY <1>1, <1>6, <1>7, <2>2, <2>3, <2>4 DEF FibreInOnePlace
<1>10. EndpointRefs'
  BY SameRefs DEF KernelInv, refsVars, objectVars
<1> QED
  BY <1>6, <1>8, <1>9, <1>10 DEF KernelInv

LEMMA ReadInv ==
  ASSUME KernelInv, NEW e \in Endpoint, Read(e)
  PROVE  KernelInv'
<1>1. MayUse(e)
  BY DEF Read
<1>2. CASE HasPeer(channel[e], TRUE)
  BY <1>1, <1>2, ReadMatchInv DEF Read
<1>3. CASE ~HasPeer(channel[e], TRUE) /\ Abandon(e)
  BY <1>1, <1>3, AbandonInv
<1>4. CASE ~HasPeer(channel[e], TRUE) /\ Suspend(e, FALSE)
  BY <1>1, <1>4, SuspendInv
<1> QED
  BY <1>2, <1>3, <1>4 DEF Read

LEMMA WriteInv ==
  ASSUME KernelInv, NEW e \in Endpoint, Write(e)
  PROVE  KernelInv'
<1>1. MayUse(e)
  BY DEF Write
<1>2. CASE HasPeer(channel[e], FALSE)
  BY <1>1, <1>2, WriteMatchInv DEF Write
<1>3. CASE ~HasPeer(channel[e], FALSE) /\ Abandon(e)
  BY <1>1, <1>3, AbandonInv
<1>4. CASE ~HasPeer(channel[e], FALSE) /\ Suspend(e, TRUE)
  BY <1>1, <1>4, SuspendInv
<1> QED
  BY <1>2, <1>3, <1>4 DEF Write

-----------------------------------------------------------------------------
(***************************************************************************)
(* Destructors                                                             *)
(***************************************************************************)

LEMMA DropReferenceInv ==
  ASSUME KernelInv, NEW f \in Fibre, NEW e \in Endpoint, DropReference(f, e)
  PROVE  KernelInv'
<1>1. /\ TypeOK /\ e \in eprefs[f] /\ eprefcnt[e] # 1
      /\ eprefs' = [eprefs EXCEPT ![f] = @ \ {e}]
      /\ eprefcnt' = [eprefcnt EXCEPT ![e] = @ - 1]
      /\ UNCHANGED <<live, current, active, top, chstate, refcnt, channel, owner,
                     unwind, ub>>
  BY DEF DropReference, KernelInv
<1>2. eprefcnt[e] \in Nat \ {0, 1} /\ channel[e] \in Channel
  BY <1>1, HeldEndpoint
<1>3. /\ eprefs'[f] = eprefs[f] \ {e} /\ eprefcnt'[e] = eprefcnt[e] - 1
      /\ \A g \in Fibre \ {f} : eprefs'[g] = eprefs[g]
      /\ \A d \in Endpoint \ {e} : eprefcnt'[d] = eprefcnt[d]
  BY <1>1 DEF TypeOK
<1>4. TypeOK'
  BY <1>1, <1>2 DEF TypeOK
<1>5. FibreInOnePlace'
  BY <1>1 DEF KernelInv, FibreInOnePlace, Ready, OnStack, Dying
<1>6. OnePolarity'
  BY <1>1 DEF KernelInv, OnePolarity
<1>7. EndpointRefs'
  <2>1. ASSUME NEW d \in Endpoint
        PROVE  /\ eprefcnt'[d] = Cardinality(Holders(d)')
               /\ (eprefcnt'[d] = 0) <=> (channel'[d] = None)
    <3>1. /\ eprefcnt[d] = Cardinality(Holders(d))
          /\ (eprefcnt[d] = 0) <=> (channel[d] = None)
      BY DEF KernelInv, EndpointRefs
    <3>2. CASE d = e
      <4>1. Holders(e)' = Holders(e) \ {f} /\ f \in Holders(e)
        BY <1>1, <1>3 DEF Holders
      <4>2. Cardinality(Holders(e)') = Cardinality(Holders(e)) - 1
        BY <4>1, FiniteHolders, FS_RemoveElement
      <4> QED
        BY <1>1, <1>2, <1>3, <3>1, <3>2, <4>2, KernelAssumption
    <3>3. CASE d # e
      <4>1. Holders(d)' = Holders(d)
        BY <1>1, <1>3, <3>3 DEF Holders
      <4> QED
        BY <1>1, <1>3, <3>1, <3>3, <4>1
    <3> QED
      BY <3>2, <3>3
  <2>2. ASSUME NEW g \in Fibre \ live' PROVE eprefs'[g] = {}
    BY <1>1, <1>3 DEF KernelInv, EndpointRefs
  <2> QED
    BY <2>1, <2>2 DEF EndpointRefs
<1>8. ASSUME NEW d \in Channel PROVE ChannelInv(d)'
  BY <1>1, SameCounts DEF KernelInv, countVars
<1> QED
  BY <1>4, <1>5, <1>6, <1>7, <1>8 DEF KernelInv

\* The last reference to an endpoint goes, and the endpoint with it.
LEMMA ReleaseRefs ==
  ASSUME KernelInv, NEW f \in Fibre, NEW e \in eprefs[f], eprefcnt[e] = 1,
         NEW c \in Channel, channel[e] = c,
         eprefs' = [eprefs EXCEPT ![f] = @ \ {e}],
         eprefcnt' = [eprefcnt EXCEPT ![e] = 0],
         channel' = [channel EXCEPT ![e] = None],
         UNCHANGED live
  PROVE  /\ EndpointRefs'
         /\ Cardinality(EndpointsOf(c)') = Cardinality(EndpointsOf(c)) - 1
         /\ \A d \in Channel \ {c} : EndpointsOf(d)' = EndpointsOf(d)
<1>1. e \in Endpoint /\ TypeOK
  BY HeldEndpoint DEF KernelInv
<1>2. /\ channel'[e] = None /\ eprefcnt'[e] = 0
      /\ eprefs'[f] = eprefs[f] \ {e}
      /\ \A g \in Fibre \ {f} : eprefs'[g] = eprefs[g]
      /\ \A d \in Endpoint \ {e} :
           channel'[d] = channel[d] /\ eprefcnt'[d] = eprefcnt[d]
  BY <1>1 DEF TypeOK
<1>3. ASSUME NEW d \in Endpoint
      PROVE  /\ eprefcnt'[d] = Cardinality(Holders(d)')
             /\ (eprefcnt'[d] = 0) <=> (channel'[d] = None)
  <2>1. /\ eprefcnt[d] = Cardinality(Holders(d))
        /\ (eprefcnt[d] = 0) <=> (channel[d] = None)
    BY DEF KernelInv, EndpointRefs
  <2>2. CASE d = e
    <3>1. Holders(e)' = Holders(e) \ {f} /\ f \in Holders(e)
      BY <1>2 DEF Holders
    <3>2. Cardinality(Holders(e)') = Cardinality(Holders(e)) - 1
      BY <3>1, FiniteHolders, FS_RemoveElement
    <3> QED
      BY <1>2, <2>1, <2>2, <3>2
  <2>3. CASE d # e
    <3>1. Holders(d)' = Holders(d)
      BY <1>2, <2>3 DEF Holders
    <3> QED
      BY <1>2, <2>1, <2>3, <3>1
  <2> QED
    BY <2>2, <2>3
<1>4. EndpointRefs'
  <2>1. \A g \in Fibre \ live' : eprefs'[g] = {}
    BY <1>2 DEF KernelInv, EndpointRefs
  <2> QED
    BY <1>3, <2>1 DEF EndpointRefs
<1>5. Cardinality(EndpointsOf(c)') = Cardinality(EndpointsOf(c)) - 1
  <2>1. EndpointsOf(c)' = EndpointsOf(c) \ {e} /\ e \in EndpointsOf(c)
    BY <1>1, <1>2, KernelAssumption DEF EndpointsOf
  <2> QED
    BY <2>1, FiniteEndpoints, FS_RemoveElement
<1>6. ASSUME NEW d \in Channel \ {c} PROVE EndpointsOf(d)' = EndpointsOf(d)
  BY <1>1, <1>2, KernelAssumption DEF EndpointsOf
<1> QED
  BY <1>4, <1>5, <1>6

\* The destructors that delete_channel calls: one for each fibre on the
\* channel, which is nowhere else, and one for the channel.
LEMMA DeleteChannelFrames ==
  ASSUME KernelInv, NEW c \in Channel, chstate[c] = "live", DeleteChannel(c)
  PROVE  /\ unwind' \in Seq(Frame) /\ Distinct(unwind')
         /\ Dying' = Dying \cup OnStack(c)
         /\ DeleteChannelObject(c) \in Elements(unwind')
         /\ \A d \in Channel \ {c} :
              DeleteChannelObject(d) \in Elements(unwind')
                <=> DeleteChannelObject(d) \in Elements(unwind)
<1>1. TypeOK /\ FibreInOnePlace /\ refcnt[c] = 1
  BY DEF KernelInv, DeleteChannel
<1>2. PICK k : k = DeleteChannelObject(c)
  OBVIOUS
<1>3. PICK u : u = unwind
  OBVIOUS
<1>4. PICK s : s = top[c]
  OBVIOUS
<1>5. PICK w : w = [i \in 1..Len(s) |-> DeleteFibre(s[i].fib)]
  OBVIOUS
<1>6. unwind' = w \o (<<k>> \o u)
  <2>1. unwind' = w \o <<k>> \o u
    BY <1>2, <1>3, <1>4, <1>5 DEF DeleteChannel
  <2>2. w \o <<k>> \o u = w \o (<<k>> \o u)
    OBVIOUS
  <2> QED
    BY <2>1, <2>2
<1>7. /\ s \in Seq(Tagged) /\ Distinct(s) /\ u \in Seq(Frame) /\ Distinct(u)
      /\ k \in Frame /\ k \notin Elements(u)
  <2>1. ChannelInv(c)
    BY DEF KernelInv
  <2> QED
    BY <1>1, <1>2, <1>3, <1>4, <2>1
       DEF TypeOK, FibreInOnePlace, Frame, DeleteChannelObject, ChannelInv,
           Marked, Counted
<1>8. /\ <<k>> \o u \in Seq(Frame) /\ Distinct(<<k>> \o u)
      /\ Elements(<<k>> \o u) = Elements(u) \cup {k}
  BY <1>7, PushElements
<1>9. \A i \in DOMAIN s : s[i] \in Tagged /\ s[i].fib \in Fibre
  <2>1. \A i \in DOMAIN s : s[i] \in Tagged
    BY <1>7
  <2> QED
    BY <2>1 DEF Tagged
<1>10. /\ DOMAIN s = 1..Len(s) /\ DOMAIN w = 1..Len(s)
       /\ \A i \in DOMAIN s : w[i] = DeleteFibre(s[i].fib)
  BY <1>5, <1>7
<1>11. w \in Seq(Frame)
  <2>1. \A i \in 1..Len(s) : DeleteFibre(s[i].fib) \in Frame
    BY <1>9, <1>10 DEF DeleteFibre, Frame
  <2>2. Len(s) \in Nat
    BY <1>7
  <2> QED
    BY <1>5, <2>1, <2>2
<1>12. Elements(w) = {DeleteFibre(f) : f \in OnStack(c)}
  BY <1>4, <1>10 DEF Elements, OnStack
<1>13. Distinct(w)
  <2> SUFFICES ASSUME NEW i \in DOMAIN s, NEW j \in DOMAIN s, w[i] = w[j]
               PROVE  i = j
    BY <1>10 DEF Distinct
  <2>1. s[i].fib = s[j].fib
    BY <1>10 DEF DeleteFibre
  <2>2. s[i] \in Elements(top[c]) /\ s[j] \in Elements(top[c])
    BY <1>4 DEF Elements
  <2>3. s[i] = s[j]
    BY <1>1, <2>1, <2>2 DEF FibreInOnePlace
  <2> QED
    BY <1>7, <2>3 DEF Distinct
<1>14. Elements(w) \cap Elements(<<k>> \o u) = {}
  <2> SUFFICES ASSUME NEW f \in OnStack(c),
                      DeleteFibre(f) \in Elements(u) \cup {k}
               PROVE  FALSE
    BY <1>8, <1>12
  <2>1. f \in Fibre
    BY <1>4, <1>9 DEF OnStack, Elements
  <2>2. f \notin Dying
    BY <1>1 DEF FibreInOnePlace
  <2>3. DeleteFibre(f) \notin Elements(u)
    BY <1>3, <2>1, <2>2 DEF Dying
  <2>4. DeleteFibre(f) # k
    BY <1>2, FramesDiffer
  <2> QED
    BY <2>3, <2>4
<1>15. /\ unwind' \in Seq(Frame) /\ Distinct(unwind')
       /\ Elements(unwind')
            = {DeleteFibre(f) : f \in OnStack(c)} \cup Elements(unwind) \cup {k}
  <2>1. /\ w \o (<<k>> \o u) \in Seq(Frame)
        /\ Elements(w \o (<<k>> \o u)) = Elements(w) \cup Elements(<<k>> \o u)
        /\ Distinct(w \o (<<k>> \o u))
    <3>1. PICK v : v = <<k>> \o u
      OBVIOUS
    <3>2. /\ v \in Seq(Frame) /\ Distinct(v) /\ w \in Seq(Frame) /\ Distinct(w)
          /\ Elements(w) \cap Elements(v) = {}
      BY <1>8, <1>11, <1>13, <1>14, <3>1
    <3>3. /\ w \o v \in Seq(Frame)
          /\ Elements(w \o v) = Elements(w) \cup Elements(v)
          /\ Distinct(w \o v)
      BY <3>2, ConcatElements
    <3> QED
      BY <3>1, <3>3
  <2> QED
    BY <1>3, <1>6, <1>8, <1>12, <2>1
<1>16. Dying' = Dying \cup OnStack(c)
  <2>1. OnStack(c) \subseteq Fibre
    BY <1>4, <1>9 DEF OnStack, Elements
  <2>2. \A f, g : DeleteFibre(f) = DeleteFibre(g) => f = g
    BY DEF DeleteFibre
  <2>3. \A f : DeleteFibre(f) # k
    BY <1>2, FramesDiffer
  <2>4. \A f \in Fibre : DeleteFibre(f) \in Elements(unwind')
          <=> f \in OnStack(c) \/ DeleteFibre(f) \in Elements(unwind)
    BY <1>15, <2>2, <2>3
  <2> QED
    BY <2>1, <2>4 DEF Dying
<1>17. ASSUME NEW d \in Channel \ {c}
       PROVE  DeleteChannelObject(d) \in Elements(unwind')
                <=> DeleteChannelObject(d) \in Elements(unwind)
  <2>1. DeleteChannelObject(d) # k
    BY <1>2 DEF DeleteChannelObject
  <2> QED
    BY <1>15, <2>1, FramesDiffer
<1> QED
  BY <1>2, <1>15, <1>16, <1>17

LEMMA DeleteEndpointInv ==
  ASSUME KernelInv, NEW f \in Fibre, NEW e \in Endpoint, DeleteEndpoint(f, e)
  PROVE  KernelInv'
<1>1. e \in eprefs[f] /\ eprefcnt[e] = 1 /\ TypeOK /\ FibreInOnePlace
  BY DEF DeleteEndpoint, KernelInv
<1>2. PICK c \in Channel : c = channel[e]
  BY <1>1, HeldEndpoint
<1>3. /\ chstate[c] = "live"
      /\ eprefs' = [eprefs EXCEPT ![f] = @ \ {e}]
      /\ eprefcnt' = [eprefcnt EXCEPT ![e] = 0]
      /\ channel' = [channel EXCEPT ![e] = None]
      /\ DeleteChannel(c) \/ LeaveDeletedChannel(c) \/ LeaveChannel(c)
      /\ UNCHANGED <<live, current, active, chstate, owner, ub>>
  BY <1>2 DEF DeleteEndpoint
<1>4. /\ EndpointRefs'
      /\ Cardinality(EndpointsOf(c)') = Cardinality(EndpointsOf(c)) - 1
      /\ \A d \in Channel \ {c} : EndpointsOf(d)' = EndpointsOf(d)
  BY <1>1, <1>2, <1>3, ReleaseRefs
<1>5. \A d \in Channel : ChannelInv(d)
  BY DEF KernelInv
<1>6. /\ eprefs' \in [Fibre -> SUBSET Endpoint]
      /\ eprefcnt' \in [Endpoint -> Nat]
      /\ channel' \in [Endpoint -> Channel \cup {None}]
  BY <1>1, <1>3 DEF TypeOK
<1>7. CASE DeleteChannel(c)
  <2>1. /\ unwind' \in Seq(Frame) /\ Distinct(unwind')
        /\ Dying' = Dying \cup OnStack(c)
        /\ DeleteChannelObject(c) \in Elements(unwind')
        /\ \A d \in Channel \ {c} :
             DeleteChannelObject(d) \in Elements(unwind')
               <=> DeleteChannelObject(d) \in Elements(unwind)
    BY <1>3, <1>7, DeleteChannelFrames
  <2>2. /\ top' = [top EXCEPT ![c] = << >>] /\ refcnt' = [refcnt EXCEPT ![c] = 0]
        /\ << >> \in Seq(Tagged)
    BY <1>7 DEF DeleteChannel
  <2>3. /\ top' \in [Channel -> Seq(Tagged)] /\ top'[c] = << >>
        /\ \A d \in Channel \ {c} : top'[d] = top[d]
    BY <1>1, <2>2, StackElements
  <2>4. /\ refcnt' \in [Channel -> Nat] /\ refcnt'[c] = 0
        /\ \A d \in Channel \ {c} : refcnt'[d] = refcnt[d]
    BY <1>1, <2>2 DEF TypeOK
  <2>5. TypeOK'
    BY <1>1, <1>3, <1>6, <2>1, <2>3, <2>4 DEF TypeOK
  <2>6. Elements(top'[c]) = {}
    BY <2>3 DEF Elements
  <2>7. \A d \in Channel : Elements(top'[d]) \subseteq Elements(top[d])
    BY <2>3, <2>6
  <2>8. FibreInOnePlace'
    <3>1. /\ Ready' = Ready /\ OnStack(c)' = {}
          /\ \A d \in Channel \ {c} : OnStack(d)' = OnStack(d)
      BY <1>3, <2>3, <2>6 DEF Ready, OnStack
    <3>2. ASSUME NEW g, NEW d \in Channel, g \in OnStack(d)
          PROVE  g \in OnStack(c) \/ g \in OnStack(d)'
      BY <3>1, <3>2
    <3>3. ASSUME NEW g, NEW d \in Channel, g \in OnStack(d)'
          PROVE  g \in OnStack(d) /\ g \notin OnStack(c)
      <4>1. d # c /\ g \in OnStack(d)
        BY <3>1, <3>3
      <4> QED
        BY <1>1, <4>1 DEF FibreInOnePlace, OnStack
    <3>4. live' = ({current'} \ {None}) \cup Ready' \cup Dying'
                    \cup UNION {OnStack(d)' : d \in Channel}
      BY <1>1, <1>3, <2>1, <3>1, <3>2, <3>3 DEF FibreInOnePlace
    <3>5. Ready' \cap (Dying' \cup {current'}) = {}
      BY <1>1, <1>3, <2>1, <3>1 DEF FibreInOnePlace
    <3>6. ASSUME NEW d \in Channel
          PROVE  OnStack(d)' \cap (Ready' \cup Dying' \cup {current'}) = {}
      <4>1. OnStack(d) \cap (Ready \cup Dying \cup {current}) = {}
        BY <1>1 DEF FibreInOnePlace
      <4> QED
        BY <1>3, <2>1, <3>1, <3>3, <4>1
    <3>7. \A d \in Channel : Distinct(top'[d])
      BY <1>1, <2>3 DEF FibreInOnePlace, Distinct
    <3>8. \A b, d \in Channel :
            \A x \in Elements(top'[b]), y \in Elements(top'[d]) :
              x.fib = y.fib => b = d /\ x = y
      BY <1>1, <2>7 DEF FibreInOnePlace
    <3> QED
      BY <1>1, <1>3, <2>1, <3>4, <3>5, <3>6, <3>7, <3>8 DEF FibreInOnePlace
  <2>9. OnePolarity'
    BY <2>7 DEF KernelInv, OnePolarity
  <2>10. ASSUME NEW d \in Channel PROVE ChannelInv(d)'
    <3>1. CASE d = c
      <4>1. Marked(c)'
        BY <2>1, <2>3, <2>4 DEF Marked
      <4> QED
        BY <1>3, <3>1, <4>1 DEF ChannelInv
    <3>2. CASE d # c
      BY <1>3, <1>4, <1>5, <2>1, <2>3, <2>4, <3>2 DEF ChannelInv, Marked, Counted
    <3> QED
      BY <3>1, <3>2
  <2> QED
    BY <1>4, <2>5, <2>8, <2>9, <2>10 DEF KernelInv
<1>8. CASE LeaveDeletedChannel(c) \/ LeaveChannel(c)
  <2>1. UNCHANGED <<live, current, active, top, unwind>>
    BY <1>3, <1>8 DEF LeaveDeletedChannel, LeaveChannel
  <2>2. \/ refcnt[c] = 0 /\ refcnt' = refcnt
        \/ refcnt[c] \notin {0, 1} /\ refcnt' = [refcnt EXCEPT ![c] = @ - 1]
    BY <1>8 DEF LeaveDeletedChannel, LeaveChannel
  <2>3. /\ refcnt' \in [Channel -> Nat]
        /\ \A d \in Channel \ {c} : refcnt'[d] = refcnt[d]
    <3>1. refcnt \in [Channel -> Nat]
      BY <1>1 DEF TypeOK
    <3>2. CASE refcnt' = refcnt
      BY <3>1, <3>2
    <3>3. CASE refcnt[c] # 0 /\ refcnt' = [refcnt EXCEPT ![c] = @ - 1]
      <4>1. refcnt[c] - 1 \in Nat
        BY <3>1, <3>3
      <4> QED
        BY <3>1, <3>3, <4>1
    <3> QED
      BY <2>2, <3>2, <3>3
  <2>4. TypeOK'
    BY <1>1, <1>3, <1>6, <2>1, <2>3 DEF TypeOK
  <2>5. FibreInOnePlace'
    BY <1>1, <2>1 DEF FibreInOnePlace, Ready, OnStack, Dying
  <2>6. OnePolarity'
    BY <2>1 DEF KernelInv, OnePolarity
  <2>7. ASSUME NEW d \in Channel PROVE ChannelInv(d)'
    <3>1. CASE d = c /\ refcnt[c] = 0
      <4>1. Marked(c)'
        BY <1>3, <1>5, <2>1, <2>2, <3>1 DEF ChannelInv, Counted, Marked
      <4> QED
        BY <1>3, <3>1, <4>1 DEF ChannelInv
    <3>2. CASE d = c /\ refcnt[c] # 0
      <4>1. refcnt[c] \in Nat \ {0, 1} /\ refcnt'[c] = refcnt[c] - 1
        BY <1>1, <2>2, <3>2 DEF TypeOK
      <4>2. Counted(c) /\ Len(top[c]) \in Nat
        BY <1>1, <1>3, <1>5, <3>2 DEF ChannelInv, Marked, TypeOK
      <4>3. Counted(c)'
        BY <1>4, <2>1, <4>1, <4>2, FiniteEndpoints DEF Counted
      <4> QED
        BY <1>3, <3>2, <4>3 DEF ChannelInv
    <3>3. CASE d # c
      BY <1>3, <1>4, <1>5, <2>1, <2>3, <3>3 DEF ChannelInv, Marked, Counted
    <3> QED
      BY <3>1, <3>2, <3>3
  <2> QED
    BY <1>4, <2>4, <2>5, <2>6, <2>7 DEF KernelInv
<1> QED
  BY <1>3, <1>7, <1>8

LEMMA FreeFibreInv ==
  ASSUME KernelInv, NEW f \in Fibre, FreeFibre(f)
  PROVE  KernelInv'
<1>1. /\ TypeOK /\ FibreInOnePlace
      /\ unwind # << >> /\ Head(unwind) = DeleteFibre(f) /\ eprefs[f] = {}
      /\ live' = live \ {f} /\ unwind' = Tail(unwind) /\ FetchAfter(f)
      /\ UNCHANGED <<top, refcnt, objectVars, ub>>
  BY DEF FreeFibre, Deleting, Unwinding, Return, KernelInv
<1>2. /\ unwind' \in Seq(Frame) /\ Distinct(unwind')
      /\ Elements(unwind) = Elements(unwind') \cup {DeleteFibre(f)}
      /\ DeleteFibre(f) \notin Elements(unwind')
  <2>1. unwind \in Seq(Frame) /\ Distinct(unwind)
    BY <1>1 DEF TypeOK, FibreInOnePlace
  <2> QED
    BY <1>1, <2>1, PopElements
<1>3. Dying' = Dying \ {f} /\ f \in Dying
  BY <1>2 DEF Dying, DeleteFibre
<1>4. f # None /\ f \notin Ready /\ \A d \in Channel : f \notin OnStack(d)
  BY <1>1, <1>3, KernelAssumption DEF FibreInOnePlace
<1>5. /\ current' \in Fibre \cup {None}
      /\ active' \in Seq(Fibre) /\ Distinct(active')
      /\ (Ready \cup ({current} \ {None})) \ {f}
            = Elements(active') \cup ({current'} \ {None})
      /\ current' \notin Elements(active')
      /\ current' \in {None} \cup Ready \cup {current}
      /\ Elements(active') \subseteq Ready
  <2>1. CASE current = f /\ PopActive
    <3>1. /\ current' \in Fibre \cup {None}
          /\ active' \in Seq(Fibre)
          /\ Ready = Elements(active') \cup ({current'} \ {None})
          /\ current' \notin Elements(active')
          /\ Distinct(active')
      BY <1>1, <2>1, PopActiveFacts DEF FibreInOnePlace
    <3> QED
      BY <1>4, <2>1, <3>1
  <2>2. CASE current # f /\ UNCHANGED <<current, active>>
    BY <1>1, <1>4, <2>2 DEF TypeOK, FibreInOnePlace, Ready
  <2> QED
    BY <1>1, <2>1, <2>2 DEF FetchAfter
<1>6. TypeOK'
  BY <1>1, <1>2, <1>5 DEF TypeOK, objectVars
<1>7. FibreInOnePlace'
  <2>1. Ready' = Elements(active') /\ \A d : OnStack(d)' = OnStack(d)
    BY <1>1 DEF Ready, OnStack
  <2>2. f \notin UNION {OnStack(d) : d \in Channel}
    BY <1>4
  <2>3. live' = ({current'} \ {None}) \cup Ready' \cup Dying'
                  \cup UNION {OnStack(d)' : d \in Channel}
    BY <1>1, <1>3, <1>5, <2>1, <2>2 DEF FibreInOnePlace
  <2>4. Ready' \cap (Dying' \cup {current'}) = {}
    BY <1>1, <1>3, <1>5, <2>1 DEF FibreInOnePlace
  <2>5. ASSUME NEW d \in Channel
        PROVE  OnStack(d)' \cap (Ready' \cup Dying' \cup {current'}) = {}
    <3>1. OnStack(d) \cap (Ready \cup Dying \cup {current}) = {}
      BY <1>1 DEF FibreInOnePlace
    <3>2. None \notin OnStack(d)
      <4>1. \A x \in Elements(top[d]) : x \in Tagged
        BY <1>1 DEF Elements, TypeOK
      <4> QED
        BY <4>1, KernelAssumption DEF OnStack, Tagged
    <3> QED
      BY <1>3, <1>5, <2>1, <3>1, <3>2
  <2> QED
    BY <1>1, <1>2, <1>5, <2>3, <2>4, <2>5 DEF FibreInOnePlace
<1>8. EndpointRefs'
  <2>1. \A e : Holders(e)' = Holders(e)
    BY <1>1 DEF objectVars, Holders
  <2>2. \A g \in Fibre \ live' : eprefs'[g] = {}
    BY <1>1 DEF KernelInv, EndpointRefs, objectVars
  <2> QED
    BY <1>1, <2>1, <2>2 DEF KernelInv, EndpointRefs, objectVars
<1>9. OnePolarity'
  BY <1>1 DEF KernelInv, OnePolarity
<1>10. ASSUME NEW d \in Channel PROVE ChannelInv(d)'
  BY <1>1, <1>2, FramesDiffer, SameCounts DEF KernelInv, countVars, objectVars
<1> QED
  BY <1>6, <1>7, <1>8, <1>9, <1>10 DEF KernelInv

LEMMA FreeChannelInv ==
  ASSUME KernelInv, NEW c \in Channel, FreeChannel(c)
  PROVE  KernelInv'
<1>1. /\ TypeOK /\ FibreInOnePlace
      /\ unwind # << >> /\ Head(unwind) = DeleteChannelObject(c)
      /\ chstate' = [chstate EXCEPT ![c] = "freed"]
      /\ unwind' = Tail(unwind)
      /\ UNCHANGED <<live, current, active, top, refcnt, channel, eprefcnt,
                     eprefs, owner, ub>>
  BY DEF FreeChannel, Unwinding, Return, KernelInv
<1>2. /\ unwind' \in Seq(Frame) /\ Distinct(unwind')
      /\ Elements(unwind) = Elements(unwind') \cup {DeleteChannelObject(c)}
      /\ DeleteChannelObject(c) \notin Elements(unwind')
  <2>1. unwind \in Seq(Frame) /\ Distinct(unwind)
    BY <1>1 DEF TypeOK, FibreInOnePlace
  <2> QED
    BY <1>1, <2>1, PopElements
<1>3. TypeOK'
  BY <1>1, <1>2 DEF TypeOK
<1>4. FibreInOnePlace'
  <2>1. Dying' = Dying
    BY <1>2, FramesDiffer DEF Dying
  <2>2. Ready' = Ready /\ \A d : OnStack(d)' = OnStack(d)
    BY <1>1 DEF Ready, OnStack
  <2> QED
    BY <1>1, <1>2, <2>1, <2>2 DEF FibreInOnePlace
<1>5. EndpointRefs'
  BY <1>1, SameRefs DEF KernelInv, refsVars
<1>6. OnePolarity'
  BY <1>1 DEF KernelInv, OnePolarity
<1>7. ASSUME NEW d \in Channel PROVE ChannelInv(d)'
  <2>1. ChannelInv(d) /\ EndpointsOf(d)' = EndpointsOf(d)
    BY <1>1 DEF KernelInv, EndpointsOf
  <2>2. CASE d = c
    <3>1. chstate'[c] = "freed"
      BY <1>1 DEF TypeOK
    <3> QED
      BY <1>2, <2>2, <3>1 DEF ChannelInv
  <2>3. CASE d # c
    <3>1. chstate'[d] = chstate[d]
      BY <1>1, <2>3 DEF TypeOK
    <3>2. DeleteChannelObject(d) # DeleteChannelObject(c)
      BY <2>3 DEF DeleteChannelObject
    <3> QED
      BY <1>1, <1>2, <2>1, <3>1, <3>2 DEF ChannelInv, Marked, Counted
  <2> QED
    BY <2>2, <2>3
<1> QED
  BY <1>3, <1>4, <1>5, <1>6, <1>7 DEF KernelInv

-----------------------------------------------------------------------------
(***************************************************************************)
(* The theorems                                                            *)
(***************************************************************************)

LEMMA KernelInit ==
  ASSUME Init
  PROVE  KernelInv
<1>1. TypeOK
  <2>0. active \in Seq(Fibre) /\ unwind \in Seq(Frame)
    BY DEF Init
  <2>1. live \subseteq Fibre /\ current \in Fibre /\ ub \in BOOLEAN
    BY DEF Init
  <2>2. /\ top \in [Channel -> Seq(Tagged)]
        /\ chstate \in [Channel -> {"unused", "live", "freed"}]
        /\ refcnt \in [Channel -> Nat]
    BY DEF Init
  <2>3. /\ channel \in [Endpoint -> Channel \cup {None}]
        /\ eprefcnt \in [Endpoint -> Nat]
        /\ eprefs \in [Fibre -> SUBSET Endpoint]
        /\ owner \in [Endpoint -> Fibre \cup {None}]
    BY DEF Init
  <2> QED
    BY <2>0, <2>1, <2>2, <2>3 DEF TypeOK
<1>2. FibreInOnePlace
  <2>1. /\ Ready = {} /\ Dying = {}
        /\ \A c \in Channel : Elements(top[c]) = {} /\ OnStack(c) = {}
    BY DEF Init, Ready, Dying, OnStack, Elements
  <2>2. Distinct(active) /\ Distinct(unwind) /\ \A c \in Channel : Distinct(top[c])
    BY DEF Init, Distinct
  <2> QED
    BY <2>1, <2>2, KernelAssumption DEF Init, FibreInOnePlace
<1>3. EndpointRefs
  <2>1. \A e \in Endpoint : Holders(e) = {}
    BY DEF Init, Holders
  <2> QED
    BY <2>1, FS_EmptySet DEF Init, EndpointRefs
<1>4. OnePolarity
  BY DEF Init, OnePolarity, Elements
<1>5. ASSUME NEW c \in Channel PROVE ChannelInv(c)
  <2>1. EndpointsOf(c) = {}
    BY KernelAssumption DEF Init, EndpointsOf
  <2> QED
    BY <2>1 DEF Init, ChannelInv, Elements
<1> QED
  BY <1>1, <1>2, <1>3, <1>4, <1>5 DEF KernelInv

LEMMA KernelStutter ==
  ASSUME KernelInv,
         UNCHANGED <<live, current, active, top, refcnt, objectVars, unwind>>,
         ub' \in BOOLEAN
  PROVE  KernelInv'
<1>1. TypeOK'
  BY DEF KernelInv, TypeOK, objectVars
<1>2. FibreInOnePlace' /\ OnePolarity'
  BY DEF KernelInv, FibreInOnePlace, Ready, OnStack, Dying, OnePolarity
<1>3. EndpointRefs'
  BY SameRefs DEF KernelInv, refsVars, objectVars
<1>4. ASSUME NEW c \in Channel PROVE ChannelInv(c)'
  BY SameCounts DEF KernelInv, countVars, objectVars
<1> QED
  BY <1>1, <1>2, <1>3, <1>4 DEF KernelInv

LEMMA KernelNext ==
  ASSUME KernelInv, [Next]_vars
  PROVE  KernelInv'
<1>1. ASSUME NEW f \in Fibre, NEW copied \in SUBSET Endpoint,
             NEW moved \in SUBSET Endpoint,
             SpawnFibre(f, copied, moved) \/ SpawnFibreDeferred(f, copied, moved)
      PROVE  KernelInv'
  BY <1>1, SpawnFibreInv, SpawnFibreDeferredInv
<1>2. CASE Suicide
  BY <1>2, SuicideInv
<1>3. ASSUME NEW c \in Channel, NEW e \in Endpoint, MakeChannel(c, e)
      PROVE  KernelInv'
  BY <1>3, MakeChannelInv
<1>4. ASSUME NEW e \in Endpoint, NEW d \in Endpoint, Dup(e, d)
      PROVE  KernelInv'
  BY <1>4, DupInv
<1>5. ASSUME NEW f \in Fibre, NEW e \in Endpoint, Release(f, e)
      PROVE  KernelInv'
  BY <1>5, DropReferenceInv, DeleteEndpointInv DEF Release
<1>6. ASSUME NEW e \in Endpoint, Read(e) \/ Write(e) \/ Discard(e)
      PROVE  KernelInv'
  <2>1. CASE Discard(e)
    <3>1. current \in Fibre
      BY <2>1, RunningFacts DEF Discard
    <3> QED
      BY <1>5, <2>1, <3>1 DEF Discard
  <2> QED
    BY <1>6, <2>1, ReadInv, WriteInv
<1>7. CASE UseStaleEndpoint
  BY <1>7, KernelStutter DEF UseStaleEndpoint
<1>8. CASE Unwind
  <2>1. ASSUME NEW f \in Fibre, FreeFibre(f) \/ DeleteStaleEndpoint(f)
        PROVE  KernelInv'
    <3>1. CASE DeleteStaleEndpoint(f)
      BY <3>1, KernelStutter DEF DeleteStaleEndpoint
    <3> QED
      BY <2>1, <3>1, FreeFibreInv
  <2> QED
    BY <1>5, <1>8, <2>1, FreeChannelInv DEF Unwind
<1>9. CASE UNCHANGED vars
  BY <1>9, KernelStutter DEF vars, KernelInv, TypeOK
<1> QED
  BY <1>1, <1>2, <1>3, <1>4, <1>6, <1>7, <1>8, <1>9 DEF Next

\* In every state the program can reach the conjuncts of KernelInv hold.
THEOREM KernelInvariant == Spec => []KernelInv
BY KernelInit, KernelNext, PTL DEF Spec

\* A count never becomes negative, whatever the program does.
THEOREM TypeCorrect == Spec => []TypeOK
<1>1. KernelInv => TypeOK
  BY DEF KernelInv
<1> QED
  BY <1>1, KernelInvariant, PTL

\* Each fibre that exists is run, ready, on one channel or being deleted,
\* once; and no list refers to a fibre that was deleted.
THEOREM EachFibreInOnePlace == Spec => []FibreInOnePlace
<1>1. KernelInv => FibreInOnePlace
  BY DEF KernelInv
<1> QED
  BY <1>1, KernelInvariant, PTL

\* Only readers wait on a channel, or only writers.
THEOREM ChannelsHaveOnePolarity == Spec => []OnePolarity
<1>1. KernelInv => OnePolarity
  BY DEF KernelInv
<1> QED
  BY <1>1, KernelInvariant, PTL

\* Endpoints live exactly as long as they are referred to.
THEOREM EndpointsAreReferred == Spec => []EndpointRefs
<1>1. KernelInv => EndpointRefs
  BY DEF KernelInv
<1> QED
  BY <1>1, KernelInvariant, PTL

\* The count of a channel is one more than its endpoints, less the fibres
\* suspended on it, until delete_channel marks it.
THEOREM ChannelsCount == Spec => []RefcntAccounting
<1>1. KernelInv => RefcntAccounting
  BY DEF KernelInv, ChannelInv, Marked, Counted, RefcntAccounting
<1> QED
  BY <1>1, KernelInvariant, PTL

-----------------------------------------------------------------------------
(***************************************************************************)
(* The last fibre that can answer                                          *)
(*                                                                         *)
(* A fibre suspended on a channel still holds an endpoint of it, for only  *)
(* the fibre itself and its destructor give references up.  So when the    *)
(* count is one, as many fibres that hold endpoints are suspended as there *)
(* are endpoints, and of the references at most one is left for others.    *)
(***************************************************************************)

\* The endpoints of c that f refers to.
Held(f, c) == {e \in EndpointsOf(c) : e \in eprefs[f]}

SuspendedHold == \A c \in Channel : \A t \in Elements(top[c]) : Held(t.fib, c) # {}

\* A suspended fibre is live and not the current one.
LEMMA SuspendedFibre ==
  ASSUME KernelInv, NEW c \in Channel, NEW t \in Elements(top[c])
  PROVE  /\ t.fib \in Fibre /\ t.fib \in live /\ t.fib # current
         /\ t.fib \notin Dying /\ t.fib \in OnStack(c)
<1>1. t \in Tagged
  BY DEF KernelInv, TypeOK, Elements
<1>2. t.fib \in OnStack(c)
  BY DEF OnStack
<1> QED
  BY <1>1, <1>2 DEF KernelInv, FibreInOnePlace, Tagged

\* What a suspended fibre holds it keeps, unless an action takes it away.
LEMMA HoldKept ==
  ASSUME SuspendedHold,
         \A c \in Channel : Elements(top'[c]) \subseteq Elements(top[c]),
         \A c \in Channel : \A t \in Elements(top[c]) : \A e \in Held(t.fib, c) :
           channel'[e] = channel[e] /\ e \in eprefs'[t.fib]
  PROVE  SuspendedHold'
<1> SUFFICES ASSUME NEW c \in Channel, NEW t \in Elements(top'[c])
             PROVE  Held(t.fib, c)' # {}
  BY DEF SuspendedHold
<1>1. t \in Elements(top[c])
  OBVIOUS
<1>2. PICK e \in Held(t.fib, c) : TRUE
  BY <1>1 DEF SuspendedHold
<1>3. e \in Endpoint /\ channel[e] = c
  BY <1>2 DEF Held, EndpointsOf
<1>4. channel'[e] = c /\ e \in eprefs'[t.fib]
  BY <1>1, <1>2, <1>3
<1> QED
  BY <1>3, <1>4 DEF Held, EndpointsOf

LEMMA SameHold ==
  ASSUME SuspendedHold, UNCHANGED <<top, channel, eprefs>>
  PROVE  SuspendedHold'
BY HoldKept DEF Held

\* Only the running fibre and a new one change what they refer to.
LEMMA ConstructHold ==
  ASSUME KernelInv, SuspendedHold, Running, NEW f \in Fibre,
         NEW copied \in SUBSET Endpoint, NEW moved \in SUBSET Endpoint,
         Construct(f, copied, moved), UNCHANGED <<top, channel>>
  PROVE  SuspendedHold'
<1>1. f \notin live /\ eprefs \in [Fibre -> SUBSET Endpoint]
      /\ eprefs' = [eprefs EXCEPT ![f] = copied \cup moved,
                                  ![current] = @ \ moved]
  BY DEF Construct, KernelInv, TypeOK
<1>2. ASSUME NEW c \in Channel, NEW t \in Elements(top[c])
      PROVE  eprefs'[t.fib] = eprefs[t.fib]
  <2>1. t.fib \in Fibre \ {f, current}
    BY <1>1, SuspendedFibre
  <2> QED
    BY <1>1, <2>1
<1> QED
  BY <1>2, HoldKept DEF Held

\* An endpoint that is made is none that was held.
LEMMA AcquireHold ==
  ASSUME KernelInv, SuspendedHold, NEW c \in Channel, NEW e \in Endpoint,
         channel[e] = None,
         channel' = [channel EXCEPT ![e] = c],
         eprefs' = [eprefs EXCEPT ![current] = @ \cup {e}],
         UNCHANGED top
  PROVE  SuspendedHold'
<1>1. ASSUME NEW b \in Channel, NEW t \in Elements(top[b]), NEW d \in Held(t.fib, b)
      PROVE  channel'[d] = channel[d] /\ d \in eprefs'[t.fib]
  <2>1. d \in Endpoint /\ d \in eprefs[t.fib] /\ channel[d] = b
    BY DEF Held, EndpointsOf
  <2>2. d # e
    BY <2>1, KernelAssumption
  <2>3. t.fib \in Fibre
    BY SuspendedFibre
  <2> QED
    BY <2>1, <2>2, <2>3 DEF KernelInv, TypeOK
<1> QED
  BY <1>1, HoldKept

LEMMA PopPeerHold ==
  ASSUME KernelInv, SuspendedHold, NEW c \in Channel, NEW wr, HasPeer(c, wr),
         PopPeer(c), UNCHANGED objectVars
  PROVE  SuspendedHold'
<1>1. /\ TypeOK /\ top[c] # << >>
      /\ top' = [top EXCEPT ![c] = Tail(@)]
  BY DEF KernelInv, HasPeer, PopPeer
<1>2. \A d \in Channel : Elements(top'[d]) \subseteq Elements(top[d])
  <2>1. Elements(Tail(top[c])) \subseteq Elements(top[c])
    BY <1>1, PopElements DEF TypeOK
  <2> QED
    BY <1>1, <2>1 DEF TypeOK
<1> QED
  BY <1>2, HoldKept DEF objectVars, Held

\* A fibre is suspended through an endpoint it holds.
LEMMA SuspendHold ==
  ASSUME KernelInv, SuspendedHold, NEW e \in Endpoint, NEW wr \in BOOLEAN,
         MayUse(e), Suspend(e, wr)
  PROVE  SuspendedHold'
<1>1. Running /\ e \in eprefs[current]
  BY DEF MayUse
<1>2. current \in Fibre
  BY <1>1, RunningFacts
<1>3. PICK c \in Channel : c = channel[e]
  BY <1>1, <1>2, HeldEndpoint
<1>4. PICK t \in Tagged : t = [fib |-> current, wr |-> wr]
  BY <1>2 DEF Tagged
<1>5. /\ top \in [Channel -> Seq(Tagged)]
      /\ top' = [top EXCEPT ![c] = <<t>> \o @]
      /\ UNCHANGED objectVars
  BY <1>3, <1>4 DEF Suspend, KernelInv, TypeOK
<1>6. /\ Elements(top'[c]) = Elements(top[c]) \cup {t}
      /\ \A d \in Channel \ {c} : top'[d] = top[d]
  <2>1. Elements(<<t>> \o top[c]) = Elements(top[c]) \cup {t}
    BY <1>5, PushElements
  <2> QED
    BY <1>5, <2>1
<1>7. ASSUME NEW d \in Channel, NEW u \in Elements(top'[d])
      PROVE  Held(u.fib, d)' # {}
  <2>1. Held(u.fib, d)' = Held(u.fib, d)
    BY <1>5 DEF Held, EndpointsOf, objectVars
  <2>2. CASE u \in Elements(top[d])
    BY <2>1, <2>2 DEF SuspendedHold
  <2>3. CASE u \notin Elements(top[d])
    <3>1. d = c /\ u = t
      BY <1>6, <2>3
    <3>2. e \in Held(current, c)
      BY <1>1, <1>3 DEF Held, EndpointsOf
    <3> QED
      BY <1>4, <2>1, <3>1, <3>2
  <2> QED
    BY <2>2, <2>3
<1> QED
  BY <1>7 DEF SuspendedHold

\* An endpoint goes with the last reference to it, and the fibre that gave that
\* up is not suspended.
LEMMA ReleaseHold ==
  ASSUME KernelInv, SuspendedHold, NEW f \in Fibre, NEW e \in Endpoint,
         Release(f, e), \A c \in Channel : f \notin OnStack(c)
  PROVE  SuspendedHold'
<1>1. /\ TypeOK /\ e \in eprefs[f]
      /\ eprefs' = [eprefs EXCEPT ![f] = @ \ {e}]
  BY DEF KernelInv, Release, DropReference, DeleteEndpoint
<1>2. PICK c \in Channel : c = channel[e]
  BY <1>1, HeldEndpoint
<1>3. \A d \in Channel : \A t \in Elements(top[d]) :
        eprefs'[t.fib] = eprefs[t.fib] /\ t.fib \in Fibre \ {f}
  <2>1. \A d \in Channel : \A t \in Elements(top[d]) : t.fib \in Fibre \ {f}
    BY SuspendedFibre
  <2> QED
    BY <1>1, <2>1 DEF TypeOK
<1>4. CASE DropReference(f, e)
  <2>1. UNCHANGED <<top, channel>>
    BY <1>4 DEF DropReference
  <2> QED
    BY <1>3, <2>1, HoldKept DEF Held
<1>5. CASE DeleteEndpoint(f, e)
  <2>1. /\ eprefcnt[e] = 1
        /\ channel' = [channel EXCEPT ![e] = None]
        /\ DeleteChannel(c) \/ LeaveDeletedChannel(c) \/ LeaveChannel(c)
    BY <1>2, <1>5 DEF DeleteEndpoint
  <2>2. \A g \in Fibre \ {f} : e \notin eprefs[g]
    <3>1. Cardinality(Holders(e)) = 1 /\ f \in Holders(e)
      BY <1>1, <2>1 DEF KernelInv, EndpointRefs, Holders
    <3>2. PICK g : Holders(e) = {g}
      BY <3>1, FiniteHolders, FS_Singleton
    <3> QED
      BY <3>1, <3>2 DEF Holders
  <2>3. \A d \in Channel : Elements(top'[d]) \subseteq Elements(top[d])
    <3>1. CASE DeleteChannel(c)
      <4>1. top' = [top EXCEPT ![c] = << >>]
        BY <3>1 DEF DeleteChannel
      <4>2. ASSUME NEW d \in Channel
            PROVE  top'[d] = << >> \/ top'[d] = top[d]
        BY <1>1, <4>1 DEF TypeOK
      <4> QED
        BY <4>2 DEF Elements
    <3>2. CASE LeaveDeletedChannel(c) \/ LeaveChannel(c)
      BY <3>2 DEF LeaveDeletedChannel, LeaveChannel
    <3> QED
      BY <2>1, <3>1, <3>2
  <2>4. ASSUME NEW d \in Channel, NEW t \in Elements(top[d]), NEW b \in Held(t.fib, d)
        PROVE  channel'[b] = channel[b] /\ b \in eprefs'[t.fib]
    <3>1. b \in Endpoint /\ b \in eprefs[t.fib]
      BY DEF Held, EndpointsOf
    <3>2. b # e /\ b \in eprefs'[t.fib]
      BY <1>3, <2>2, <3>1
    <3> QED
      BY <1>1, <2>1, <3>1, <3>2 DEF TypeOK
  <2> QED
    BY <2>3, <2>4, HoldKept
<1> QED
  BY <1>4, <1>5 DEF Release

LEMMA HoldNext ==
  ASSUME KernelInv, SuspendedHold, [Next]_vars
  PROVE  SuspendedHold'
<1>1. ASSUME NEW f \in Fibre, NEW copied \in SUBSET Endpoint,
             NEW moved \in SUBSET Endpoint,
             SpawnFibre(f, copied, moved) \/ SpawnFibreDeferred(f, copied, moved)
      PROVE  SuspendedHold'
  BY <1>1, ConstructHold DEF SpawnFibre, SpawnFibreDeferred
<1>2. CASE Suicide \/ UseStaleEndpoint \/ UNCHANGED vars
  BY <1>2, SameHold DEF Suicide, UseStaleEndpoint, vars, objectVars
<1>3. ASSUME NEW c \in Channel, NEW e \in Endpoint, MakeChannel(c, e)
      PROVE  SuspendedHold'
  BY <1>3, AcquireHold DEF MakeChannel
<1>4. ASSUME NEW e \in Endpoint, NEW d \in Endpoint, Dup(e, d)
      PROVE  SuspendedHold'
  <2>1. Running /\ e \in eprefs[current] /\ current \in Fibre
    BY <1>4, RunningFacts DEF Dup
  <2>2. PICK c \in Channel : c = channel[e]
    BY <2>1, HeldEndpoint
  <2> QED
    BY <1>4, <2>2, AcquireHold DEF Dup
<1>5. ASSUME NEW e \in Endpoint, Read(e) \/ Write(e)
      PROVE  SuspendedHold'
  <2>1. MayUse(e) /\ Running /\ e \in eprefs[current] /\ current \in Fibre
    BY <1>5, RunningFacts DEF Read, Write, MayUse
  <2>2. PICK c \in Channel : c = channel[e]
    BY <2>1, HeldEndpoint
  <2>3. ASSUME NEW wr \in BOOLEAN, HasPeer(c, wr), PopPeer(c), UNCHANGED objectVars
        PROVE  SuspendedHold'
    BY <2>3, PopPeerHold
  <2>4. CASE Abandon(e)
    BY <2>4, SameHold DEF Abandon, objectVars
  <2>5. ASSUME NEW wr \in BOOLEAN, Suspend(e, wr)
        PROVE  SuspendedHold'
    BY <2>1, <2>5, SuspendHold
  <2>6. CASE Read(e)
    BY <2>2, <2>3, <2>4, <2>5, <2>6 DEF Read
  <2>7. CASE Write(e)
    BY <2>2, <2>3, <2>4, <2>5, <2>7 DEF Write
  <2> QED
    BY <1>5, <2>6, <2>7
<1>6. ASSUME NEW e \in Endpoint, Discard(e)
      PROVE  SuspendedHold'
  <2>1. Running /\ Release(current, e)
    BY <1>6 DEF Discard
  <2>2. current \in Fibre /\ \A c \in Channel : current \notin OnStack(c)
    BY <2>1, RunningFacts
  <2> QED
    BY <2>1, <2>2, ReleaseHold
<1>7. ASSUME NEW f \in Fibre, NEW e \in Endpoint, Deleting(f), Release(f, e)
      PROVE  SuspendedHold'
  <2>1. f \in Dying
    <3>1. unwind \in Seq(Frame) /\ unwind # << >> /\ Head(unwind) = DeleteFibre(f)
      BY <1>7 DEF Deleting, Unwinding, KernelInv, TypeOK
    <3> QED
      BY <3>1, PopElements DEF Dying
  <2>2. \A c \in Channel : f \notin OnStack(c)
    BY <2>1 DEF KernelInv, FibreInOnePlace
  <2> QED
    BY <1>7, <2>2, ReleaseHold
<1>8. ASSUME NEW f \in Fibre, FreeFibre(f) \/ DeleteStaleEndpoint(f)
      PROVE  SuspendedHold'
  BY <1>8, SameHold DEF FreeFibre, DeleteStaleEndpoint, objectVars
<1>9. ASSUME NEW c \in Channel, FreeChannel(c)
      PROVE  SuspendedHold'
  BY <1>9, SameHold DEF FreeChannel
<1>10. CASE Unwind
  BY <1>7, <1>8, <1>9, <1>10 DEF Unwind
<1> QED
  BY <1>1, <1>2, <1>3, <1>4, <1>5, <1>6, <1>10 DEF Next

\* A count of one is met by at most one fibre that is not suspended, if the
\* fibres hold no more than one reference more than there are endpoints.
LEMMA LastHolder ==
  ASSUME KernelInv, SuspendedHold
  PROVE  LastWhenOne
<1> SUFFICES ASSUME NEW c \in Channel, chstate[c] = "live", refcnt[c] = 1,
                    Cardinality(References(c)) <= Cardinality(EndpointsOf(c)) + 1,
                    NEW f \in HoldersOf(c) \ OnStack(c),
                    NEW g \in HoldersOf(c) \ OnStack(c), f # g
             PROVE  FALSE
  BY DEF LastWhenOne
<1>1. PICK s : s = top[c]
  OBVIOUS
<1>2. /\ s \in Seq(Tagged) /\ Distinct(s) /\ DOMAIN s = 1..Len(s) /\ Len(s) \in Nat
      /\ Len(s) = Cardinality(EndpointsOf(c))
  <2>1. Counted(c)
    BY DEF KernelInv, ChannelInv, Marked
  <2> QED
    BY <1>1, <2>1, FiniteEndpoints DEF KernelInv, TypeOK, FibreInOnePlace, Counted
<1>3. IsFiniteSet(HoldersOf(c)) /\ IsFiniteSet(OnStack(c)) /\ OnStack(c) \subseteq HoldersOf(c)
  <2>1. IsFiniteSet(HoldersOf(c))
    BY KernelAssumption, FS_Subset DEF HoldersOf
  <2>2. ASSUME NEW t \in Elements(top[c])
        PROVE  t.fib \in HoldersOf(c)
    <3>1. t.fib \in Fibre /\ Held(t.fib, c) # {}
      BY SuspendedFibre DEF SuspendedHold
    <3>2. PICK e \in Held(t.fib, c) : TRUE
      BY <3>1
    <3> QED
      BY <3>1, <3>2 DEF Held, EndpointsOf, HoldersOf
  <2>3. OnStack(c) \subseteq HoldersOf(c)
    BY <2>2 DEF OnStack
  <2> QED
    BY <2>1, <2>3, FS_Subset
<1>4. Len(s) <= Cardinality(OnStack(c))
  <2>1. PICK h : h = [i \in 1..Len(s) |-> s[i].fib]
    OBVIOUS
  <2>2. \A i \in 1..Len(s) : s[i] \in Elements(top[c])
    BY <1>1, <1>2 DEF Elements
  <2>3. \A i \in 1..Len(s) : h[i] \in OnStack(c)
    BY <2>1, <2>2 DEF OnStack
  <2>4. ASSUME NEW i \in 1..Len(s), NEW j \in 1..Len(s), h[i] = h[j]
        PROVE  i = j
    <3>1. s[i] = s[j]
      BY <2>1, <2>2, <2>4 DEF KernelInv, FibreInOnePlace
    <3> QED
      BY <1>2, <3>1 DEF Distinct
  <2>5. h \in Injection(1..Len(s), OnStack(c))
    BY <2>1, <2>3, <2>4 DEF Injection, IsInjective
  <2>6. Cardinality(1..Len(s)) <= Cardinality(OnStack(c))
    BY <1>3, <2>5, FS_Injection
  <2>7. PICK n \in Nat : n = Len(s)
    BY <1>2
  <2>8. Cardinality(1..n) = IF 1 > n THEN 0 ELSE n - 1 + 1
    BY FS_Interval
  <2>9. Cardinality(1..n) = n
    BY <2>8
  <2> QED
    BY <2>6, <2>7, <2>9
<1>5. Cardinality(OnStack(c)) + 2 <= Cardinality(HoldersOf(c))
  <2>1. PICK T : T = OnStack(c) \cup {f}
    OBVIOUS
  <2>2. IsFiniteSet(T) /\ Cardinality(T) = Cardinality(OnStack(c)) + 1
    BY <1>3, <2>1, FS_AddElement
  <2>3. /\ IsFiniteSet(T \cup {g})
        /\ Cardinality(T \cup {g}) = Cardinality(T) + 1
    BY <2>1, <2>2, FS_AddElement
  <2>4. T \cup {g} \subseteq HoldersOf(c)
    BY <1>3, <2>1
  <2>5. Cardinality(T \cup {g}) <= Cardinality(HoldersOf(c))
    BY <1>3, <2>4, FS_Subset
  <2>6. Cardinality(OnStack(c)) \in Nat
    BY <1>3, FS_CardinalityType
  <2> QED
    BY <2>2, <2>3, <2>5, <2>6
<1>6. Cardinality(HoldersOf(c)) <= Cardinality(References(c))
  <2>1. PICK h : h = [a \in HoldersOf(c) |->
                        <<a, CHOOSE e \in eprefs[a] : channel[e] = c>>]
    OBVIOUS
  <2>2. ASSUME NEW a \in HoldersOf(c)
        PROVE  h[a] \in References(c) /\ h[a][1] = a
    <3>1. a \in Fibre /\ \E e \in eprefs[a] : channel[e] = c
      BY DEF HoldersOf
    <3>2. PICK d : d = CHOOSE e \in eprefs[a] : channel[e] = c
      OBVIOUS
    <3>3. d \in eprefs[a] /\ channel[d] = c /\ d \in Endpoint
      BY <3>1, <3>2 DEF KernelInv, TypeOK
    <3>4. h[a] = <<a, d>>
      BY <2>1, <3>2
    <3> QED
      BY <3>1, <3>3, <3>4 DEF References
  <2>3. h \in Injection(HoldersOf(c), References(c))
    <3>1. h \in [HoldersOf(c) -> References(c)]
      BY <2>1, <2>2
    <3>2. \A a, b \in HoldersOf(c) : h[a] = h[b] => a = b
      BY <2>2
    <3> QED
      BY <2>1, <3>1, <3>2 DEF Injection, IsInjective
  <2>4. IsFiniteSet(References(c))
    <3>1. IsFiniteSet(Fibre \X Endpoint)
      BY KernelAssumption, FS_Product
    <3> QED
      BY <3>1, FS_Subset DEF References
  <2> QED
    BY <2>3, <2>4, FS_Injection
<1>7. /\ Cardinality(OnStack(c)) \in Nat /\ Cardinality(HoldersOf(c)) \in Nat
      /\ Cardinality(EndpointsOf(c)) \in Nat /\ Cardinality(References(c)) \in Nat
  <2>1. IsFiniteSet(References(c))
    <3>1. IsFiniteSet(Fibre \X Endpoint)
      BY KernelAssumption, FS_Product
    <3> QED
      BY <3>1, FS_Subset DEF References
  <2> QED
    BY <1>3, <2>1, FS_CardinalityType, FiniteEndpoints
<1> QED
  BY <1>2, <1>4, <1>5, <1>6, <1>7

\* However endpoints are shared, whoever meets a count of one is the only fibre
\* left to answer, as long as the fibres hold no more than one reference more
\* than the channel has endpoints.
THEOREM CountOfOneIsLast == Spec => []LastWhenOne
<1>1. Init => KernelInv /\ SuspendedHold
  <2> SUFFICES ASSUME Init PROVE KernelInv /\ SuspendedHold
    OBVIOUS
  <2>1. \A c \in Channel : Elements(top[c]) = {}
    BY DEF Init, Elements
  <2> QED
    BY <2>1, KernelInit DEF SuspendedHold
<1>2. KernelInv /\ SuspendedHold /\ [Next]_vars => (KernelInv /\ SuspendedHold)'
  BY KernelNext, HoldNext
<1>3. KernelInv /\ SuspendedHold => LastWhenOne
  BY LastHolder
<1> QED
  BY <1>1, <1>2, <1>3, PTL DEF Spec

-----------------------------------------------------------------------------
(***************************************************************************)
(* When endpoints are not shared                                           *)
(*                                                                         *)
(* A fibre suspended on a channel holds the endpoint it did its I/O        *)
(* through, and owns it still.  Distinct fibres own distinct endpoints, so *)
(* no more fibres are suspended than there are endpoints, and the count is *)
(* at least one; while some fibre runs or ends that holds one more         *)
(* endpoint, the count is more than one.                                   *)
(***************************************************************************)

\* csp_theory.tex asks that an endpoint is only used by one fibre.  Then no
\* request and no destructor ever meets a channel that was freed: against the
\* same document, no channel is ever freed, for the count does not come down to
\* the one at which the channel would be reclaimed (see ChannelsReclaimed).
NeverFreed ==
  \A c \in Channel : chstate[c] # "unused" => chstate[c] = "live" /\ refcnt[c] > 0

OwnedNeverFreed == ~Sharing => NeverFreed /\ ~ub

\* The endpoints of c that f owns and refers to.
Owned(f, c) == {e \in EndpointsOf(c) : e \in eprefs[f] /\ owner[e] = f}

SuspendedOwn ==
  \A c \in Channel : \A t \in Elements(top[c]) : Owned(t.fib, c) # {}

NeverUb == ~ub

OwnedInv ==
  /\ KernelInv
  /\ NeverUb
  /\ NeverFreed
  /\ SuspendedOwn

\* A channel has no more suspended fibres than they own endpoints.
LEMMA SuspendedBound ==
  ASSUME KernelInv, NEW c \in Channel, NEW T \in SUBSET EndpointsOf(c),
         \A t \in Elements(top[c]) : \E e \in T : owner[e] = t.fib
  PROVE  Len(top[c]) <= Cardinality(T) /\ IsFiniteSet(T)
<1>1. PICK s : s = top[c]
  OBVIOUS
<1>2. s \in Seq(Tagged) /\ Distinct(s) /\ DOMAIN s = 1..Len(s) /\ Len(s) \in Nat
  BY <1>1 DEF KernelInv, TypeOK, FibreInOnePlace
<1>3. \A i \in DOMAIN s : \E e \in T : owner[e] = s[i].fib
  BY <1>1 DEF Elements
<1>4. PICK h : h = [i \in DOMAIN s |-> CHOOSE e \in T : owner[e] = s[i].fib]
  OBVIOUS
<1>5. \A i \in DOMAIN s : h[i] \in T /\ owner[h[i]] = s[i].fib
  BY <1>3, <1>4
<1>6. ASSUME NEW i \in DOMAIN s, NEW j \in DOMAIN s, h[i] = h[j]
      PROVE  i = j
  <2>1. s[i].fib = s[j].fib
    BY <1>5, <1>6
  <2>2. s[i] \in Elements(top[c]) /\ s[j] \in Elements(top[c])
    BY <1>1 DEF Elements
  <2>3. s[i] = s[j]
    BY <2>1, <2>2 DEF KernelInv, FibreInOnePlace
  <2> QED
    BY <1>2, <2>3 DEF Distinct
<1>7. h \in Injection(1..Len(s), T)
  BY <1>2, <1>4, <1>5, <1>6 DEF Injection, IsInjective
<1>8. IsFiniteSet(T)
  BY FiniteEndpoints, FS_Subset
<1>9. Cardinality(1..Len(s)) <= Cardinality(T)
  BY <1>7, <1>8, FS_Injection
<1>10. Cardinality(1..Len(s)) = Len(s)
  <2>1. PICK n \in Nat : n = Len(s)
    BY <1>2
  <2>2. Cardinality(1..n) = IF 1 > n THEN 0 ELSE n - 1 + 1
    BY FS_Interval
  <2>3. Cardinality(1..n) = n
    BY <2>2
  <2> QED
    BY <2>1, <2>3
<1> QED
  BY <1>1, <1>8, <1>9, <1>10

\* A count of zero or one is never met by a fibre that has an endpoint on
\* which no suspended fibre relies.
LEMMA MoreThanOne ==
  ASSUME OwnedInv, NEW c \in Channel, chstate[c] = "live",
         NEW e \in EndpointsOf(c),
         \A t \in Elements(top[c]) : e \notin Owned(t.fib, c)
  PROVE  refcnt[c] \in Nat \ {0, 1}
<1>1. KernelInv
  BY DEF OwnedInv
<1>2. Counted(c) /\ Len(top[c]) \in Nat /\ refcnt[c] \in Nat
  <2>1. refcnt[c] # 0 /\ TypeOK /\ ChannelInv(c)
    BY DEF OwnedInv, KernelInv, NeverFreed
  <2> QED
    BY <2>1 DEF ChannelInv, Marked, TypeOK
<1>3. PICK T : T = EndpointsOf(c) \ {e}
  OBVIOUS
<1>4. \A t \in Elements(top[c]) : \E d \in T : owner[d] = t.fib
  BY <1>3 DEF OwnedInv, SuspendedOwn, Owned
<1>5. Len(top[c]) <= Cardinality(T)
  BY <1>1, <1>3, <1>4, SuspendedBound
<1>6. Cardinality(T) = Cardinality(EndpointsOf(c)) - 1
  BY <1>3, FiniteEndpoints, FS_RemoveElement
<1> QED
  BY <1>2, <1>5, <1>6, FiniteEndpoints DEF Counted

\* What a suspended fibre relies on it keeps, unless an action takes it away.
LEMMA SuspendedOwnKept ==
  ASSUME SuspendedOwn,
         \A c \in Channel : Elements(top'[c]) \subseteq Elements(top[c]),
         \A c \in Channel : \A t \in Elements(top[c]) :
           \A e \in Owned(t.fib, c) :
             e \in Endpoint =>
               channel'[e] = channel[e] /\ e \in eprefs'[t.fib] /\ owner'[e] = owner[e]
  PROVE  SuspendedOwn'
<1> SUFFICES ASSUME NEW c \in Channel, NEW t \in Elements(top'[c])
             PROVE  Owned(t.fib, c)' # {}
  BY DEF SuspendedOwn
<1>1. t \in Elements(top[c])
  OBVIOUS
<1>2. PICK e \in Owned(t.fib, c) : TRUE
  BY <1>1 DEF SuspendedOwn
<1>3. e \in Endpoint /\ channel[e] = c /\ owner[e] = t.fib
  BY <1>2 DEF Owned, EndpointsOf
<1>4. channel'[e] = c /\ e \in eprefs'[t.fib] /\ owner'[e] = t.fib
  BY <1>1, <1>2, <1>3
<1> QED
  BY <1>3, <1>4 DEF Owned, EndpointsOf

LEMMA ConstructOwned ==
  ASSUME OwnedInv, ~Sharing, Running, NEW f \in Fibre,
         NEW copied \in SUBSET Endpoint, NEW moved \in SUBSET Endpoint,
         Construct(f, copied, moved), UNCHANGED <<top, refcnt, chstate, channel, ub>>
  PROVE  NeverUb' /\ NeverFreed' /\ SuspendedOwn'
<1>1. NeverUb' /\ NeverFreed'
  BY DEF OwnedInv, NeverUb, NeverFreed
<1>2. /\ f \notin live
      /\ \A e \in copied \cup moved : owner[e] = current
      /\ eprefs' = [eprefs EXCEPT ![f] = copied \cup moved,
                                 ![current] = @ \ moved]
      /\ owner' = [e \in Endpoint |->
                     IF e \in copied \cup moved THEN f ELSE owner[e]]
  BY DEF Construct
<1>3. ASSUME NEW c \in Channel, NEW t \in Elements(top[c]),
             NEW e \in Owned(t.fib, c), e \in Endpoint
      PROVE  channel'[e] = channel[e] /\ e \in eprefs'[t.fib] /\ owner'[e] = owner[e]
  <2>1. e \in eprefs[t.fib] /\ owner[e] = t.fib
    BY DEF Owned
  <2>2. t.fib # current /\ t.fib # f /\ t.fib \in Fibre
    BY <1>2, SuspendedFibre DEF OwnedInv
  <2>3. eprefs'[t.fib] = eprefs[t.fib]
    BY <1>2, <2>2 DEF OwnedInv, KernelInv, TypeOK
  <2>4. owner'[e] = owner[e]
    BY <1>2, <1>3, <2>1, <2>2
  <2> QED
    BY <2>1, <2>3, <2>4
<1>4. SuspendedOwn'
  BY <1>3, SuspendedOwnKept DEF OwnedInv
<1> QED
  BY <1>1, <1>4

\* A new endpoint is none that a suspended fibre relies on.
LEMMA AcquireOwned ==
  ASSUME OwnedInv, NEW c \in Channel, NEW e \in Endpoint, channel[e] = None,
         channel' = [channel EXCEPT ![e] = c],
         eprefs' = [eprefs EXCEPT ![current] = @ \cup {e}],
         owner' = [owner EXCEPT ![e] = current],
         UNCHANGED top
  PROVE  SuspendedOwn'
<1>1. ASSUME NEW b \in Channel, NEW t \in Elements(top[b]),
             NEW d \in Owned(t.fib, b), d \in Endpoint
      PROVE  channel'[d] = channel[d] /\ d \in eprefs'[t.fib] /\ owner'[d] = owner[d]
  <2>1. d \in eprefs[t.fib] /\ channel[d] = b
    BY DEF Owned, EndpointsOf
  <2>2. d # e
    BY <2>1, KernelAssumption
  <2>3. t.fib \in Fibre
    BY SuspendedFibre DEF OwnedInv
  <2>4. d \in eprefs'[t.fib]
    BY <2>1, <2>3 DEF OwnedInv, KernelInv, TypeOK
  <2> QED
    BY <1>1, <2>2, <2>4 DEF OwnedInv, KernelInv, TypeOK
<1> QED
  BY <1>1, SuspendedOwnKept DEF OwnedInv

\* The endpoint that the running fibre may use is not the last.
LEMMA MayUseOwned ==
  ASSUME OwnedInv, ~Sharing, NEW e \in Endpoint, MayUse(e)
  PROVE  /\ channel[e] \in Channel /\ current \in Fibre
         /\ chstate[channel[e]] = "live"
         /\ e \in Owned(current, channel[e])
         /\ refcnt[channel[e]] \in Nat \ {0, 1}
<1>1. /\ KernelInv /\ Running /\ e \in eprefs[current] /\ owner[e] = current
      /\ chstate[channel[e]] = "live"
  BY DEF MayUse, OwnedInv
<1>2. current \in Fibre
  BY <1>1, RunningFacts
<1>3. PICK c \in Channel : c = channel[e]
  BY <1>1, <1>2, HeldEndpoint
<1>4. e \in EndpointsOf(c)
  BY <1>3 DEF EndpointsOf
<1>5. ASSUME NEW t \in Elements(top[c]) PROVE e \notin Owned(t.fib, c)
  BY <1>1, SuspendedFibre DEF Owned
<1>6. refcnt[c] \in Nat \ {0, 1}
  BY <1>1, <1>3, <1>4, <1>5, MoreThanOne
<1> QED
  BY <1>1, <1>2, <1>3, <1>4, <1>6 DEF Owned

LEMMA PopPeerOwned ==
  ASSUME OwnedInv, ~Sharing, NEW e \in Endpoint, MayUse(e), NEW wr \in BOOLEAN,
         HasPeer(channel[e], wr), PopPeer(channel[e]), UNCHANGED <<objectVars, ub>>
  PROVE  NeverUb' /\ NeverFreed' /\ SuspendedOwn'
<1>1. PICK c \in Channel : c = channel[e]
  BY MayUseOwned
<1>2. /\ TypeOK /\ top[c] # << >>
      /\ top' = [top EXCEPT ![c] = Tail(@)]
      /\ refcnt' = [refcnt EXCEPT ![c] = @ + 1]
  BY <1>1 DEF OwnedInv, KernelInv, HasPeer, PopPeer
<1>3. NeverUb'
  BY DEF OwnedInv, NeverUb
<1>4. NeverFreed'
  BY <1>2 DEF OwnedInv, NeverFreed, objectVars, TypeOK
<1>5. \A d \in Channel : Elements(top'[d]) \subseteq Elements(top[d])
  <2>1. Elements(Tail(top[c])) \subseteq Elements(top[c])
    BY <1>2, PopElements DEF TypeOK
  <2> QED
    BY <1>2, <2>1 DEF TypeOK
<1>6. SuspendedOwn'
  BY <1>5, SuspendedOwnKept DEF OwnedInv, objectVars, Owned
<1> QED
  BY <1>3, <1>4, <1>6

LEMMA SuspendOwned ==
  ASSUME OwnedInv, ~Sharing, NEW e \in Endpoint, MayUse(e), NEW wr \in BOOLEAN,
         Suspend(e, wr)
  PROVE  NeverUb' /\ NeverFreed' /\ SuspendedOwn'
<1>1. PICK c \in Channel : c = channel[e]
  BY MayUseOwned
<1>2. /\ current \in Fibre
      /\ e \in Owned(current, c)
      /\ refcnt[c] \in Nat \ {0, 1}
  BY <1>1, MayUseOwned
<1>3. PICK t : t = [fib |-> current, wr |-> wr]
  OBVIOUS
<1>4. /\ TypeOK
      /\ refcnt' = [refcnt EXCEPT ![c] = @ - 1]
      /\ top' = [top EXCEPT ![c] = <<t>> \o @]
      /\ UNCHANGED <<objectVars, ub>>
  BY <1>1, <1>3 DEF Suspend, OwnedInv, KernelInv
<1>5. NeverUb'
  BY <1>4 DEF OwnedInv, NeverUb
<1>6. NeverFreed'
  <2>1. ASSUME NEW d \in Channel, chstate'[d] # "unused"
        PROVE  chstate'[d] = "live" /\ refcnt'[d] > 0
    BY <1>2, <1>4, <2>1 DEF OwnedInv, NeverFreed, objectVars, TypeOK
  <2> QED
    BY <2>1 DEF NeverFreed
<1>7. /\ Elements(top'[c]) = Elements(top[c]) \cup {t}
      /\ \A d \in Channel \ {c} : top'[d] = top[d]
  <2>1. t \in Tagged /\ top[c] \in Seq(Tagged)
    BY <1>2, <1>3, <1>4 DEF Tagged, TypeOK
  <2>2. Elements(<<t>> \o top[c]) = Elements(top[c]) \cup {t}
    BY <2>1, PushElements
  <2> QED
    BY <1>4, <2>2 DEF TypeOK
<1>8. ASSUME NEW d \in Channel, NEW u \in Elements(top'[d])
      PROVE  Owned(u.fib, d)' # {}
  <2>1. Owned(u.fib, d)' = Owned(u.fib, d)
    BY <1>4 DEF Owned, EndpointsOf, objectVars
  <2>2. CASE u \in Elements(top[d])
    BY <2>1, <2>2 DEF OwnedInv, SuspendedOwn
  <2>3. CASE u \notin Elements(top[d])
    <3>1. d = c /\ u = t
      BY <1>7, <2>3
    <3> QED
      BY <1>2, <1>3, <2>1, <3>1
  <2> QED
    BY <2>2, <2>3
<1> QED
  BY <1>5, <1>6, <1>8 DEF SuspendedOwn

\* A fibre that gives up a reference is not suspended, and it relies on no
\* endpoint that a suspended fibre does.
LEMMA ReleaseOwned ==
  ASSUME OwnedInv, NEW f \in Fibre, NEW e \in Endpoint, Release(f, e),
         \A c \in Channel : f \notin OnStack(c)
  PROVE  NeverUb' /\ NeverFreed' /\ SuspendedOwn'
<1>1. KernelInv /\ TypeOK /\ e \in eprefs[f]
  BY DEF OwnedInv, KernelInv, Release, DropReference, DeleteEndpoint
<1>2. PICK c \in Channel : c = channel[e]
  BY <1>1, HeldEndpoint
<1>3. \A d \in Channel : \A t \in Elements(top[d]) : t.fib \in Fibre \ {f}
  BY <1>1, SuspendedFibre
<1>4. CASE DropReference(f, e)
  <2>1. /\ eprefs' = [eprefs EXCEPT ![f] = @ \ {e}]
        /\ UNCHANGED <<top, chstate, refcnt, channel, owner, ub>>
    BY <1>4 DEF DropReference
  <2>2. NeverUb' /\ NeverFreed'
    BY <2>1 DEF OwnedInv, NeverUb, NeverFreed
  <2>3. \A g \in Fibre \ {f} : eprefs'[g] = eprefs[g]
    BY <1>1, <2>1 DEF TypeOK
  <2>4. SuspendedOwn'
    BY <1>3, <2>1, <2>3, SuspendedOwnKept DEF OwnedInv, Owned
  <2> QED
    BY <2>2, <2>4
<1>5. CASE DeleteEndpoint(f, e)
  <2>1. /\ eprefcnt[e] = 1 /\ chstate[c] = "live"
        /\ eprefs' = [eprefs EXCEPT ![f] = @ \ {e}]
        /\ channel' = [channel EXCEPT ![e] = None]
        /\ DeleteChannel(c) \/ LeaveDeletedChannel(c) \/ LeaveChannel(c)
        /\ UNCHANGED <<chstate, owner, ub>>
    BY <1>2, <1>5 DEF DeleteEndpoint
  <2>2. \A g \in Fibre \ {f} : e \notin eprefs[g]
    <3>1. Cardinality(Holders(e)) = 1 /\ f \in Holders(e)
      BY <1>1, <2>1 DEF KernelInv, EndpointRefs, Holders
    <3>2. PICK g : Holders(e) = {g}
      BY <3>1, FiniteHolders, FS_Singleton
    <3> QED
      BY <3>1, <3>2 DEF Holders
  <2>3. \A d \in Channel : \A t \in Elements(top[d]) : e \notin Owned(t.fib, d)
    BY <1>3, <2>2 DEF Owned
  <2>4. refcnt[c] \in Nat \ {0, 1}
    BY <1>2, <2>1, <2>3, MoreThanOne DEF EndpointsOf
  <2>5. refcnt' = [refcnt EXCEPT ![c] = @ - 1] /\ UNCHANGED top
    BY <2>1, <2>4 DEF DeleteChannel, LeaveDeletedChannel, LeaveChannel
  <2>6. NeverUb' /\ NeverFreed'
    BY <1>1, <2>1, <2>4, <2>5
       DEF OwnedInv, NeverUb, NeverFreed, TypeOK
  <2>7. /\ \A g \in Fibre \ {f} : eprefs'[g] = eprefs[g]
        /\ \A d \in Endpoint \ {e} : channel'[d] = channel[d]
    BY <1>1, <2>1 DEF TypeOK
  <2>8. ASSUME NEW d \in Channel, NEW t \in Elements(top[d]),
               NEW b \in Owned(t.fib, d), b \in Endpoint
        PROVE  channel'[b] = channel[b] /\ b \in eprefs'[t.fib] /\ owner'[b] = owner[b]
    <3>1. b # e /\ b \in eprefs[t.fib]
      BY <2>3 DEF Owned
    <3> QED
      BY <1>3, <2>1, <2>7, <2>8, <3>1
  <2>9. SuspendedOwn'
    BY <2>5, <2>8, SuspendedOwnKept DEF OwnedInv
  <2> QED
    BY <2>6, <2>9
<1> QED
  BY <1>4, <1>5 DEF Release

LEMMA SameOwned ==
  ASSUME OwnedInv, UNCHANGED <<top, refcnt, objectVars, ub>>
  PROVE  NeverUb' /\ NeverFreed' /\ SuspendedOwn'
<1>1. NeverUb' /\ NeverFreed'
  BY DEF OwnedInv, NeverUb, NeverFreed, objectVars
<1>2. SuspendedOwn'
  BY SuspendedOwnKept DEF OwnedInv, objectVars, Owned
<1> QED
  BY <1>1, <1>2

LEMMA OwnedNext ==
  ASSUME OwnedInv, ~Sharing, [Next]_vars
  PROVE  OwnedInv'
<1> USE DEF OwnedInv
<1>1. KernelInv'
  BY KernelNext
<1> SUFFICES NeverUb' /\ NeverFreed' /\ SuspendedOwn'
  BY <1>1
<1>2. ASSUME NEW f \in Fibre, NEW copied \in SUBSET Endpoint,
             NEW moved \in SUBSET Endpoint,
             SpawnFibre(f, copied, moved) \/ SpawnFibreDeferred(f, copied, moved)
      PROVE  NeverUb' /\ NeverFreed' /\ SuspendedOwn'
  BY <1>2, ConstructOwned DEF SpawnFibre, SpawnFibreDeferred
<1>3. CASE Suicide
  BY <1>3, SameOwned DEF Suicide
<1>4. ASSUME NEW c \in Channel, NEW e \in Endpoint, MakeChannel(c, e)
      PROVE  NeverUb' /\ NeverFreed' /\ SuspendedOwn'
  <2>1. NeverUb' /\ NeverFreed'
    <3>1. /\ TypeOK
          /\ chstate' = [chstate EXCEPT ![c] = "live"]
          /\ refcnt' = [refcnt EXCEPT ![c] = 2]
          /\ UNCHANGED ub
      BY <1>4 DEF MakeChannel, InitialRefcnt, KernelInv
    <3> QED
      BY <3>1 DEF NeverUb, NeverFreed, TypeOK
  <2>2. SuspendedOwn'
    BY <1>4, AcquireOwned DEF MakeChannel
  <2> QED
    BY <2>1, <2>2
<1>5. ASSUME NEW e \in Endpoint, NEW d \in Endpoint, Dup(e, d)
      PROVE  NeverUb' /\ NeverFreed' /\ SuspendedOwn'
  <2>1. Running /\ e \in eprefs[current] /\ current \in Fibre
    BY <1>5, RunningFacts DEF Dup
  <2>2. PICK c \in Channel : c = channel[e]
    BY <2>1, HeldEndpoint
  <2>3. NeverUb' /\ NeverFreed'
    <3>1. /\ TypeOK
          /\ refcnt' = [refcnt EXCEPT ![c] = @ + 1]
          /\ UNCHANGED <<chstate, ub>>
      BY <1>5, <2>2 DEF Dup, KernelInv
    <3> QED
      BY <3>1 DEF NeverUb, NeverFreed, TypeOK
  <2>4. SuspendedOwn'
    BY <1>5, <2>2, AcquireOwned DEF Dup
  <2> QED
    BY <2>3, <2>4
<1>6. ASSUME NEW e \in Endpoint, Read(e)
      PROVE  NeverUb' /\ NeverFreed' /\ SuspendedOwn'
  <2>1. MayUse(e) /\ ~Abandon(e)
    BY <1>6, MayUseOwned DEF Read, Abandon
  <2> QED
    BY <1>6, <2>1, PopPeerOwned, SuspendOwned DEF Read
<1>7. ASSUME NEW e \in Endpoint, Write(e)
      PROVE  NeverUb' /\ NeverFreed' /\ SuspendedOwn'
  <2>1. MayUse(e) /\ ~Abandon(e)
    BY <1>7, MayUseOwned DEF Write, Abandon
  <2> QED
    BY <1>7, <2>1, PopPeerOwned, SuspendOwned DEF Write
<1>8. ASSUME NEW e \in Endpoint, Discard(e)
      PROVE  NeverUb' /\ NeverFreed' /\ SuspendedOwn'
  <2>1. Running /\ Release(current, e)
    BY <1>8 DEF Discard
  <2>2. current \in Fibre /\ \A c \in Channel : current \notin OnStack(c)
    BY <2>1, RunningFacts
  <2> QED
    BY <2>1, <2>2, ReleaseOwned
<1>9. ASSUME NEW f \in Fibre, NEW e \in eprefs[f]
      PROVE  chstate[channel[e]] # "freed"
  BY HeldEndpoint DEF NeverFreed
<1>10. CASE UseStaleEndpoint
  <2>1. Running
    BY <1>10 DEF UseStaleEndpoint
  <2>2. current \in Fibre
    BY <2>1, RunningFacts
  <2> QED
    BY <1>9, <1>10, <2>2 DEF UseStaleEndpoint
<1>11. ASSUME NEW f \in Fibre, NEW e \in Endpoint, Deleting(f), Release(f, e)
       PROVE  NeverUb' /\ NeverFreed' /\ SuspendedOwn'
  <2>1. f \in Dying
    <3>1. unwind \in Seq(Frame) /\ unwind # << >> /\ Head(unwind) = DeleteFibre(f)
      BY <1>11 DEF Deleting, Unwinding, KernelInv, TypeOK
    <3> QED
      BY <3>1, PopElements DEF Dying
  <2>2. \A c \in Channel : f \notin OnStack(c)
    BY <2>1 DEF KernelInv, FibreInOnePlace
  <2> QED
    BY <1>11, <2>2, ReleaseOwned
<1>12. ASSUME NEW f \in Fibre, FreeFibre(f)
       PROVE  NeverUb' /\ NeverFreed' /\ SuspendedOwn'
  BY <1>12, SameOwned DEF FreeFibre
<1>13. ASSUME NEW f \in Fibre, DeleteStaleEndpoint(f) PROVE FALSE
  BY <1>9, <1>13 DEF DeleteStaleEndpoint
<1>14. ASSUME NEW c \in Channel, FreeChannel(c) PROVE FALSE
  <2>1. /\ unwind \in Seq(Frame) /\ unwind # << >>
        /\ Head(unwind) = DeleteChannelObject(c)
    BY <1>14 DEF FreeChannel, Unwinding, KernelInv, TypeOK
  <2>2. DeleteChannelObject(c) \in Elements(unwind)
    BY <2>1, PopElements
  <2>3. chstate[c] = "live" /\ refcnt[c] = 0
    BY <2>2 DEF KernelInv, ChannelInv, Marked, Counted
  <2> QED
    BY <2>3 DEF NeverFreed
<1>15. CASE Unwind
  BY <1>11, <1>12, <1>13, <1>14, <1>15 DEF Unwind
<1>16. CASE UNCHANGED vars
  BY <1>16, SameOwned DEF vars
<1> QED
  BY <1>2, <1>3, <1>4, <1>5, <1>6, <1>7, <1>8, <1>10, <1>15, <1>16 DEF Next

LEMMA OwnedInit ==
  ASSUME Init
  PROVE  OwnedInv
<1>1. \A c \in Channel : Elements(top[c]) = {}
  BY DEF Init, Elements
<1> QED
  BY <1>1, KernelInit
     DEF Init, OwnedInv, NeverUb, NeverFreed, SuspendedOwn

LEMMA OwnedStep == (Sharing \/ OwnedInv) /\ [Next]_vars => (Sharing \/ OwnedInv)'
<1>1. ASSUME [Next]_vars PROVE program' = program
  BY <1>1 DEF Next, vars
<1> QED
  BY <1>1, OwnedNext DEF Sharing

\* While each endpoint is used by its owner only, no channel is ever freed, and so
\* none is used after it was: read, write and ~channel_endpoint_t never find the
\* count of one at which csp_theory.tex has the channel and the fibres suspended
\* on it deleted.
THEOREM OwnedChannelsStay == Spec => []OwnedNeverFreed
<1>1. Sharing \/ OwnedInv => OwnedNeverFreed
  BY DEF OwnedInv, NeverUb, OwnedNeverFreed
<1> QED
  BY <1>1, OwnedInit, OwnedStep, PTL DEF Spec

-----------------------------------------------------------------------------
(***************************************************************************)
(* Destructors return                                                      *)
(***************************************************************************)

LiveChannels == {c \in Channel : chstate[c] = "live"}
AllReferences == {p \in Fibre \X Endpoint : p[2] \in eprefs[p[1]]}

\* What is left to destroy is counted by natural numbers.
LEMMA RemainingParts ==
  ASSUME IsFiniteSet(Channel), TypeOK
  PROVE  /\ IsFiniteSet(live) /\ Cardinality(live) \in Nat
         /\ IsFiniteSet(LiveChannels) /\ Cardinality(LiveChannels) \in Nat
         /\ IsFiniteSet(AllReferences) /\ Cardinality(AllReferences) \in Nat
         /\ Remaining = Cardinality(live) + Cardinality(LiveChannels)
                        + Cardinality(AllReferences)
<1>1. IsFiniteSet(Fibre \X Endpoint)
  BY KernelAssumption, FS_Product
<1>2. /\ live \subseteq Fibre /\ LiveChannels \subseteq Channel
      /\ AllReferences \subseteq Fibre \X Endpoint
  BY DEF TypeOK, LiveChannels, AllReferences
<1>3. IsFiniteSet(live) /\ IsFiniteSet(LiveChannels) /\ IsFiniteSet(AllReferences)
  BY <1>1, <1>2, KernelAssumption, FS_Subset
<1> QED
  BY <1>3, FS_CardinalityType DEF Remaining, LiveChannels, AllReferences

\* A destructor's step leaves one object or reference less.
LEMMA UnwindStep ==
  ASSUME IsFiniteSet(Channel), KernelInv, KernelInv', Next, Unwinding, ~ub'
  PROVE  Remaining' < Remaining
<1>1. ~Running /\ TypeOK /\ TypeOK'
  BY DEF Unwinding, Running, KernelInv
<1>2. Unwind
  BY <1>1 DEF Next, SpawnFibre, SpawnFibreDeferred, Suicide, MakeChannel, Dup,
              Read, Write, MayUse, Discard, UseStaleEndpoint
<1>3. /\ IsFiniteSet(live) /\ Cardinality(live) \in Nat
      /\ IsFiniteSet(LiveChannels) /\ Cardinality(LiveChannels) \in Nat
      /\ IsFiniteSet(AllReferences) /\ Cardinality(AllReferences) \in Nat
      /\ Remaining = Cardinality(live) + Cardinality(LiveChannels)
                     + Cardinality(AllReferences)
  BY <1>1, RemainingParts
<1>4. Remaining' = Cardinality(live)' + Cardinality(LiveChannels)'
                   + Cardinality(AllReferences)'
  BY DEF Remaining, LiveChannels, AllReferences
<1>5. ASSUME NEW f \in Fibre, NEW e \in Endpoint, Release(f, e)
      PROVE  Remaining' < Remaining
  <2>1. /\ e \in eprefs[f] /\ eprefs' = [eprefs EXCEPT ![f] = @ \ {e}]
        /\ UNCHANGED <<live, chstate>>
    BY <1>5 DEF Release, DropReference, DeleteEndpoint
  <2>2. AllReferences' = AllReferences \ {<<f, e>>} /\ <<f, e>> \in AllReferences
    BY <1>1, <2>1 DEF AllReferences, TypeOK
  <2>3. Cardinality(AllReferences') = Cardinality(AllReferences) - 1
    BY <1>3, <2>2, FS_RemoveElement
  <2>4. LiveChannels' = LiveChannels
    BY <2>1 DEF LiveChannels
  <2> QED
    BY <1>3, <1>4, <2>1, <2>3, <2>4
<1>6. ASSUME NEW f \in Fibre, FreeFibre(f)
      PROVE  Remaining' < Remaining
  <2>1. /\ live' = live \ {f} /\ UNCHANGED <<chstate, eprefs>>
        /\ unwind \in Seq(Frame) /\ unwind # << >> /\ Head(unwind) = DeleteFibre(f)
    BY <1>1, <1>6
       DEF FreeFibre, Deleting, Unwinding, objectVars, TypeOK
  <2>2. f \in Dying
    BY <2>1, PopElements DEF Dying
  <2>3. f \in live
    BY <2>2 DEF KernelInv, FibreInOnePlace
  <2>4. Cardinality(live') = Cardinality(live) - 1
    BY <1>3, <2>1, <2>3, FS_RemoveElement
  <2>5. LiveChannels' = LiveChannels /\ AllReferences' = AllReferences
    BY <2>1 DEF LiveChannels, AllReferences
  <2> QED
    BY <1>3, <1>4, <2>4, <2>5
<1>7. ASSUME NEW c \in Channel, FreeChannel(c)
      PROVE  Remaining' < Remaining
  <2>1. /\ chstate' = [chstate EXCEPT ![c] = "freed"] /\ UNCHANGED <<live, eprefs>>
        /\ unwind \in Seq(Frame) /\ unwind # << >>
        /\ Head(unwind) = DeleteChannelObject(c)
    BY <1>1, <1>7 DEF FreeChannel, Unwinding, TypeOK
  <2>2. DeleteChannelObject(c) \in Elements(unwind)
    BY <2>1, PopElements
  <2>3. chstate[c] = "live"
    BY <2>2 DEF KernelInv, ChannelInv
  <2>4. LiveChannels' = LiveChannels \ {c} /\ c \in LiveChannels
    BY <1>1, <2>1, <2>3 DEF LiveChannels, TypeOK
  <2>5. Cardinality(LiveChannels') = Cardinality(LiveChannels) - 1
    BY <1>3, <2>4, FS_RemoveElement
  <2>6. AllReferences' = AllReferences
    BY <2>1 DEF AllReferences
  <2> QED
    BY <1>3, <1>4, <2>1, <2>5, <2>6
<1>8. ASSUME NEW f \in Fibre, DeleteStaleEndpoint(f) PROVE FALSE
  BY <1>8 DEF DeleteStaleEndpoint
<1> QED
  BY <1>2, <1>5, <1>6, <1>7, <1>8 DEF Unwind

\* However destructors nest, a fibre that ends makes only finitely many of them
\* run: each of their steps destroys something, and they make nothing.
THEOREM DestructorsReturn ==
  ASSUME IsFiniteSet(Channel)
  PROVE  Spec => UnwindTerminates
<1>1. KernelInv /\ KernelInv' /\ [Next]_vars
        => [Unwinding /\ ~ub' => Remaining' < Remaining]_vars
  BY UnwindStep
<1> QED
  BY <1>1, KernelInvariant, PTL DEF Spec, UnwindTerminates

-----------------------------------------------------------------------------
(***************************************************************************)
(* The promise of CSPModel                                                 *)
(*                                                                         *)
(* KernelInv rules out the steps CSPModel does not have: OnePolarity, that *)
(* a fibre waits although one waits to do the opposite, FibreInOnePlace,   *)
(* that deleting a channel deletes a fibre which is ready.                 *)
(***************************************************************************)

\* The model's variables, and that a step leaves them alone.
Promised == <<ReadyFibres, WaitingTo(FALSE), WaitingTo(TRUE)>>

-----------------------------------------------------------------------------
(***************************************************************************)
(* What the lists say of the model's variables                             *)
(***************************************************************************)

\* A fibre the model knows of exists.
LEMMA KnownFibres ==
  ASSUME KernelInv, NEW f, f \notin live
  PROVE  /\ f \notin ReadyFibres
         /\ \A wr \in BOOLEAN, c \in Channel : f \notin WaitingTo(wr)[c]
<1>1. f \notin ReadyFibres
  BY DEF ReadyFibres, KernelInv, FibreInOnePlace
<1>2. ASSUME NEW wr \in BOOLEAN, NEW c \in Channel, f \in WaitingTo(wr)[c]
      PROVE  FALSE
  <2>1. [fib |-> f, wr |-> wr] \in Elements(top[c])
    BY <1>2 DEF WaitingTo
  <2>2. f \in OnStack(c)
    BY <2>1 DEF OnStack
  <2> QED
    BY <2>2 DEF KernelInv, FibreInOnePlace
<1> QED
  BY <1>1, <1>2

\* While a fibre runs, no fibre is being deleted.
LEMMA ReadyWhileRunning ==
  ASSUME KernelInv, Running
  PROVE  ReadyFibres = Ready \cup {current} /\ current \in ReadyFibres
BY RunningFacts, KernelAssumption DEF ReadyFibres

\* The lists of the channels are the same.
LEMMA SameWaiting ==
  ASSUME UNCHANGED top
  PROVE  \A wr : WaitingTo(wr)' = WaitingTo(wr)
BY DEF WaitingTo

\* A request taken from a channel is one the model has, and no other.
LEMMA PopWaiting ==
  ASSUME KernelInv, NEW c \in Channel, NEW wr \in BOOLEAN, HasPeer(c, wr),
         PopPeer(c)
  PROVE  /\ Head(top[c]).fib \in WaitingTo(wr)[c]
         /\ WaitingTo(wr)' =
              [WaitingTo(wr) EXCEPT ![c] = @ \ {Head(top[c]).fib}]
         /\ \A w \in BOOLEAN : w # wr => WaitingTo(w)' = WaitingTo(w)
<1>1. PICK h : h = Head(top[c])
  OBVIOUS
<1>2. PICK s : s = Tail(top[c])
  OBVIOUS
<1>3. /\ TypeOK /\ top[c] # << >> /\ h.wr = wr
      /\ top[c] \in Seq(Tagged) /\ Distinct(top[c])
      /\ top' = [top EXCEPT ![c] = s]
  BY <1>1, <1>2 DEF KernelInv, TypeOK, FibreInOnePlace, HasPeer, PopPeer
<1>4. /\ h \in Tagged /\ s \in Seq(Tagged)
      /\ Elements(top[c]) = Elements(s) \cup {h}
      /\ h \notin Elements(s)
  BY <1>1, <1>2, <1>3, PopElements
<1>5. top'[c] = s /\ \A d \in Channel \ {c} : top'[d] = top[d]
  BY <1>3, <1>4, StackElements
<1>6. h = [fib |-> h.fib, wr |-> wr] /\ h.fib \in Fibre
  BY <1>3, <1>4 DEF Tagged
<1>7. ASSUME NEW f \in Fibre, NEW w \in BOOLEAN
      PROVE  [fib |-> f, wr |-> w] \in Elements(s)
               <=> /\ [fib |-> f, wr |-> w] \in Elements(top[c])
                   /\ ~(f = h.fib /\ w = wr)
  <2>1. [fib |-> f, wr |-> w] = h <=> f = h.fib /\ w = wr
    BY <1>6
  <2> QED
    BY <1>4, <2>1
<1>8. ASSUME NEW d \in Channel, NEW w \in BOOLEAN
      PROVE  WaitingTo(w)'[d] = IF d = c /\ w = wr THEN WaitingTo(w)[d] \ {h.fib}
                                ELSE WaitingTo(w)[d]
  <2>1. /\ WaitingTo(w)[d] = {f \in Fibre : [fib |-> f, wr |-> w] \in Elements(top[d])}
        /\ WaitingTo(w)'[d] = {f \in Fibre : [fib |-> f, wr |-> w] \in Elements(top'[d])}
    BY DEF WaitingTo, Elements
  <2>2. CASE d = c
    BY <1>5, <1>7, <2>1, <2>2
  <2>3. CASE d # c
    BY <1>5, <2>1, <2>3
  <2> QED
    BY <2>2, <2>3
<1>9. h.fib \in WaitingTo(wr)[c]
  BY <1>4, <1>6 DEF WaitingTo
<1>10. \A w : /\ WaitingTo(w) \in [Channel -> SUBSET Fibre]
              /\ WaitingTo(w)' \in [Channel -> SUBSET Fibre]
  BY DEF WaitingTo
<1>11. WaitingTo(wr)' = [WaitingTo(wr) EXCEPT ![c] = @ \ {h.fib}]
  <2>1. PICK W \in [Channel -> SUBSET Fibre] : W = WaitingTo(wr)
    BY <1>10
  <2>2. PICK V \in [Channel -> SUBSET Fibre] : V = WaitingTo(wr)'
    BY <1>10
  <2>3. \A d \in Channel : V[d] = IF d = c THEN W[d] \ {h.fib} ELSE W[d]
    BY <1>8, <2>1, <2>2
  <2>4. V = [W EXCEPT ![c] = @ \ {h.fib}]
    BY <2>3
  <2> QED
    BY <2>1, <2>2, <2>4
<1>12. ASSUME NEW w \in BOOLEAN, w # wr
       PROVE  WaitingTo(w)' = WaitingTo(w)
  <2>1. \A d \in Channel : WaitingTo(w)'[d] = WaitingTo(w)[d]
    BY <1>8, <1>12
  <2> QED
    BY <1>10, <2>1
<1> QED
  BY <1>1, <1>9, <1>11, <1>12

\* A request left on a channel is one more the model has.
LEMMA PushWaiting ==
  ASSUME KernelInv, NEW c \in Channel, NEW wr \in BOOLEAN, NEW g \in Fibre,
         top' = [top EXCEPT ![c] = <<[fib |-> g, wr |-> wr]>> \o @]
  PROVE  /\ WaitingTo(wr)' = [WaitingTo(wr) EXCEPT ![c] = @ \cup {g}]
         /\ \A w \in BOOLEAN : w # wr => WaitingTo(w)' = WaitingTo(w)
<1>1. PICK t : t = [fib |-> g, wr |-> wr]
  OBVIOUS
<1>2. PICK s : s = <<t>> \o top[c]
  OBVIOUS
<1>3. TypeOK /\ t \in Tagged /\ top[c] \in Seq(Tagged) /\ top' = [top EXCEPT ![c] = s]
  BY <1>1, <1>2 DEF KernelInv, TypeOK, Tagged
<1>4. s \in Seq(Tagged) /\ Elements(s) = Elements(top[c]) \cup {t}
  BY <1>2, <1>3, PushElements
<1>5. top'[c] = s /\ \A d \in Channel \ {c} : top'[d] = top[d]
  BY <1>3, <1>4, StackElements
<1>6. ASSUME NEW f \in Fibre, NEW w \in BOOLEAN
      PROVE  [fib |-> f, wr |-> w] \in Elements(s)
               <=> \/ [fib |-> f, wr |-> w] \in Elements(top[c])
                   \/ f = g /\ w = wr
  <2>1. [fib |-> f, wr |-> w] = t <=> f = g /\ w = wr
    BY <1>1
  <2> QED
    BY <1>4, <2>1
<1>7. ASSUME NEW d \in Channel, NEW w \in BOOLEAN
      PROVE  WaitingTo(w)'[d] = IF d = c /\ w = wr THEN WaitingTo(w)[d] \cup {g}
                                ELSE WaitingTo(w)[d]
  <2>1. /\ WaitingTo(w)[d] = {f \in Fibre : [fib |-> f, wr |-> w] \in Elements(top[d])}
        /\ WaitingTo(w)'[d] = {f \in Fibre : [fib |-> f, wr |-> w] \in Elements(top'[d])}
    BY DEF WaitingTo, Elements
  <2>2. CASE d = c
    <3>1. \A f \in Fibre : f \in WaitingTo(w)'[d]
                           <=> f \in WaitingTo(w)[d] \/ (f = g /\ w = wr)
      BY <1>5, <1>6, <2>1, <2>2
    <3>2. WaitingTo(w)[d] \subseteq Fibre /\ WaitingTo(w)'[d] \subseteq Fibre
      BY <2>1
    <3> QED
      BY <2>2, <3>1, <3>2
  <2>3. CASE d # c
    BY <1>5, <2>1, <2>3
  <2> QED
    BY <2>2, <2>3
<1>8. \A w : /\ WaitingTo(w) \in [Channel -> SUBSET Fibre]
             /\ WaitingTo(w)' \in [Channel -> SUBSET Fibre]
  BY DEF WaitingTo
<1>9. WaitingTo(wr)' = [WaitingTo(wr) EXCEPT ![c] = @ \cup {g}]
  <2>1. PICK W \in [Channel -> SUBSET Fibre] : W = WaitingTo(wr)
    BY <1>8
  <2>2. PICK V \in [Channel -> SUBSET Fibre] : V = WaitingTo(wr)'
    BY <1>8
  <2>3. \A d \in Channel : V[d] = IF d = c THEN W[d] \cup {g} ELSE W[d]
    BY <1>7, <2>1, <2>2
  <2>4. V = [W EXCEPT ![c] = @ \cup {g}]
    BY <2>3
  <2> QED
    BY <2>1, <2>2, <2>4
<1>10. ASSUME NEW w \in BOOLEAN, w # wr
       PROVE  WaitingTo(w)' = WaitingTo(w)
  <2>1. \A d \in Channel : WaitingTo(w)'[d] = WaitingTo(w)[d]
    BY <1>7, <1>10
  <2> QED
    BY <1>8, <2>1
<1> QED
  BY <1>9, <1>10

\* When no fibre waits at the top of a channel to do the opposite, none does
\* anywhere on it.
LEMMA NobodyWaits ==
  ASSUME KernelInv, NEW c \in Channel, NEW wr \in BOOLEAN, ~HasPeer(c, wr)
  PROVE  WaitingTo(wr)[c] = {}
<1> SUFFICES ASSUME NEW f \in Fibre, [fib |-> f, wr |-> wr] \in Elements(top[c])
             PROVE  FALSE
  BY DEF WaitingTo
<1>1. top[c] \in Seq(Tagged) /\ top[c] # << >>
  BY DEF KernelInv, TypeOK, Elements
<1>2. Head(top[c]) \in Elements(top[c])
  BY <1>1, PopElements
<1>3. Head(top[c]).wr = wr
  BY <1>2 DEF KernelInv, OnePolarity
<1> QED
  BY <1>1, <1>3 DEF HasPeer

-----------------------------------------------------------------------------
(***************************************************************************)
(* What each action is in the model                                        *)
(***************************************************************************)

LEMMA RefinementInit == Init => Model!ModelInit
<1> SUFFICES ASSUME Init PROVE Model!ModelInit
  OBVIOUS
<1>1. Elements(active) = {} /\ Elements(unwind) = {}
  BY DEF Init, Elements
<1>2. ReadyFibres = {current} /\ current \in Fibre
  BY <1>1, KernelAssumption DEF Init, ReadyFibres, Ready, Dying
<1>3. \A wr \in BOOLEAN : WaitingTo(wr) = [c \in Channel |-> {}]
  BY DEF Init, WaitingTo, Elements
<1> QED
  BY <1>2, <1>3 DEF Model!ModelInit

\* A spawn, at once or deferred.
LEMMA SpawnRefines ==
  ASSUME KernelInv, NEW f \in Fibre, NEW copied \in SUBSET Endpoint,
         NEW moved \in SUBSET Endpoint,
         SpawnFibre(f, copied, moved) \/ SpawnFibreDeferred(f, copied, moved)
  PROVE  Model!SpawnOne(f)
<1>1. /\ Running /\ f \notin live /\ UNCHANGED <<top, unwind>>
      /\ active \in Seq(Fibre)
  BY DEF SpawnFibre, SpawnFibreDeferred, Construct, KernelInv, TypeOK
<1>2. current \in Fibre /\ Dying = {} /\ Dying' = {}
  BY <1>1, RunningFacts DEF Dying
<1>3. ReadyFibres = Ready \cup {current} /\ current \in ReadyFibres
  BY <1>1, ReadyWhileRunning
<1>4. ReadyFibres' = ReadyFibres \cup {f}
  <2>1. ({current'} \ {None}) \cup Ready' = Ready \cup {current, f}
    <3>1. CASE SpawnFibre(f, copied, moved)
      <4>1. Ready' = Ready \cup {current} /\ current' = f
        BY <1>1, <1>2, <3>1, PushElements DEF SpawnFibre, Ready
      <4> QED
        BY <4>1, KernelAssumption
    <3>2. CASE SpawnFibreDeferred(f, copied, moved)
      <4>1. Ready' = Ready \cup {f} /\ current' = current
        BY <1>1, <3>2, PushElements DEF SpawnFibreDeferred, Ready
      <4> QED
        BY <1>2, <4>1, KernelAssumption
    <3> QED
      BY <3>1, <3>2
  <2>2. ReadyFibres' = (({current'} \ {None}) \cup Ready') \ Dying'
    BY DEF ReadyFibres
  <2> QED
    BY <1>2, <1>3, <2>1, <2>2
<1>5. /\ f \notin ReadyFibres
      /\ \A c \in Channel : f \notin WaitingTo(FALSE)[c] \cup WaitingTo(TRUE)[c]
  BY <1>1, KnownFibres
<1>6. f \notin Model!Waiting
  BY <1>5 DEF Model!Waiting
<1> QED
  BY <1>1, <1>3, <1>4, <1>5, <1>6, SameWaiting DEF Model!SpawnOne

\* The fibre that runs ends.
LEMMA SuicideRefines ==
  ASSUME KernelInv, Suicide
  PROVE  Model!End(current)
<1>1. /\ Running /\ unwind' = <<DeleteFibre(current)>>
      /\ UNCHANGED <<current, active, top>>
  BY DEF Suicide
<1>2. current \in Fibre /\ Dying = {}
  BY <1>1, RunningFacts
<1>3. Dying' = {current}
  BY <1>1, <1>2, OneFrame DEF Dying, DeleteFibre
<1>4. ReadyFibres' = ReadyFibres \ {current} /\ current \in ReadyFibres
  BY <1>1, <1>2, <1>3, ReadyWhileRunning DEF ReadyFibres, Ready
<1> QED
  BY <1>1, <1>4, SameWaiting DEF Model!End

\* The fibre that makes a request nobody can answer ends.
LEMMA AbandonRefines ==
  ASSUME KernelInv, NEW e \in Endpoint, MayUse(e), Abandon(e)
  PROVE  Model!End(current)
<1>1. /\ Running /\ PopActive /\ unwind' = <<DeleteFibre(current)>>
      /\ UNCHANGED top
  BY DEF MayUse, Abandon
<1>2. /\ current \in Fibre /\ Dying = {} /\ current \notin Ready
      /\ TypeOK /\ Distinct(active)
  BY <1>1, RunningFacts DEF KernelInv, FibreInOnePlace
<1>3. Dying' = {current}
  BY <1>1, <1>2, OneFrame DEF Dying, DeleteFibre
<1>4. Ready = Ready' \cup ({current'} \ {None})
  BY <1>1, <1>2, PopActiveFacts DEF Ready
<1>5. ReadyFibres' = ReadyFibres \ {current} /\ current \in ReadyFibres
  <2>1. ReadyFibres' = (({current'} \ {None}) \cup Ready') \ Dying'
    BY DEF ReadyFibres
  <2> QED
    BY <1>1, <1>2, <1>3, <1>4, <2>1, ReadyWhileRunning
<1> QED
  BY <1>1, <1>5, SameWaiting DEF Model!End

\* A fibre that is suspended leaves the ready ones and waits.
LEMMA SuspendFacts ==
  ASSUME KernelInv, NEW e \in Endpoint, NEW wr \in BOOLEAN, MayUse(e),
         Suspend(e, wr), NEW c \in Channel, c = channel[e]
  PROVE  /\ current \in Fibre /\ current \in ReadyFibres
         /\ ReadyFibres' = ReadyFibres \ {current}
         /\ WaitingTo(wr)' = [WaitingTo(wr) EXCEPT ![c] = @ \cup {current}]
         /\ \A w \in BOOLEAN : w # wr => WaitingTo(w)' = WaitingTo(w)
<1>1. /\ Running /\ PopActive /\ UNCHANGED unwind
      /\ top' = [top EXCEPT ![c] = <<[fib |-> current, wr |-> wr]>> \o @]
  BY DEF MayUse, Suspend
<1>2. /\ current \in Fibre /\ Dying = {} /\ current \notin Ready
      /\ TypeOK /\ Distinct(active)
  BY <1>1, RunningFacts DEF KernelInv, FibreInOnePlace
<1>3. Dying' = {}
  BY <1>1, <1>2 DEF Dying
<1>4. Ready = Ready' \cup ({current'} \ {None})
  BY <1>1, <1>2, PopActiveFacts DEF Ready
<1>5. ReadyFibres' = ReadyFibres \ {current} /\ current \in ReadyFibres
  <2>1. ReadyFibres' = (({current'} \ {None}) \cup Ready') \ Dying'
    BY DEF ReadyFibres
  <2> QED
    BY <1>1, <1>2, <1>3, <1>4, <2>1, ReadyWhileRunning
<1>6. /\ WaitingTo(wr)' = [WaitingTo(wr) EXCEPT ![c] = @ \cup {current}]
      /\ \A w \in BOOLEAN : w # wr => WaitingTo(w)' = WaitingTo(w)
  BY <1>1, <1>2, PushWaiting
<1> QED
  BY <1>2, <1>5, <1>6

\* A reader resumes a writer, or ends, or waits.
LEMMA ReadRefines ==
  ASSUME KernelInv, NEW e \in Endpoint, Read(e)
  PROVE  \/ \E f \in Fibre : Model!End(f)
         \/ \E c \in Channel : Model!ReadMatches(c)
         \/ \E f \in Fibre, c \in Channel : Model!ReadWaits(f, c)
<1>1. MayUse(e) /\ Running /\ e \in eprefs[current] /\ TypeOK
  BY DEF Read, MayUse, KernelInv
<1>2. current \in Fibre /\ Dying = {}
  BY <1>1, RunningFacts
<1>3. PICK c \in Channel : c = channel[e]
  BY <1>1, <1>2, HeldEndpoint
<1>4. CASE /\ HasPeer(c, TRUE)
           /\ PopPeer(c)
           /\ active' = <<Head(top[c]).fib>> \o active
           /\ UNCHANGED <<current, unwind>>
  <2>1. PICK g : g = Head(top[c]).fib
    OBVIOUS
  <2>2. /\ g \in WaitingTo(TRUE)[c]
        /\ WaitingTo(TRUE)' = [WaitingTo(TRUE) EXCEPT ![c] = @ \ {g}]
        /\ WaitingTo(FALSE)' = WaitingTo(FALSE)
    BY <1>4, <2>1, PopWaiting
  <2>3. g \in Fibre
    BY <2>2 DEF WaitingTo
  <2>4. Ready' = Ready \cup {g}
    BY <1>1, <1>4, <2>1, <2>3, PushElements DEF Ready, TypeOK
  <2>5. ReadyFibres' = ReadyFibres \cup {g} /\ ReadyFibres # {}
    <3>1. Dying' = {}
      BY <1>2, <1>4 DEF Dying
    <3>2. ReadyFibres' = (({current'} \ {None}) \cup Ready') \ Dying'
      BY DEF ReadyFibres
    <3> QED
      BY <1>1, <1>2, <1>4, <2>4, <3>1, <3>2, ReadyWhileRunning, KernelAssumption
  <2>6. Model!ReadMatches(c)
    BY <2>2, <2>5 DEF Model!ReadMatches
  <2> QED
    BY <2>6
<1>5. CASE Abandon(e)
  BY <1>1, <1>2, <1>5, AbandonRefines
<1>6. CASE ~HasPeer(c, TRUE) /\ Suspend(e, FALSE)
  <2>1. WaitingTo(TRUE)[c] = {}
    BY <1>6, NobodyWaits
  <2>2. Model!ReadWaits(current, c)
    BY <1>1, <1>3, <1>6, <2>1, SuspendFacts DEF Model!ReadWaits
  <2> QED
    BY <1>2, <2>2
<1> QED
  BY <1>3, <1>4, <1>5, <1>6 DEF Read

\* A writer resumes a reader, or ends, or waits.
LEMMA WriteRefines ==
  ASSUME KernelInv, NEW e \in Endpoint, Write(e)
  PROVE  \/ \E f \in Fibre : Model!End(f)
         \/ \E c \in Channel : Model!WriteMatches(c)
         \/ \E f \in Fibre, c \in Channel : Model!WriteWaits(f, c)
<1>1. MayUse(e) /\ Running /\ e \in eprefs[current] /\ TypeOK
  BY DEF Write, MayUse, KernelInv
<1>2. current \in Fibre /\ Dying = {}
  BY <1>1, RunningFacts
<1>3. PICK c \in Channel : c = channel[e]
  BY <1>1, <1>2, HeldEndpoint
<1>4. CASE /\ HasPeer(c, FALSE)
           /\ PopPeer(c)
           /\ active' = <<current>> \o active
           /\ current' = Head(top[c]).fib
           /\ UNCHANGED unwind
  <2>1. PICK g : g = Head(top[c]).fib
    OBVIOUS
  <2>2. /\ g \in WaitingTo(FALSE)[c]
        /\ WaitingTo(FALSE)' = [WaitingTo(FALSE) EXCEPT ![c] = @ \ {g}]
        /\ WaitingTo(TRUE)' = WaitingTo(TRUE)
    BY <1>4, <2>1, PopWaiting
  <2>3. g \in Fibre
    BY <2>2 DEF WaitingTo
  <2>4. Ready' = Ready \cup {current}
    BY <1>1, <1>2, <1>4, PushElements DEF Ready, TypeOK
  <2>5. ReadyFibres' = ReadyFibres \cup {g} /\ ReadyFibres # {}
    <3>1. Dying' = {}
      BY <1>2, <1>4 DEF Dying
    <3>2. ReadyFibres' = (({current'} \ {None}) \cup Ready') \ Dying'
      BY DEF ReadyFibres
    <3> QED
      BY <1>1, <1>2, <1>4, <2>1, <2>3, <2>4, <3>1, <3>2, ReadyWhileRunning,
         KernelAssumption
  <2>6. Model!WriteMatches(c)
    BY <2>2, <2>5 DEF Model!WriteMatches
  <2> QED
    BY <2>6
<1>5. CASE Abandon(e)
  BY <1>1, <1>2, <1>5, AbandonRefines
<1>6. CASE ~HasPeer(c, FALSE) /\ Suspend(e, TRUE)
  <2>1. WaitingTo(FALSE)[c] = {}
    BY <1>6, NobodyWaits
  <2>2. Model!WriteWaits(current, c)
    BY <1>1, <1>3, <1>6, <2>1, SuspendFacts DEF Model!WriteWaits
  <2> QED
    BY <1>2, <2>2
<1> QED
  BY <1>3, <1>4, <1>5, <1>6 DEF Write

\* The end of an endpoint is nothing to the model, unless it ends a channel.
LEMMA ReleaseRefines ==
  ASSUME KernelInv, NEW f \in Fibre, NEW e \in Endpoint, Release(f, e)
  PROVE  UNCHANGED Promised \/ \E c \in Channel : Model!Collapse(c)
<1>1. UNCHANGED <<current, active>> /\ e \in eprefs[f] /\ FibreInOnePlace
  BY DEF Release, DropReference, DeleteEndpoint, KernelInv
<1>2. CASE UNCHANGED <<top, unwind>>
  <2>1. UNCHANGED ReadyFibres
    BY <1>1, <1>2 DEF ReadyFibres, Ready, Dying
  <2> QED
    BY <1>2, <2>1, SameWaiting DEF Promised
<1>3. PICK c \in Channel : c = channel[e]
  BY <1>1, HeldEndpoint
<1>4. CASE chstate[c] = "live" /\ DeleteChannel(c)
  <2>1. Dying' = Dying \cup OnStack(c)
    BY <1>4, DeleteChannelFrames
  <2>2. OnStack(c) \cap (Ready \cup {current}) = {}
    BY <1>1 DEF FibreInOnePlace
  <2>3. UNCHANGED ReadyFibres
    BY <1>1, <2>1, <2>2 DEF ReadyFibres, Ready
  <2>4. top' = [top EXCEPT ![c] = << >>] /\ top \in [Channel -> Seq(Tagged)]
    BY <1>4 DEF DeleteChannel, KernelInv, TypeOK
  <2>5. ASSUME NEW wr \in BOOLEAN
        PROVE  WaitingTo(wr)' = [WaitingTo(wr) EXCEPT ![c] = {}]
    <3>1. PICK W \in [Channel -> SUBSET Fibre] : W = WaitingTo(wr)
      BY DEF WaitingTo
    <3>2. PICK V \in [Channel -> SUBSET Fibre] : V = WaitingTo(wr)'
      BY DEF WaitingTo
    <3>3. V[c] = {}
      BY <2>4, <3>2 DEF WaitingTo, Elements
    <3>4. \A d \in Channel \ {c} : V[d] = W[d]
      BY <2>4, <3>1, <3>2 DEF WaitingTo
    <3>5. V = [W EXCEPT ![c] = {}]
      BY <3>3, <3>4
    <3> QED
      BY <3>1, <3>2, <3>5
  <2>6. Model!Collapse(c)
    BY <2>3, <2>5 DEF Model!Collapse
  <2> QED
    BY <2>6
<1> QED
  BY <1>2, <1>3, <1>4
     DEF Release, DropReference, DeleteEndpoint, LeaveDeletedChannel, LeaveChannel

\* A fibre that was deleted had left the model before.
LEMMA FreeFibreRefines ==
  ASSUME KernelInv, NEW f \in Fibre, FreeFibre(f)
  PROVE  UNCHANGED Promised
<1>1. /\ TypeOK /\ FibreInOnePlace /\ Distinct(unwind) /\ unwind \in Seq(Frame)
      /\ unwind # << >> /\ Head(unwind) = DeleteFibre(f)
      /\ unwind' = Tail(unwind) /\ FetchAfter(f) /\ UNCHANGED top
  BY DEF FreeFibre, Deleting, Unwinding, Return, KernelInv, TypeOK, FibreInOnePlace
<1>2. /\ Elements(unwind) = Elements(unwind') \cup {DeleteFibre(f)}
      /\ DeleteFibre(f) \notin Elements(unwind')
  BY <1>1, PopElements
<1>3. Dying' = Dying \ {f} /\ f \in Dying
  BY <1>2 DEF Dying, DeleteFibre
<1>4. f \notin Ready /\ Ready \cap Dying = {} /\ f # None
  BY <1>1, <1>3, KernelAssumption DEF FibreInOnePlace
<1>5. ReadyFibres' = (({current'} \ {None}) \cup Ready') \ Dying'
  BY DEF ReadyFibres
<1>6. CASE current = f /\ PopActive
  <2>1. Ready = Ready' \cup ({current'} \ {None})
    BY <1>1, <1>6, PopActiveFacts DEF Ready, FibreInOnePlace
  <2> QED
    BY <1>1, <1>3, <1>4, <1>5, <1>6, <2>1, SameWaiting DEF ReadyFibres, Promised
<1>7. CASE current # f /\ UNCHANGED <<current, active>>
  <2>1. Ready' = Ready
    BY <1>7 DEF Ready
  <2> QED
    BY <1>1, <1>3, <1>4, <1>5, <1>7, <2>1, SameWaiting DEF ReadyFibres, Promised
<1> QED
  BY <1>1, <1>6, <1>7 DEF FetchAfter

\* Nor does it know of the store of a channel.
LEMMA FreeChannelRefines ==
  ASSUME KernelInv, NEW c \in Channel, FreeChannel(c)
  PROVE  UNCHANGED Promised
<1>1. /\ unwind \in Seq(Frame) /\ unwind # << >>
      /\ Head(unwind) = DeleteChannelObject(c) /\ unwind' = Tail(unwind)
      /\ UNCHANGED <<current, active, top>>
  BY DEF FreeChannel, Unwinding, Return, KernelInv, TypeOK
<1>2. Elements(unwind) = Elements(unwind') \cup {DeleteChannelObject(c)}
  BY <1>1, PopElements
<1>3. Dying' = Dying
  BY <1>2, FramesDiffer DEF Dying
<1>4. UNCHANGED ReadyFibres
  BY <1>1, <1>3 DEF ReadyFibres, Ready
<1> QED
  BY <1>1, <1>4, SameWaiting DEF Promised

\* Nothing the model has changes.
LEMMA StutterRefines ==
  ASSUME UNCHANGED <<current, active, top, unwind>>
  PROVE  UNCHANGED Promised
<1>1. UNCHANGED ReadyFibres
  BY DEF ReadyFibres, Ready, Dying
<1> QED
  BY <1>1, SameWaiting DEF Promised

-----------------------------------------------------------------------------

\* Each step of the kernel is a step of the model, or none.
LEMMA RefinementNext ==
  ASSUME KernelInv, [Next]_vars
  PROVE  [Model!ModelNext]_(Model!modelVars)
<1>0. UNCHANGED Promised => UNCHANGED Model!modelVars
  BY DEF Promised, Model!modelVars
<1>1. ASSUME NEW f \in Fibre, NEW copied \in SUBSET Endpoint,
             NEW moved \in SUBSET Endpoint,
             SpawnFibre(f, copied, moved) \/ SpawnFibreDeferred(f, copied, moved)
      PROVE  Model!ModelNext
  BY <1>1, SpawnRefines DEF Model!ModelNext
<1>2. CASE Suicide
  <2>1. current \in Fibre
    BY <1>2, RunningFacts DEF Suicide
  <2> QED
    BY <1>2, <2>1, SuicideRefines DEF Model!ModelNext
<1>3. CASE \/ \E c \in Channel, e \in Endpoint : MakeChannel(c, e)
           \/ \E e, d \in Endpoint : Dup(e, d)
           \/ UseStaleEndpoint
           \/ \E f \in Fibre : DeleteStaleEndpoint(f)
           \/ UNCHANGED vars
  <2>1. UNCHANGED <<current, active, top, unwind>>
    BY <1>3 DEF MakeChannel, Dup, UseStaleEndpoint, DeleteStaleEndpoint, vars
  <2> QED
    BY <1>0, <2>1, StutterRefines
<1>4. ASSUME NEW e \in Endpoint, Read(e) \/ Write(e)
      PROVE  Model!ModelNext
  BY <1>4, ReadRefines, WriteRefines DEF Model!ModelNext
<1>5. ASSUME NEW f \in Fibre, NEW e \in Endpoint, Release(f, e)
      PROVE  [Model!ModelNext]_(Model!modelVars)
  BY <1>0, <1>5, ReleaseRefines DEF Model!ModelNext
<1>6. ASSUME NEW e \in Endpoint, Discard(e)
      PROVE  [Model!ModelNext]_(Model!modelVars)
  <2>1. current \in Fibre
    BY <1>6, RunningFacts DEF Discard
  <2> QED
    BY <1>5, <1>6, <2>1 DEF Discard
<1>7. ASSUME NEW f \in Fibre, FreeFibre(f)
      PROVE  [Model!ModelNext]_(Model!modelVars)
  BY <1>0, <1>7, FreeFibreRefines
<1>8. ASSUME NEW c \in Channel, FreeChannel(c)
      PROVE  [Model!ModelNext]_(Model!modelVars)
  BY <1>0, <1>8, FreeChannelRefines
<1> QED
  BY <1>1, <1>2, <1>3, <1>4, <1>5, <1>6, <1>7, <1>8 DEF Next, Unwind

\* read and write resume only a fibre that waits to do the opposite, and leave
\* the caller waiting only if there is none; otherwise a fibre leaves the
\* program only by its own end, or with the channel it waits on.
THEOREM KernelImplementsModel == Spec => ImplementsModel
BY KernelInvariant, RefinementInit, RefinementNext, PTL
   DEF Spec, ImplementsModel, Model!ModelSpec
=============================================================================
