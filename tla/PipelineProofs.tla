---------------------------- MODULE PipelineProofs ----------------------------
(***************************************************************************)
(* Theorems about Pipeline, for pipelines of any length, lists of any      *)
(* length and any number of threads: values are shown once and in order,   *)
(* an object has one owner, a source runs ahead by the stages at most.     *)
(***************************************************************************)
EXTENDS Pipeline, StackLemmas, FiniteSetTheorems

-----------------------------------------------------------------------------
(***************************************************************************)
(* The inductive invariant                                                 *)
(***************************************************************************)

\* The last stage of the pipeline.
Last == CHOOSE last \in 2..Len(program) : Joined(program, last)

Typed ==
  /\ program \in Programs
  /\ pc \in [Stage -> Nat] /\ squaring \in [Stage -> BOOLEAN]
  /\ svc_req \in [Stage -> {"none", "read", "write", "spawn"}]
  /\ word \in [Stage -> Address \cup {None} \cup Value]
  /\ outptr \in [Stage -> Address \cup {None}]
  /\ counter \in [Stage -> Nat]
  /\ heap \in [Address -> Value \cup {None}]
  /\ shown \in Seq(Value)
  /\ at \in [Thread -> {"loop", "resume", "serve", "dead", "idle"}]
  /\ current \in [Thread -> Stage \cup {None}]
  /\ active \in Seq(Stage)
  /\ suspended \subseteq Stage

\* init has not come to this stage.
Unspawned(i) == pc[0] < i \/ (pc[0] = i /\ i # 0 /\ Asking(0))

\* A stage is in one place, once spawned, and not in any before.
Placed ==
  /\ \A t \in Thread : at[t] = "idle" <=> current[t] = None
  /\ \A t, u \in Thread : current[t] = current[u] /\ current[t] # None => t = u
  /\ \A t \in Thread : current[t] \notin Elements(active) \cup suspended
  /\ Distinct(active) /\ Elements(active) \cap suspended = {}
  /\ \A i \in Stage : Unspawned(i) =>
       i \notin Elements(active) \cup suspended /\ \A t \in Thread : current[t] # i

\* What a stage is resumed with.
Clean == \A t \in Thread : at[t] = "resume" => svc_req[current[t]] = "none"

\* The places in its switch at which a stage asks for what.
Within(i) ==
  /\ pc[i] \in Cases(Kind(i))
  /\ squaring[i] => Kind(i) = "caller" /\ pc[i] = 3 /\ ~Asking(i)
  /\ Kind(i) = "sink" => pc[i] # 1
  /\ Kind(i) = "bound" /\ pc[i] = 2 => counter[i] # 0
  /\ Asking(i) =>
       \/ svc_req[i] = "spawn" /\ Kind(i) = "init" /\ pc[i] # 0
       \/ /\ svc_req[i] = "write" /\ pc[i] = 1
          /\ Kind(i) \in {"source", "bound", "transducer", "producer", "caller"}
       \/ /\ svc_req[i] = "read" /\ pc[i] = 2
          /\ Kind(i) \in {"bound", "transducer", "sink", "caller", "consumer"}
       \/ svc_req[i] = "read" /\ pc[i] = 1 /\ Kind(i) \in {"caller", "consumer"}

\* Stage i has a value that it is to pass on, or to show.
Holds(i) == IF Asking(i) THEN svc_req[i] = "write" ELSE pc[i] \in {2, 3}

\* Stage i has not yet read the value that it will drop.
Due(i) ==
  /\ Kind(i) \in {"caller", "consumer"}
  /\ pc[i] = 0 \/ (pc[i] = 1 /\ Asking(i) /\ svc_req[i] = "read")

\* Stage i has squared the value that it holds.
Done(i) ==
  \/ Kind(i) = "transducer" /\ Asking(i)
  \/ Kind(i) = "caller" /\ (Asking(i) \/ (pc[i] = 3 /\ ~squaring[i]))

\* The object that a chip holds, and the value that a stage does.
Ref(i) == IF Asking(i) THEN Offered(i) ELSE word[i]
Item(i) == IF i \in Chips THEN heap[Ref(i)] ELSE word[i]

One(b) == IF b THEN 1 ELSE 0

\* How many stages of some kinds there are before stage i.
Before(kinds, i) == Cardinality({j \in Stage : j < i /\ Kind(j) \in kinds})

\* n[i] is the place in the input of the last value that stage i received, and
\* that it holds if it holds one.  After Last comes what is shown.
Flow(n) ==
  /\ n \in [1..(Last + 1) -> Nat]
  /\ n[1] = counter[1] /\ n[Last + 1] = Len(shown) + Lost
  /\ \A i \in 1..Last : n[i] + One(Due(i)) = n[i + 1] + One(Holds(i))
  /\ \A i \in 1..Last : Holds(i) =>
       Item(i) = <<n[i], Before({"transducer", "caller"}, i) + One(Done(i))>>

\* An object is allocated just while a chip holds it, and only one does.
Owned ==
  /\ \A i \in Chips : Holds(i) => Ref(i) \in Address /\ heap[Ref(i)] # None
  /\ \A i, j \in Chips : Holds(i) /\ Holds(j) /\ Ref(i) = Ref(j) => i = j
  /\ \A a \in Address : heap[a] # None => \E i \in Chips : Holds(i) /\ Ref(i) = a

PipeInv ==
  /\ Typed /\ Placed /\ Clean
  /\ \A i \in Stage : Within(i)
  /\ \E n : Flow(n)
  /\ Owned
  /\ ShownInOrder

-----------------------------------------------------------------------------
(***************************************************************************)
(* The stages of a program                                                 *)
(***************************************************************************)

LEMMA Programmed ==
  ASSUME program \in Programs
  PROVE  /\ program \in Seq(Kinds) /\ Len(program) \in Nat
         /\ Last \in 2..Len(program) /\ Joined(program, Last)
         /\ Stage = 0..Len(program)
BY PipelineAssumption DEF Last, Stage

\* Which kinds of stages are where.
Reading == {"bound", "transducer", "caller", "sink", "consumer"}
Writing == {"source", "producer", "bound", "transducer", "caller"}

LEMMA Kinded ==
  ASSUME program \in Programs, NEW i \in Stage
  PROVE  /\ Kind(i) \in Kinds \cup {"init"}
         /\ i = 0 <=> Kind(i) = "init"
         /\ i = 1 <=> Kind(i) \in {"source", "producer"}
         /\ i \in 2..Last <=> Kind(i) \in Reading
         /\ i \in 1..(Last - 1) <=> Kind(i) \in Writing
         /\ i = Last <=> Kind(i) \in {"sink", "consumer"}
         /\ i \in (Last + 1)..Len(program) <=> Kind(i) = "hello"
<1>1. /\ Last \in 2..Len(program) /\ Joined(program, Last)
      /\ i \in 0..Len(program) /\ program \in Seq(Kinds) /\ Len(program) \in Nat
  BY Programmed
<1>2. CASE i = 0
  BY <1>1, <1>2 DEF Kind, Kinds, Reading, Writing
<1>3. CASE i = 1
  BY <1>1, <1>3 DEF Kind, Kinds, Reading, Writing, Joined
<1>4. CASE i \in 2..(Last - 1)
  BY <1>1, <1>4 DEF Kind, Kinds, Reading, Writing, Joined
<1>5. CASE i = Last
  BY <1>1, <1>5 DEF Kind, Kinds, Reading, Writing, Joined
<1>6. CASE i \in (Last + 1)..Len(program)
  BY <1>1, <1>6 DEF Kind, Kinds, Reading, Writing, Joined
<1> QED
  BY <1>1, <1>2, <1>3, <1>4, <1>5, <1>6

\* All the stages that use a channel are chips, or none is.
LEMMA ChipsOrNone ==
  ASSUME program \in Programs
  PROVE  \/ Chips = 1..Last /\ \A i \in Stage : Kind(i) \notin {"producer", "caller", "consumer"}
         \/ Chips = {} /\ \A i \in Stage : Kind(i) \notin {"source", "bound", "transducer", "sink"}
<1>1. /\ Last \in 2..Len(program) /\ Joined(program, Last)
      /\ Stage = 0..Len(program) /\ program \in Seq(Kinds) /\ Len(program) \in Nat
  BY Programmed
<1>2. CASE program[1] = "source"
  <2>1. program[Last] = "sink" /\ \A i \in 2..(Last - 1) : program[i] \in {"bound", "transducer"}
    BY <1>1, <1>2 DEF Joined
  <2>2. \A i \in (Last + 1)..Len(program) : program[i] = "hello"
    BY <1>1 DEF Joined
  <2>3. ASSUME NEW i \in Stage
        PROVE  /\ Kind(i) \notin {"producer", "caller", "consumer"}
               /\ Kind(i) \in {"source", "bound", "transducer", "sink"} <=> i \in 1..Last
    <3>1. i = 0 \/ i = 1 \/ i \in 2..(Last - 1) \/ i = Last \/ i \in (Last + 1)..Len(program)
      BY <1>1
    <3> QED
      BY <1>1, <1>2, <2>1, <2>2, <3>1 DEF Kind
  <2>4. Chips = 1..Last
    BY <1>1, <2>3 DEF Chips
  <2> QED
    BY <2>3, <2>4
<1>3. CASE program[1] # "source"
  <2>1. /\ program[1] = "producer" /\ program[Last] = "consumer"
        /\ \A i \in 2..(Last - 1) : program[i] = "caller"
    BY <1>1, <1>3 DEF Joined
  <2>2. \A i \in (Last + 1)..Len(program) : program[i] = "hello"
    BY <1>1 DEF Joined
  <2>3. ASSUME NEW i \in Stage
        PROVE  Kind(i) \notin {"source", "bound", "transducer", "sink"}
    <3>1. i = 0 \/ i = 1 \/ i \in 2..(Last - 1) \/ i = Last \/ i \in (Last + 1)..Len(program)
      BY <1>1
    <3> QED
      BY <1>1, <2>1, <2>2, <3>1 DEF Kind
  <2>4. Chips = {}
    BY <2>3 DEF Chips
  <2> QED
    BY <2>3, <2>4
<1> QED
  BY <1>2, <1>3

\* The program does not change.
LEMMA ProgramFixed ==
  ASSUME program' = program
  PROVE  /\ Stage' = Stage /\ Last' = Last /\ Chips' = Chips
         /\ \A i : Kind(i)' = Kind(i)
         /\ \A kinds, i : Before(kinds, i)' = Before(kinds, i)
         /\ \A kinds : Count(kinds)' = Count(kinds)
         /\ Lost' = Lost
         /\ \A k : Expected(k)' = Expected(k)
<1>1. /\ Stage' = Stage /\ Last' = Last
      /\ \A i : Kind(i)' = Kind(i)
  BY DEF Stage, Last, Kind
<1> QED
  BY <1>1 DEF Chips, Before, Count, Lost, Expected

\* Stages of some kinds, counted.
LEMMA BeforeRule ==
  ASSUME program \in Programs, NEW kinds
  PROVE  /\ \A i \in 1..(Last + 1) : Before(kinds, i) \in Nat
         /\ \A i \in 1..Last : Before(kinds, i + 1) = Before(kinds, i) + One(Kind(i) \in kinds)
         /\ "init" \notin kinds => Before(kinds, 1) = 0
         /\ kinds \subseteq Reading => Before(kinds, Last + 1) = Count(kinds)
<1> DEFINE S(i) == {j \in Stage : j < i /\ Kind(j) \in kinds}
<1>0. Last \in 2..Len(program) /\ Stage = 0..Len(program) /\ Len(program) \in Nat
  BY Programmed
<1>1. ASSUME NEW i
      PROVE  IsFiniteSet(S(i)) /\ Cardinality(S(i)) \in Nat
  <2>1. IsFiniteSet(0..Len(program))
    BY <1>0, FS_Interval
  <2> QED
    BY <1>0, <2>1, FS_Subset, FS_CardinalityType
<1>2. ASSUME NEW i \in 1..Last
      PROVE  Cardinality(S(i + 1)) = Cardinality(S(i)) + One(Kind(i) \in kinds)
  <2>1. CASE Kind(i) \in kinds
    <3>1. S(i + 1) = S(i) \cup {i} /\ i \notin S(i)
      BY <1>0, <2>1
    <3> QED
      BY <1>1, <2>1, <3>1, FS_AddElement DEF One
  <2>2. CASE Kind(i) \notin kinds
    <3>1. S(i + 1) = S(i)
      BY <1>0, <2>2
    <3> QED
      BY <1>1, <2>2, <3>1 DEF One
  <2> QED
    BY <2>1, <2>2
<1>3. ASSUME "init" \notin kinds
      PROVE  Cardinality(S(1)) = 0
  <2>1. S(1) = {}
    BY <1>0, <1>3 DEF Kind
  <2> QED
    BY <2>1, FS_EmptySet
<1>4. ASSUME kinds \subseteq Reading
      PROVE  S(Last + 1) = {j \in Stage : Kind(j) \in kinds}
  <2>1. \A j \in Stage : Kind(j) \in kinds => j \in 2..Last
    BY <1>4, Kinded
  <2> QED
    BY <1>0, <2>1
<1> QED
  BY <1>1, <1>2, <1>3, <1>4 DEF Before, Count

-----------------------------------------------------------------------------
(***************************************************************************)
(* What a step leaves alone                                                *)
(***************************************************************************)

\* Stage j is where it was, and with what it had.
Same(j) ==
  /\ pc'[j] = pc[j] /\ squaring'[j] = squaring[j] /\ counter'[j] = counter[j]
  /\ word'[j] = word[j] /\ outptr'[j] = outptr[j]
  /\ Asking(j)' <=> Asking(j)
  /\ Asking(j) => svc_req'[j] = svc_req[j]

LEMMA SameFacts ==
  ASSUME program' = program, NEW j, Same(j)
  PROVE  /\ Within(j) => Within(j)'
         /\ Holds(j)' <=> Holds(j)
         /\ Due(j)' <=> Due(j)
         /\ Done(j)' <=> Done(j)
         /\ Holds(j) => Ref(j)' = Ref(j)
<1>1. /\ Kind(j)' = Kind(j) /\ Stage' = Stage
  BY ProgramFixed
<1>2. Cases(Kind(j))' = Cases(Kind(j))
  BY <1>1 DEF Cases
<1>3. Within(j) => Within(j)'
  BY <1>1, <1>2 DEF Within, Same
<1>4. Holds(j)' <=> Holds(j)
  BY DEF Holds, Same
<1>5. Due(j)' <=> Due(j)
  BY <1>1 DEF Due, Same
<1>6. Done(j)' <=> Done(j)
  BY <1>1 DEF Done, Same
<1>7. Ref(j)' = Ref(j)
  BY <1>1 DEF Ref, Offered, Same
<1> QED
  BY <1>3, <1>4, <1>5, <1>6, <1>7

\* What a stage holds is what it held, but may have been squared.
Keeps(j) ==
  /\ Holds(j)' <=> Holds(j)
  /\ Due(j)' <=> Due(j)
  /\ Holds(j) => \/ Item(j)' = Item(j) /\ (Done(j)' <=> Done(j))
                 \/ Item(j)' = Squared(Item(j)) /\ ~Done(j) /\ Done(j)'

LEMMA SameKeeps ==
  ASSUME program' = program, NEW j, Same(j),
         j \in Chips /\ Holds(j) => heap'[Ref(j)] = heap[Ref(j)]
  PROVE  Keeps(j)
<1>1. Holds(j) => Item(j)' = Item(j)
  BY SameFacts, ProgramFixed DEF Item, Same
<1> QED
  BY <1>1, SameFacts DEF Keeps

LEMMA FlowKept ==
  ASSUME program \in Programs, program' = program, NEW n, Flow(n),
         \A j \in 1..Last : Keeps(j),
         counter'[1] = counter[1], Len(shown)' = Len(shown)
  PROVE  Flow(n)'
<1>1. /\ Last' = Last /\ Lost' = Lost
      /\ \A i : Before({"transducer", "caller"}, i)' = Before({"transducer", "caller"}, i)
  BY ProgramFixed
<1>2. Last \in 2..Len(program) /\ Len(program) \in Nat
  BY Programmed
<1>3. \A i \in 1..Last : n[i] + One(Due(i)') = n[i + 1] + One(Holds(i)')
  BY DEF Flow, Keeps, One
<1>4. ASSUME NEW i \in 1..Last, Holds(i)'
      PROVE  Item(i)' = <<n[i], Before({"transducer", "caller"}, i) + One(Done(i)')>>
  <2>1. Item(i) = <<n[i], Before({"transducer", "caller"}, i) + One(Done(i))>>
    BY <1>4 DEF Flow, Keeps
  <2>2. Before({"transducer", "caller"}, i) \in Nat
    <3>1. i \in 1..(Last + 1)
      BY <1>2
    <3> QED
      BY <3>1, BeforeRule
  <2>3. CASE Item(i)' = Item(i) /\ (Done(i)' <=> Done(i))
    BY <2>1, <2>3 DEF One
  <2>4. CASE Item(i)' = Squared(Item(i)) /\ ~Done(i) /\ Done(i)'
    BY <2>1, <2>2, <2>4 DEF One, Squared
  <2> QED
    BY <1>4, <2>3, <2>4 DEF Keeps
<1>5. /\ n \in [1..(Last' + 1) -> Nat]
      /\ n[1] = counter'[1] /\ n[Last' + 1] = Len(shown') + Lost'
  BY <1>1 DEF Flow
<1>6. \A i \in 1..Last' : n[i] + One(Due(i))' = n[i + 1] + One(Holds(i))'
  BY <1>1, <1>3 DEF One
<1>7. \A i \in 1..Last' : Holds(i)' =>
        Item(i)' = <<n[i], Before({"transducer", "caller"}, i)' + One(Done(i))'>>
  BY <1>1, <1>4 DEF One
<1> QED
  BY <1>5, <1>6, <1>7 DEF Flow

LEMMA OwnedKept ==
  ASSUME Owned, program' = program, heap' = heap,
         \A j \in Chips : (Holds(j)' <=> Holds(j)) /\ (Holds(j) => Ref(j)' = Ref(j))
  PROVE  Owned'
BY ProgramFixed DEF Owned

LEMMA ShownKept ==
  ASSUME ShownInOrder, program' = program, shown' = shown
  PROVE  ShownInOrder'
BY ProgramFixed DEF ShownInOrder

\* All stages but i and j, which need not be two, are left alone, and i and j
\* keep what they hold.
LEMMA OthersKept ==
  ASSUME PipeInv, program' = program, NEW i \in Stage, NEW j \in Stage,
         \A k \in Stage \ {i, j} : Same(k),
         \A k \in {i, j} \cap (1..Last) :
           Keeps(k) /\ (k \in Chips /\ Holds(k) => Ref(k)' = Ref(k)),
         Within(i)', Within(j)',
         counter'[1] = counter[1], heap' = heap, shown' = shown
  PROVE  /\ \A k \in Stage' : Within(k)'
         /\ \E n : Flow(n)'
         /\ Owned' /\ ShownInOrder'
<1>0. program \in Programs /\ Stage' = Stage /\ 1..Last \subseteq Stage
  BY ProgramFixed, Programmed DEF PipeInv, Typed
<1>1. \A k \in Stage : Within(k)'
  BY SameFacts DEF PipeInv
<1>2. \A k \in 1..Last : Keeps(k) /\ (k \in Chips /\ Holds(k) => Ref(k)' = Ref(k))
  BY <1>0, SameKeeps, SameFacts
<1>3. PICK n : Flow(n)
  BY DEF PipeInv
<1>4. Flow(n)'
  BY <1>0, <1>2, <1>3, FlowKept
<1>5. Chips \subseteq 1..Last
  BY <1>0, ChipsOrNone
<1>6. Owned'
  BY <1>2, <1>5, OwnedKept DEF PipeInv, Keeps
<1>7. ShownInOrder'
  BY ShownKept DEF PipeInv
<1> QED
  BY <1>0, <1>1, <1>4, <1>6, <1>7

-----------------------------------------------------------------------------
(***************************************************************************)
(* Where stages are                                                        *)
(***************************************************************************)

LEMMA Stages ==
  ASSUME PipeInv
  PROVE  /\ program \in Programs
         /\ 0 \in Stage /\ Stage \subseteq Nat /\ None \notin Stage
         /\ pc[0] \in Nat
<1>1. program \in Programs /\ pc \in [Stage -> Nat]
  BY DEF PipeInv, Typed
<1>2. Stage = 0..Len(program) /\ Len(program) \in Nat
  BY <1>1, Programmed
<1>3. 0 \in Stage /\ Stage \subseteq Nat
  BY <1>2
<1> QED
  BY <1>1, <1>3, PipelineAssumption

\* A thread that is at work has a stage.
LEMMA Busy ==
  ASSUME PipeInv, NEW t \in Thread, at[t] # "idle"
  PROVE  /\ current[t] \in Stage /\ current[t] # None
         /\ current[t] \notin Elements(active) \cup suspended
         /\ \A u \in Thread : current[u] = current[t] => u = t
         /\ Asking(current[t]) <=> at[t] = "serve"
BY DEF PipeInv, Typed, Placed, Asking

LEMMA GoPlaces ==
  ASSUME PipeInv, NEW t \in Thread, NEW from, NEW to \in {"loop", "resume", "serve", "dead", "idle"},
         Go(t, from, to)
  PROVE  /\ at[t] = from /\ at'[t] = to /\ \A u \in Thread \ {t} : at'[u] = at[u]
         /\ at' \in [Thread -> {"loop", "resume", "serve", "dead", "idle"}]
         /\ program' = program
BY DEF PipeInv, Typed, Go

\* A resumption by thread t of stage i.
LEMMA ResumePlaces ==
  ASSUME PipeInv, NEW t \in Thread, NEW i \in Stage, current[t] = i,
         NEW to \in {"resume", "serve", "dead"}, Go(t, "resume", to),
         UNCHANGED <<current, active, suspended>>,
         IF i = 0 /\ to = "serve" THEN pc'[0] = pc[0] + 1 ELSE pc'[0] = pc[0],
         \A j \in Stage \ {i} : svc_req'[j] = svc_req[j],
         to = "resume" => svc_req'[i] = "none"
  PROVE  /\ ~Asking(i) /\ (Asking(i)' <=> to = "serve")
         /\ \A j \in Stage \ {i} : Asking(j)' <=> Asking(j)
         /\ Placed' /\ Clean'
<1>1. /\ at[t] = "resume" /\ at'[t] = to /\ \A u \in Thread \ {t} : at'[u] = at[u]
      /\ program' = program
  BY GoPlaces
<1>2. /\ current[t] # None /\ i \notin suspended
      /\ \A u \in Thread : current[u] = i => u = t
      /\ ~Asking(i)
  BY <1>1, Busy
<1>3. Stage' = Stage
  BY <1>1, ProgramFixed
<1>4. Asking(i)' <=> to = "serve"
  BY <1>1, <1>2 DEF Asking
<1>5. \A j \in Stage \ {i} : Asking(j)' <=> Asking(j)
  BY <1>1, <1>2 DEF Asking
<1>6. 0 \in Stage /\ pc[0] \in Nat /\ Stage \subseteq Nat
  BY Stages
<1>7. ASSUME NEW j \in Stage, Unspawned(j)'
      PROVE  Unspawned(j)
  <2>1. CASE i = 0
    BY <1>4, <1>6, <1>7, <2>1 DEF Unspawned
  <2>2. CASE i # 0
    BY <1>5, <1>6, <1>7, <2>2 DEF Unspawned
  <2> QED
    BY <2>1, <2>2
<1>8. Placed'
  <2>1. \A u \in Thread : at'[u] = "idle" <=> current'[u] = None
    BY <1>1, <1>2 DEF PipeInv, Placed
  <2>2. \A j \in Stage' : Unspawned(j)' =>
          j \notin Elements(active)' \cup suspended' /\ \A u \in Thread : current'[u] # j
    BY <1>3, <1>7 DEF PipeInv, Placed
  <2> QED
    BY <2>1, <2>2 DEF PipeInv, Placed
<1>9. Clean'
  <2> SUFFICES ASSUME NEW u \in Thread, at'[u] = "resume"
               PROVE  svc_req'[current'[u]] = "none"
    BY DEF Clean
  <2>1. CASE u = t
    BY <1>1, <2>1
  <2>2. CASE u # t
    <3>1. current[u] \in Stage /\ current[u] # i /\ svc_req[current[u]] = "none"
      BY <1>1, <1>2, <2>2, Busy DEF PipeInv, Clean
    <3> QED
      BY <3>1
  <2> QED
    BY <2>1, <2>2
<1> QED
  BY <1>2, <1>4, <1>5, <1>8, <1>9

\* A pop, whether what the thread had is suspended or gone.
LEMMA PopPlaces ==
  ASSUME PipeInv, NEW t \in Thread, NEW from \in {"serve", "dead", "idle"}, Pop(t, from),
         UNCHANGED <<pc, svc_req>>,
         suspended' = IF from = "serve" THEN suspended \cup {current[t]} ELSE suspended
  PROVE  /\ \A j \in Stage : Asking(j)' <=> Asking(j)
         /\ current' \in [Thread -> Stage \cup {None}]
         /\ active' \in Seq(Stage) /\ suspended' \subseteq Stage
         /\ Placed' /\ Clean'
<1> DEFINE to == IF active = << >> THEN "idle" ELSE "loop"
           next == IF active = << >> THEN None ELSE Head(active)
<1>1. /\ at[t] = from /\ at'[t] = to /\ \A u \in Thread \ {t} : at'[u] = at[u]
      /\ program' = program
  BY GoPlaces DEF Pop
<1>2. /\ Stage' = Stage /\ Stage \subseteq Nat /\ None \notin Stage
  BY <1>1, ProgramFixed, Stages
<1>3. /\ active \in Seq(Stage) /\ suspended \subseteq Stage
      /\ current \in [Thread -> Stage \cup {None}]
      /\ Distinct(active) /\ Elements(active) \cap suspended = {}
  BY DEF PipeInv, Typed, Placed
<1>4. /\ current'[t] = next /\ \A u \in Thread \ {t} : current'[u] = current[u]
  BY <1>3 DEF Pop
<1>5. /\ active' \in Seq(Stage) /\ Distinct(active')
      /\ next = None \/ next \in Stage
      /\ next # None => next \in Elements(active) /\ next \notin Elements(active')
      /\ next = None <=> to = "idle"
      /\ Elements(active') \subseteq Elements(active)
      /\ \A j \in Elements(active) : j = next \/ j \in Elements(active')
  <2>1. CASE active = << >>
    BY <1>2, <1>3, <2>1 DEF Pop, Elements
  <2>2. CASE active # << >>
    BY <1>2, <1>3, <2>2, PopElements DEF Pop
  <2> QED
    BY <2>1, <2>2
<1>6. current' \in [Thread -> Stage \cup {None}]
  BY <1>3, <1>5 DEF Pop
<1>7. /\ from # "idle" => /\ current[t] \in Stage /\ current[t] \notin Elements(active) \cup suspended
                          /\ \A u \in Thread : current[u] = current[t] => u = t
      /\ from = "idle" => current[t] = None
  BY <1>1, Busy DEF PipeInv, Placed
<1>8. suspended' \subseteq Stage
  BY <1>3, <1>7
<1>9. \A u \in Thread : current[u] \notin Elements(active) \cup suspended
  BY DEF PipeInv, Placed
<1>10. \A j \in Stage : Asking(j)' <=> Asking(j)
  <2> SUFFICES ASSUME NEW j \in Stage
               PROVE  Asking(j)' <=> Asking(j)
    OBVIOUS
  <2>1. ~(current'[t] = j /\ at'[t] = "serve")
    BY <1>1
  <2>2. CASE current[t] = j
    BY <1>1, <1>2, <1>4, <1>7, <2>1, <2>2 DEF Asking
  <2>3. CASE current[t] # j
    BY <1>1, <1>4, <2>1, <2>3 DEF Asking
  <2> QED
    BY <2>2, <2>3
<1>11. Placed'
  <2>1. \A u \in Thread : at'[u] = "idle" <=> current'[u] = None
    BY <1>1, <1>4, <1>5 DEF PipeInv, Placed
  <2>2. \A u, v \in Thread : current'[u] = current'[v] /\ current'[u] # None => u = v
    <3>1. \A u, v \in Thread : current[u] = current[v] /\ current[u] # None => u = v
      BY DEF PipeInv, Placed
    <3>2. \A u \in Thread \ {t} : current'[t] # None => current'[u] # current'[t]
      BY <1>4, <1>5, <1>9
    <3> QED
      BY <1>4, <3>1, <3>2
  <2>3. \A u \in Thread : current'[u] \notin Elements(active') \cup suspended'
    <3>1. current'[t] \notin Elements(active') \cup suspended'
      <4>1. Elements(active) \subseteq Stage
        BY <1>3 DEF Elements
      <4>2. CASE next = None
        <5>1. None \notin Elements(active') \cup suspended'
          BY <1>2, <1>5, <1>8, <4>1
        <5> QED
          BY <1>4, <4>2, <5>1
      <4>3. CASE next # None
        <5>1. next \in Elements(active) /\ next \notin Elements(active')
          BY <1>5, <4>3
        <5> QED
          BY <1>3, <1>4, <1>7, <5>1
      <4> QED
        BY <4>2, <4>3
    <3>2. ASSUME NEW u \in Thread \ {t}
          PROVE  current'[u] \notin Elements(active') \cup suspended'
      BY <1>4, <1>5, <1>7, <1>9
    <3> QED
      BY <3>1, <3>2
  <2>4. Elements(active') \cap suspended' = {}
    BY <1>3, <1>5, <1>7
  <2>5. ASSUME NEW j \in Stage, Unspawned(j)'
        PROVE  j \notin Elements(active') \cup suspended' /\ \A u \in Thread : current'[u] # j
    <3>1. Unspawned(j)
      <4>1. 0 \in Stage
        BY Stages
      <4> QED
        BY <1>10, <2>5, <4>1 DEF Unspawned
    <3>2. j \notin Elements(active) \cup suspended /\ \A u \in Thread : current[u] # j
      BY <3>1 DEF PipeInv, Placed
    <3> QED
      BY <1>2, <1>4, <1>5, <3>2
  <2> QED
    BY <1>2, <1>5, <2>1, <2>2, <2>3, <2>4, <2>5 DEF Placed, Elements
<1>12. Clean'
  <2> SUFFICES ASSUME NEW u \in Thread, at'[u] = "resume"
               PROVE  svc_req'[current'[u]] = "none"
    BY DEF Clean
  <2>1. u # t
    BY <1>1
  <2> QED
    BY <1>1, <1>4, <2>1 DEF PipeInv, Clean
<1> QED
  BY <1>5, <1>6, <1>8, <1>10, <1>11, <1>12

\* Writer w and reader r meet, one of them current and the other suspended.
LEMMA MeetPlaces ==
  ASSUME PipeInv, NEW t \in Thread, NEW w \in Stage, NEW r \in Stage,
         \/ current[t] = r /\ w \in suspended
         \/ current[t] = w /\ r \in suspended,
         Go(t, "serve", "loop"),
         active' = <<w>> \o active, suspended' = suspended \ {w, r},
         current' = [current EXCEPT ![t] = r], UNCHANGED <<pc, svc_req>>
  PROVE  /\ Asking(w) /\ Asking(r) /\ ~Asking(w)' /\ ~Asking(r)'
         /\ \A j \in Stage \ {w, r} : Asking(j)' <=> Asking(j)
         /\ current' \in [Thread -> Stage \cup {None}]
         /\ active' \in Seq(Stage) /\ suspended' \subseteq Stage
         /\ Placed' /\ Clean'
<1>1. /\ at[t] = "serve" /\ at'[t] = "loop" /\ \A u \in Thread \ {t} : at'[u] = at[u]
      /\ program' = program
  BY GoPlaces
<1>2. /\ Stage' = Stage /\ None \notin Stage /\ 0 \in Stage
  BY <1>1, ProgramFixed, Stages
<1>3. /\ active \in Seq(Stage) /\ suspended \subseteq Stage
      /\ current \in [Thread -> Stage \cup {None}]
      /\ Distinct(active) /\ Elements(active) \cap suspended = {}
      /\ \A u \in Thread : current[u] \notin Elements(active) \cup suspended
      /\ \A u \in Thread : current[u] = current[t] => u = t
  BY <1>1, Busy DEF PipeInv, Typed, Placed
<1>4. /\ active' \in Seq(Stage) /\ Elements(active') = Elements(active) \cup {w}
      /\ Distinct(active')
  BY <1>3, PushElements
<1>5. /\ current'[t] = r /\ \A u \in Thread \ {t} : current'[u] = current[u]
      /\ current' \in [Thread -> Stage \cup {None}]
  BY <1>3
<1>6. w # r
  BY <1>3
<1>7. \A u \in Thread \ {t} : current[u] # w /\ current[u] # r
  BY <1>3
<1>8. Asking(w) /\ Asking(r) /\ ~Asking(w)' /\ ~Asking(r)'
  <2>1. Asking(w) /\ Asking(r)
    BY <1>1 DEF Asking
  <2>2. \A u \in Thread : ~(current'[u] = w /\ at'[u] = "serve")
    BY <1>1, <1>5, <1>7
  <2>3. \A u \in Thread : ~(current'[u] = r /\ at'[u] = "serve")
    BY <1>1, <1>5, <1>7
  <2> QED
    BY <2>1, <2>2, <2>3 DEF Asking
<1>9. \A j \in Stage \ {w, r} : Asking(j)' <=> Asking(j)
  BY <1>1, <1>5 DEF Asking
<1>10. Placed'
  <2>1. \A u \in Thread : at'[u] = "idle" <=> current'[u] = None
    BY <1>1, <1>2, <1>5 DEF PipeInv, Placed
  <2>2. \A u, v \in Thread : current'[u] = current'[v] /\ current'[u] # None => u = v
    <3>1. \A u, v \in Thread : current[u] = current[v] /\ current[u] # None => u = v
      BY DEF PipeInv, Placed
    <3> QED
      BY <1>5, <1>7, <3>1
  <2>3. \A u \in Thread : current'[u] \notin Elements(active') \cup suspended'
    BY <1>3, <1>4, <1>5, <1>6, <1>7
  <2>4. Elements(active') \cap suspended' = {}
    BY <1>3, <1>4
  <2>5. ASSUME NEW j \in Stage, Unspawned(j)'
        PROVE  j \notin Elements(active') \cup suspended' /\ \A u \in Thread : current'[u] # j
    <3>1. Unspawned(j)
      BY <1>2, <1>8, <1>9, <2>5 DEF Unspawned
    <3>2. j \notin Elements(active) \cup suspended /\ \A u \in Thread : current[u] # j
      BY <3>1 DEF PipeInv, Placed
    <3> QED
      BY <1>4, <1>5, <3>2
  <2> QED
    BY <1>2, <1>4, <2>1, <2>2, <2>3, <2>4, <2>5 DEF Placed
<1>11. Clean'
  <2> SUFFICES ASSUME NEW u \in Thread, at'[u] = "resume"
               PROVE  svc_req'[current'[u]] = "none"
    BY DEF Clean
  <2> QED
    BY <1>1, <1>5 DEF PipeInv, Clean
<1> QED
  BY <1>3, <1>4, <1>5, <1>8, <1>9, <1>10, <1>11

\* The head of the loop.
LEMMA BeginPlaces ==
  ASSUME PipeInv, NEW t \in Thread, Begin(t)
  PROVE  /\ current[t] \in Stage /\ ~Asking(current[t])
         /\ svc_req' = [svc_req EXCEPT ![current[t]] = "none"]
         /\ \A j : Asking(j)' <=> Asking(j)
         /\ Placed' /\ Clean'
<1>1. /\ at[t] = "loop" /\ at'[t] = "resume" /\ \A u \in Thread \ {t} : at'[u] = at[u]
      /\ program' = program
      /\ svc_req' = [svc_req EXCEPT ![current[t]] = "none"]
      /\ UNCHANGED <<pc, current, active, suspended>>
  BY GoPlaces DEF Begin
<1>2. current[t] \in Stage /\ current[t] # None /\ ~Asking(current[t])
  BY <1>1, Busy
<1>3. \A j : Asking(j)' <=> Asking(j)
  BY <1>1 DEF Asking
<1>4. Stage' = Stage
  BY <1>1, ProgramFixed
<1>5. \A j : Unspawned(j)' <=> Unspawned(j)
  BY <1>1, <1>3 DEF Unspawned
<1>6. Placed'
  <2>1. \A u \in Thread : at'[u] = "idle" <=> current'[u] = None
    BY <1>1, <1>2 DEF PipeInv, Placed
  <2> QED
    BY <1>1, <1>4, <1>5, <2>1 DEF PipeInv, Placed
<1>7. Clean'
  <2> SUFFICES ASSUME NEW u \in Thread, at'[u] = "resume"
               PROVE  svc_req'[current'[u]] = "none"
    BY DEF Clean
  <2>1. CASE u = t
    BY <1>1, <1>2, <2>1 DEF PipeInv, Typed
  <2>2. CASE u # t
    BY <1>1, <2>2, Busy DEF PipeInv, Typed, Clean
  <2> QED
    BY <2>1, <2>2
<1> QED
  BY <1>1, <1>2, <1>3, <1>6, <1>7

\* init spawns the stage it has got to.
LEMMA SpawnPlaces ==
  ASSUME PipeInv, NEW t \in Thread, NEW i \in Stage, Spawn(t, i)
  PROVE  /\ i = 0 /\ ~Asking(0)' /\ pc[0] \in Stage
         /\ \A j \in Stage \ {0} : Asking(j)' <=> Asking(j)
         /\ active' \in Seq(Stage)
         /\ Placed' /\ Clean'
<1>1. /\ at[t] = "serve" /\ at'[t] = "loop" /\ \A u \in Thread \ {t} : at'[u] = at[u]
      /\ program' = program /\ svc_req[i] = "spawn" /\ current[t] = i
      /\ svc_req' = [svc_req EXCEPT ![i] = "none"]
      /\ active' = <<pc[i]>> \o active
      /\ UNCHANGED <<pc, current, suspended>>
  BY GoPlaces DEF Spawn
<1>2. /\ i # None /\ \A u \in Thread : current[u] = i => u = t
      /\ i \notin suspended
      /\ Asking(i)
  BY <1>1, Busy
<1>3. i = 0 /\ pc[0] # 0 /\ pc[0] \in Stage
  <2>1. Kind(i) = "init" /\ pc[i] # 0 /\ pc[i] \in Cases(Kind(i))
    BY <1>1, <1>2 DEF PipeInv, Within
  <2>2. i = 0
    BY <2>1, Stages, Kinded
  <2> QED
    BY <2>1, <2>2 DEF Cases
<1>4. Stage' = Stage /\ Stage \subseteq Nat /\ None \notin Stage
  BY <1>1, ProgramFixed, Stages
<1>5. ~Asking(0)'
  BY <1>1, <1>2, <1>3 DEF Asking
<1>6. \A j \in Stage \ {0} : Asking(j)' <=> Asking(j)
  BY <1>1, <1>3 DEF Asking
<1>7. \A j \in Stage : Unspawned(j)' => Unspawned(j) /\ j # pc[0]
  BY <1>1, <1>3, <1>4, <1>5 DEF Unspawned
<1>8. /\ pc[0] \notin Elements(active) \cup suspended
      /\ \A u \in Thread : current[u] # pc[0]
  BY <1>2, <1>3 DEF PipeInv, Placed, Unspawned
<1>9. /\ active' \in Seq(Stage) /\ Elements(active') = Elements(active) \cup {pc[0]}
      /\ Distinct(active')
  BY <1>1, <1>3, <1>8, PushElements DEF PipeInv, Typed, Placed
<1>10. Placed'
  <2>1. \A u \in Thread : at'[u] = "idle" <=> current'[u] = None
    BY <1>1, <1>2 DEF PipeInv, Placed
  <2>2. \A j \in Stage' : Unspawned(j)' =>
          j \notin Elements(active') \cup suspended' /\ \A u \in Thread : current'[u] # j
    BY <1>1, <1>4, <1>7, <1>9 DEF PipeInv, Placed
  <2> QED
    BY <1>1, <1>8, <1>9, <2>1, <2>2 DEF PipeInv, Placed
<1>11. Clean'
  <2> SUFFICES ASSUME NEW u \in Thread, at'[u] = "resume"
               PROVE  svc_req'[current'[u]] = "none"
    BY DEF Clean
  <2> QED
    BY <1>1, Busy DEF PipeInv, Typed, Clean
<1> QED
  BY <1>3, <1>5, <1>6, <1>9, <1>10, <1>11

-----------------------------------------------------------------------------
(***************************************************************************)
(* The scheduler's steps                                                   *)
(***************************************************************************)

LEMMA AllKept ==
  ASSUME PipeInv, program' = program, \A j \in Stage : Same(j),
         heap' = heap, shown' = shown
  PROVE  /\ \A j \in Stage' : Within(j)'
         /\ \E n : Flow(n)'
         /\ Owned' /\ ShownInOrder'
<1>1. 0 \in Stage /\ program \in Programs
  BY Stages
<1>2. 1 \in Stage /\ 1..Last \subseteq Stage
  BY <1>1, Programmed
<1>3. Within(0)'
  BY <1>1, SameFacts DEF PipeInv
<1>4. Keeps(0) /\ (Holds(0) => Ref(0)' = Ref(0))
  BY <1>1, SameKeeps, SameFacts
<1>5. counter'[1] = counter[1]
  BY <1>2 DEF Same
<1> QED
  BY <1>1, <1>3, <1>4, <1>5, OthersKept

LEMMA BeginInv ==
  ASSUME PipeInv, NEW t \in Thread, Begin(t)
  PROVE  PipeInv'
<1>1. /\ program' = program /\ at' \in [Thread -> {"loop", "resume", "serve", "dead", "idle"}]
  BY GoPlaces DEF Begin
<1>2. /\ current[t] \in Stage /\ ~Asking(current[t])
      /\ svc_req' = [svc_req EXCEPT ![current[t]] = "none"]
      /\ \A j : Asking(j)' <=> Asking(j)
      /\ Placed' /\ Clean'
  BY BeginPlaces
<1>3. UNCHANGED <<pc, squaring, word, outptr, counter, heap, shown, current, active, suspended>>
  BY DEF Begin
<1>4. \A j \in Stage : Same(j)
  BY <1>2, <1>3 DEF PipeInv, Typed, Same
<1>5. /\ \A j \in Stage' : Within(j)'
      /\ \E n : Flow(n)'
      /\ Owned' /\ ShownInOrder'
  BY <1>1, <1>3, <1>4, AllKept
<1>6. Typed'
  BY <1>1, <1>2, <1>3, ProgramFixed DEF PipeInv, Typed
<1> QED
  BY <1>2, <1>5, <1>6 DEF PipeInv

\* A pop.
LEMMA PopInv ==
  ASSUME PipeInv, NEW t \in Thread, NEW from \in {"serve", "dead", "idle"}, Pop(t, from),
         UNCHANGED <<stageVars, heap, shown>>,
         suspended' = IF from = "serve" THEN suspended \cup {current[t]} ELSE suspended
  PROVE  PipeInv'
<1>1. /\ program' = program /\ at' \in [Thread -> {"loop", "resume", "serve", "dead", "idle"}]
  BY GoPlaces DEF Pop
<1>2. /\ \A j \in Stage : Asking(j)' <=> Asking(j)
      /\ current' \in [Thread -> Stage \cup {None}]
      /\ active' \in Seq(Stage) /\ suspended' \subseteq Stage
      /\ Placed' /\ Clean'
  BY PopPlaces DEF stageVars
<1>3. UNCHANGED <<pc, squaring, svc_req, word, outptr, counter, heap, shown>>
  BY DEF stageVars
<1>4. \A j \in Stage : Same(j)
  BY <1>2, <1>3 DEF Same
<1>5. /\ \A j \in Stage' : Within(j)'
      /\ \E n : Flow(n)'
      /\ Owned' /\ ShownInOrder'
  BY <1>1, <1>3, <1>4, AllKept
<1>6. Typed'
  BY <1>1, <1>2, <1>3, ProgramFixed DEF PipeInv, Typed
<1> QED
  BY <1>2, <1>5, <1>6 DEF PipeInv

LEMMA SpawnInv ==
  ASSUME PipeInv, NEW t \in Thread, NEW i \in Stage, Spawn(t, i)
  PROVE  PipeInv'
<1>1. /\ program' = program /\ at' \in [Thread -> {"loop", "resume", "serve", "dead", "idle"}]
  BY GoPlaces DEF Spawn
<1>2. /\ i = 0 /\ ~Asking(0)' /\ pc[0] \in Stage
      /\ \A j \in Stage \ {0} : Asking(j)' <=> Asking(j)
      /\ active' \in Seq(Stage)
      /\ Placed' /\ Clean'
  BY SpawnPlaces
<1>3. /\ UNCHANGED <<pc, squaring, word, outptr, counter, heap, shown, current, suspended>>
      /\ svc_req' = [svc_req EXCEPT ![0] = "none"]
  BY <1>2 DEF Spawn
<1>4. \A j \in Stage \ {0} : Same(j)
  BY <1>2, <1>3 DEF PipeInv, Typed, Same
<1>5. 0 \in Stage /\ Within(0) /\ Kind(0)' = Kind(0) /\ Cases(Kind(0))' = Cases(Kind(0))
  BY <1>1, Stages, ProgramFixed DEF PipeInv, Cases
<1>6. Within(0)'
  BY <1>2, <1>3, <1>5 DEF Within
<1>7. 0 \notin 1..Last
  OBVIOUS
<1>8. /\ \A j \in Stage' : Within(j)'
      /\ \E n : Flow(n)'
      /\ Owned' /\ ShownInOrder'
  BY <1>1, <1>3, <1>4, <1>5, <1>6, <1>7, OthersKept
<1>9. Typed'
  BY <1>1, <1>2, <1>3, ProgramFixed DEF PipeInv, Typed
<1> QED
  BY <1>2, <1>8, <1>9 DEF PipeInv

-----------------------------------------------------------------------------
(***************************************************************************)
(* A writer and a reader                                                   *)
(***************************************************************************)

\* What is passed from stage w to stage r.
Passed(w, r) ==
  /\ program' = program /\ r = w + 1
  /\ Asking(w) /\ svc_req[w] = "write" /\ Asking(r) /\ svc_req[r] = "read"
  /\ ~Asking(w)' /\ ~Asking(r)'
  /\ \A j \in Stage \ {w, r} : Asking(j)' <=> Asking(j)
  /\ UNCHANGED <<pc, squaring, svc_req, outptr, counter, heap, shown>>
  /\ word' = [word EXCEPT ![r] = Offered(w)]

LEMMA PassedFacts ==
  ASSUME PipeInv, NEW w \in Stage, NEW r \in Stage, Passed(w, r)
  PROVE  /\ w \in 1..(Last - 1) /\ r \in 2..Last
         /\ Kind(w) \in Writing /\ Kind(r) \in Reading
         /\ pc[w] = 1 /\ pc[r] \in {1, 2}
         /\ Holds(w) /\ ~Holds(w)' /\ ~Due(w) /\ ~Due(w)'
         /\ ~Holds(r) /\ (Holds(r)' <=> pc[r] = 2)
         /\ (Due(r) <=> pc[r] = 1) /\ ~Due(r)'
         /\ Done(w) <=> Kind(w) \in {"transducer", "caller"}
         /\ ~Done(r)'
         /\ Ref(r)' = Ref(w) /\ Ref(w) = Offered(w)
         /\ \A j \in Stage \ {w, r} : Same(j)
<1>1. /\ program' = program /\ r = w + 1
      /\ Asking(w) /\ svc_req[w] = "write" /\ Asking(r) /\ svc_req[r] = "read"
      /\ ~Asking(w)' /\ ~Asking(r)'
      /\ UNCHANGED <<pc, squaring, svc_req, outptr, counter, heap, shown>>
      /\ word'[r] = Offered(w)
      /\ \A j \in Stage \ {r} : word'[j] = word[j]
  BY DEF Passed, PipeInv, Typed
<1>2. /\ pc[w] = 1 /\ Kind(w) \in Writing
      /\ pc[r] \in {1, 2} /\ Kind(r) \in Reading
      /\ pc[r] = 1 => Kind(r) \in {"caller", "consumer"}
      /\ ~squaring[w] /\ ~squaring[r]
  BY <1>1 DEF PipeInv, Within, Reading, Writing
<1>3. w \in 1..(Last - 1) /\ r \in 2..Last
  BY <1>2, Stages, Kinded
<1>4. Kind(w)' = Kind(w) /\ Kind(r)' = Kind(r)
  BY <1>1, ProgramFixed
<1>5. /\ Holds(w) /\ ~Holds(w)'
      /\ ~Holds(r) /\ (Holds(r)' <=> pc[r] = 2)
  BY <1>1, <1>2 DEF Holds
<1>6. ~Due(w) /\ ~Due(w)' /\ (Due(r) <=> pc[r] = 1) /\ ~Due(r)'
  BY <1>1, <1>2 DEF Due
<1>7. (Done(w) <=> Kind(w) \in {"transducer", "caller"}) /\ ~Done(r)'
  BY <1>1, <1>2, <1>4 DEF Done
<1>8. Ref(r)' = Ref(w) /\ Ref(w) = Offered(w)
  BY <1>1 DEF Ref
<1>9. \A j \in Stage \ {w, r} : Same(j)
  BY <1>1 DEF Same, Passed
<1> QED
  BY <1>2, <1>3, <1>5, <1>6, <1>7, <1>8, <1>9

\* What w held is what r holds, but for a value that is to be dropped.
LEMMA PassedFlow ==
  ASSUME PipeInv, NEW w \in Stage, NEW r \in Stage, Passed(w, r)
  PROVE  \E n : Flow(n)'
<1> DEFINE Depth(i) == Before({"transducer", "caller"}, i)
<1>1. /\ w \in 1..(Last - 1) /\ r \in 2..Last /\ r = w + 1
      /\ pc[w] = 1 /\ pc[r] \in {1, 2}
      /\ Holds(w) /\ ~Holds(w)' /\ ~Due(w) /\ ~Due(w)'
      /\ ~Holds(r) /\ (Holds(r)' <=> pc[r] = 2)
      /\ (Due(r) <=> pc[r] = 1) /\ ~Due(r)'
      /\ Done(w) <=> Kind(w) \in {"transducer", "caller"}
      /\ ~Done(r)'
      /\ Ref(r)' = Ref(w) /\ Ref(w) = Offered(w)
      /\ \A j \in Stage \ {w, r} : Same(j)
  BY PassedFacts DEF Passed
<1>2. /\ program' = program /\ heap' = heap /\ shown' = shown /\ counter' = counter
      /\ word'[r] = Offered(w)
  BY DEF Passed, PipeInv, Typed
<1>3. /\ program \in Programs /\ Last \in Nat /\ 2 <= Last /\ Last <= Len(program)
      /\ 1..Last \subseteq Stage /\ Last + 1 \in 1..(Last + 1)
  BY Stages, Programmed
<1>4. /\ Last' = Last /\ Lost' = Lost /\ Chips' = Chips
      /\ \A i : Depth(i)' = Depth(i)
  BY <1>2, ProgramFixed
<1>5. PICK n : Flow(n)
  BY DEF PipeInv
<1>6. /\ n \in [1..(Last + 1) -> Nat]
      /\ n[1] = counter[1] /\ n[Last + 1] = Len(shown) + Lost
      /\ \A i \in 1..Last : n[i] + One(Due(i)) = n[i + 1] + One(Holds(i))
      /\ \A i \in 1..Last : Holds(i) => Item(i) = <<n[i], Depth(i) + One(Done(i))>>
  BY <1>5 DEF Flow
<1> DEFINE m == [n EXCEPT ![r] = n[r] + 1]
<1> HIDE DEF Depth
<1>7. r \in 1..(Last + 1) /\ r # 1 /\ r # Last + 1 /\ w \in 1..Last /\ w # r /\ r \in 1..Last
  BY <1>1, <1>3
<1>8. /\ m \in [1..(Last + 1) -> Nat]
      /\ m[1] = counter[1] /\ m[Last + 1] = Len(shown) + Lost
      /\ m[r] = n[r] + 1
      /\ \A i \in 1..(Last + 1) : i # r => m[i] = n[i]
      /\ n[w] \in Nat /\ n[r] \in Nat
  <2>1. n \in [1..(Last + 1) -> Nat] /\ n[1] = counter[1] /\ n[Last + 1] = Len(shown) + Lost
    BY <1>6
  <2>2. 1 \in 1..(Last + 1) /\ Last + 1 \in 1..(Last + 1) /\ w \in 1..(Last + 1)
    BY <1>3, <1>7
  <2>3. n[r] \in Nat /\ n[w] \in Nat
    BY <1>7, <2>1, <2>2
  <2>4. n[r] + 1 \in Nat
    BY <2>3
  <2> QED
    BY <1>7, <2>1, <2>2, <2>3, <2>4
<1> HIDE DEF m
<1>9. n[w] = n[r] + 1
  <2>1. n[w] + One(Due(w)) = n[w + 1] + One(Holds(w))
    BY <1>6, <1>7
  <2>2. n[w] \in Nat /\ n[r] \in Nat
    BY <1>8
  <2> QED
    BY <1>1, <2>1, <2>2 DEF One
<1>10. ASSUME NEW i \in 1..Last
       PROVE  m[i] + One(Due(i)') = m[i + 1] + One(Holds(i)')
  <2>1. i + 1 \in 1..(Last + 1) /\ i \in 1..(Last + 1)
    BY <1>3
  <2>2. n[i] + One(Due(i)) = n[i + 1] + One(Holds(i)) /\ n[i] \in Nat /\ n[i + 1] \in Nat
    BY <1>6, <2>1
  <2>3. CASE i = w
    BY <1>1, <1>7, <1>8, <1>9, <2>1, <2>2, <2>3 DEF One
  <2>4. CASE i = r
    <3>1. m[i] = n[i] + 1 /\ m[i + 1] = n[i + 1]
      BY <1>8, <2>1, <2>4
    <3>2. CASE pc[r] = 1
      BY <1>1, <2>2, <2>4, <3>1, <3>2 DEF One
    <3>3. CASE pc[r] = 2
      BY <1>1, <2>2, <2>4, <3>1, <3>3 DEF One
    <3> QED
      BY <1>1, <3>2, <3>3
  <2>5. CASE i \notin {w, r}
    <3>1. m[i] = n[i] /\ m[i + 1] = n[i + 1]
      BY <1>1, <1>8, <2>1, <2>5
    <3>2. (Due(i)' <=> Due(i)) /\ (Holds(i)' <=> Holds(i))
      BY <1>1, <1>2, <1>3, <2>5, SameFacts
    <3> QED
      BY <2>2, <3>1, <3>2 DEF One
  <2> QED
    BY <2>3, <2>4, <2>5
<1>11. ASSUME NEW i \in 1..Last, Holds(i)'
       PROVE  Item(i)' = <<m[i], Depth(i) + One(Done(i)')>>
  <2>1. CASE i = r
    <3>1. Item(w) = <<n[w], Depth(w) + One(Done(w))>>
      BY <1>1, <1>6, <1>7
    <3>2. Item(r)' = Item(w)
      <4>1. CASE Chips = 1..Last
        BY <1>1, <1>2, <1>4, <1>7, <4>1 DEF Item
      <4>2. CASE Chips = {} /\ \A j \in Stage : Kind(j) \notin {"source", "bound", "transducer", "sink"}
        BY <1>1, <1>2, <1>4, <4>2 DEF Item, Offered
      <4> QED
        BY <1>3, <4>1, <4>2, ChipsOrNone
    <3>3. Depth(r) = Depth(w) + One(Kind(w) \in {"transducer", "caller"}) /\ Depth(r) \in Nat
      BY <1>1, <1>3, <1>7, BeforeRule DEF Depth
    <3>4. Depth(r) = Depth(w) + One(Done(w))
      BY <1>1, <3>3 DEF One
    <3> QED
      BY <1>1, <1>8, <1>9, <2>1, <3>1, <3>2, <3>3, <3>4 DEF One
  <2>2. CASE i # r
    <3>1. i # w /\ i \in Stage /\ i \in 1..(Last + 1)
      BY <1>1, <1>3, <1>11
    <3>2. Keeps(i) /\ (Done(i)' <=> Done(i))
      BY <1>1, <1>2, <2>2, <3>1, SameKeeps, SameFacts
    <3>3. Item(i)' = Item(i)
      BY <1>1, <1>2, <1>4, <1>11, <2>2, <3>1, SameFacts DEF Item, Same
    <3>4. Item(i) = <<n[i], Depth(i) + One(Done(i))>>
      BY <1>6, <1>11, <3>2 DEF Keeps
    <3> QED
      BY <1>8, <2>2, <3>1, <3>2, <3>3, <3>4 DEF One
  <2> QED
    BY <2>1, <2>2
<1>12. /\ m \in [1..(Last' + 1) -> Nat]
       /\ m[1] = counter'[1] /\ m[Last' + 1] = Len(shown') + Lost'
  BY <1>2, <1>4, <1>8
<1>13. \A i \in 1..Last' : m[i] + One(Due(i))' = m[i + 1] + One(Holds(i))'
  BY <1>4, <1>10 DEF One
<1>14. \A i \in 1..Last' : Holds(i)' =>
         Item(i)' = <<m[i], Before({"transducer", "caller"}, i)' + One(Done(i))'>>
  BY <1>4, <1>11 DEF One, Depth
<1> QED
  BY <1>12, <1>13, <1>14 DEF Flow

LEMMA PassedOwned ==
  ASSUME PipeInv, NEW w \in Stage, NEW r \in Stage, Passed(w, r)
  PROVE  Owned'
<1>1. /\ w \in 1..(Last - 1) /\ r \in 2..Last
      /\ Kind(r) \in Reading
      /\ Holds(w) /\ ~Holds(w)' /\ ~Holds(r)
      /\ Holds(r)' <=> pc[r] = 2
      /\ Due(r) <=> pc[r] = 1
      /\ pc[r] \in {1, 2}
      /\ Ref(r)' = Ref(w)
      /\ \A j \in Stage \ {w, r} : Same(j)
  BY PassedFacts
<1>2. program' = program /\ heap' = heap
  BY DEF Passed
<1>3. /\ program \in Programs /\ Last \in Nat /\ 2 <= Last /\ Last <= Len(program)
      /\ 1..Last \subseteq Stage /\ Chips' = Chips
  BY <1>2, Stages, Programmed, ProgramFixed
<1>4. Owned
  BY DEF PipeInv
<1>5. CASE Chips = 1..Last /\ \A i \in Stage : Kind(i) \notin {"producer", "caller", "consumer"}
  <2>1. Holds(r)'
    BY <1>1, <1>5 DEF Due
  <2>2. w \in Chips /\ r \in Chips /\ Chips \subseteq Stage /\ w # r
    BY <1>1, <1>3, <1>5 DEF Passed
  <2>3. \A j \in Chips \ {w, r} : (Holds(j)' <=> Holds(j)) /\ (Holds(j) => Ref(j)' = Ref(j))
    BY <1>1, <1>2, <2>2, SameFacts
  <2>4. \A j \in Chips : Holds(j)' =>
          \/ j = r /\ Ref(j)' = Ref(w)
          \/ j # r /\ j # w /\ Holds(j) /\ Ref(j)' = Ref(j)
    BY <1>1, <2>3
  <2>5. \A j \in Chips : Holds(j)' => Ref(j)' \in Address /\ heap[Ref(j)'] # None
    BY <1>1, <1>4, <2>2, <2>4 DEF Owned
  <2>6. \A i, j \in Chips : Holds(i)' /\ Holds(j)' /\ Ref(i)' = Ref(j)' => i = j
    BY <1>1, <1>4, <2>2, <2>4 DEF Owned
  <2>7. ASSUME NEW a \in Address, heap[a] # None
        PROVE  \E i \in Chips : Holds(i)' /\ Ref(i)' = a
    <3>1. PICK i \in Chips : Holds(i) /\ Ref(i) = a
      BY <1>4, <2>7 DEF Owned
    <3>2. CASE i = w
      BY <1>1, <2>1, <2>2, <3>1, <3>2
    <3>3. CASE i # w
      BY <1>1, <2>3, <3>1, <3>3
    <3> QED
      BY <3>2, <3>3
  <2> QED
    BY <1>2, <1>3, <2>5, <2>6, <2>7 DEF Owned
<1>6. CASE Chips = {}
  BY <1>2, <1>4, <1>6, OwnedKept
<1> QED
  BY <1>3, <1>5, <1>6, ChipsOrNone

LEMMA PassedInv ==
  ASSUME PipeInv, NEW t \in Thread, NEW w \in Stage, NEW r \in Stage, r = w + 1,
         \/ current[t] = r /\ w \in suspended
         \/ current[t] = w /\ r \in suspended,
         svc_req[w] = "write", svc_req[r] = "read",
         Go(t, "serve", "loop"), Transfer(w, r),
         active' = <<w>> \o active, suspended' = suspended \ {w, r},
         current' = [current EXCEPT ![t] = r],
         UNCHANGED <<pc, squaring, svc_req, outptr, counter, heap, shown>>
  PROVE  PipeInv'
<1>1. /\ program' = program /\ at' \in [Thread -> {"loop", "resume", "serve", "dead", "idle"}]
  BY GoPlaces
<1>2. /\ Asking(w) /\ Asking(r) /\ ~Asking(w)' /\ ~Asking(r)'
      /\ \A j \in Stage \ {w, r} : Asking(j)' <=> Asking(j)
      /\ current' \in [Thread -> Stage \cup {None}]
      /\ active' \in Seq(Stage) /\ suspended' \subseteq Stage
      /\ Placed' /\ Clean'
  BY MeetPlaces
<1>3. Passed(w, r)
  BY <1>1, <1>2 DEF Passed, Transfer
<1>4. /\ pc[w] = 1 /\ pc[r] \in {1, 2}
      /\ \A j \in Stage \ {w, r} : Same(j)
  BY <1>3, PassedFacts
<1>5. Stage' = Stage
  BY <1>1, ProgramFixed
<1>6. \A j \in Stage' : Within(j)'
  <2> SUFFICES ASSUME NEW j \in Stage
               PROVE  Within(j)'
    BY <1>5
  <2>0. Within(j)
    BY DEF PipeInv
  <2>1. CASE j \in {w, r}
    <3>1. ~Asking(j)' /\ Kind(j)' = Kind(j) /\ Cases(Kind(j))' = Cases(Kind(j))
      BY <1>1, <1>2, <2>1, ProgramFixed DEF Cases
    <3> QED
      BY <2>0, <3>1 DEF Within
  <2>2. CASE j \notin {w, r}
    BY <1>1, <1>4, <2>0, <2>2, SameFacts
  <2> QED
    BY <2>1, <2>2
<1>7. Typed'
  <2>1. word' \in [Stage -> Address \cup {None} \cup Value]
    <3>1. Offered(w) \in Address \cup {None} \cup Value
      BY DEF Offered, PipeInv, Typed
    <3> QED
      BY <3>1 DEF Transfer, PipeInv, Typed
  <2> QED
    BY <1>1, <1>2, <1>5, <2>1, ProgramFixed DEF PipeInv, Typed
<1>8. ShownInOrder'
  BY <1>1, ShownKept DEF PipeInv
<1> QED
  BY <1>2, <1>3, <1>6, <1>7, <1>8, PassedFlow, PassedOwned DEF PipeInv

LEMMA ReadInv ==
  ASSUME PipeInv, NEW t \in Thread, NEW i \in Stage, Read(t, i)
  PROVE  PipeInv'
<1>1. at[t] = "serve" /\ current[t] = i /\ svc_req[i] = "read"
  BY DEF Read
<1>2. i \notin suspended /\ Asking(i)
  BY <1>1, Busy
<1>3. CASE /\ Waits(i - 1, "write")
           /\ Transfer(i - 1, i)
           /\ suspended' = suspended \ {i - 1}
           /\ active' = <<i - 1>> \o active
           /\ Go(t, "serve", "loop")
           /\ UNCHANGED <<pc, squaring, svc_req, outptr, counter, heap, shown, current>>
  <2>1. i - 1 \in Stage /\ i - 1 \in suspended /\ svc_req[i - 1] = "write"
    BY <1>3 DEF Waits, PipeInv, Typed
  <2>2. i = (i - 1) + 1
    BY Stages
  <2>3. suspended' = suspended \ {i - 1, i}
    BY <1>2, <1>3
  <2>4. current' = [current EXCEPT ![t] = i]
    BY <1>1, <1>3 DEF PipeInv, Typed
  <2> QED
    BY <1>1, <1>3, <2>1, <2>2, <2>3, <2>4, PassedInv
<1>4. CASE Suspend(t, i)
  BY <1>1, <1>4, PopInv DEF Suspend
<1> QED
  BY <1>3, <1>4 DEF Read

LEMMA WriteInv ==
  ASSUME PipeInv, NEW t \in Thread, NEW i \in Stage, Write(t, i)
  PROVE  PipeInv'
<1>1. at[t] = "serve" /\ current[t] = i /\ svc_req[i] = "write"
  BY DEF Write
<1>2. i \notin suspended /\ Asking(i)
  BY <1>1, Busy
<1>3. CASE /\ Waits(i + 1, "read")
           /\ Transfer(i, i + 1)
           /\ suspended' = suspended \ {i + 1}
           /\ active' = <<i>> \o active
           /\ current' = [current EXCEPT ![t] = i + 1]
           /\ Go(t, "serve", "loop")
           /\ UNCHANGED <<pc, squaring, svc_req, outptr, counter, heap, shown>>
  <2>1. i + 1 \in Stage /\ i + 1 \in suspended /\ svc_req[i + 1] = "read"
    BY <1>3 DEF Waits, PipeInv, Typed
  <2>2. suspended' = suspended \ {i, i + 1}
    BY <1>2, <1>3
  <2> QED
    BY <1>1, <1>3, <2>1, <2>2, PassedInv
<1>4. CASE Suspend(t, i)
  BY <1>1, <1>4, PopInv DEF Suspend
<1> QED
  BY <1>3, <1>4 DEF Write

-----------------------------------------------------------------------------
(***************************************************************************)
(* Resumptions that change no object and show nothing                      *)
(***************************************************************************)

\* A stage that is resumed.
LEMMA Resumed ==
  ASSUME PipeInv, NEW t \in Thread, NEW i \in Stage, at[t] = "resume", current[t] = i
  PROVE  /\ ~Asking(i) /\ svc_req[i] = "none" /\ Within(i)
         /\ Holds(i) <=> pc[i] \in {2, 3}
         /\ Due(i) <=> Kind(i) \in {"caller", "consumer"} /\ pc[i] = 0
BY Busy DEF PipeInv, Clean, Holds, Due

LEMMA AskFrame ==
  ASSUME PipeInv, NEW t \in Thread, NEW i \in Stage, current[t] = i,
         NEW code \in {"read", "write", "spawn"}, NEW case \in Nat,
         i = 0 => case = pc[0] + 1, Ask(t, i, code, case)
  PROVE  /\ at[t] = "resume" /\ program' = program
         /\ Asking(i)' /\ svc_req'[i] = code /\ pc'[i] = case /\ squaring'[i] = squaring[i]
         /\ \A j \in Stage \ {i} : /\ Asking(j)' <=> Asking(j)
                                   /\ pc'[j] = pc[j] /\ svc_req'[j] = svc_req[j]
                                   /\ squaring'[j] = squaring[j]
         /\ at' \in [Thread -> {"loop", "resume", "serve", "dead", "idle"}]
         /\ pc' \in [Stage -> Nat]
         /\ svc_req' \in [Stage -> {"none", "read", "write", "spawn"}]
         /\ UNCHANGED <<squaring, current, active, suspended>>
         /\ Placed' /\ Clean'
<1>1. /\ at[t] = "resume" /\ program' = program
      /\ at' \in [Thread -> {"loop", "resume", "serve", "dead", "idle"}]
  BY GoPlaces DEF Ask
<1>2. /\ svc_req' = [svc_req EXCEPT ![i] = code] /\ pc' = [pc EXCEPT ![i] = case]
      /\ UNCHANGED <<squaring, current, active, suspended>>
      /\ Go(t, "resume", "serve")
  BY DEF Ask
<1>3. /\ pc' \in [Stage -> Nat] /\ pc'[i] = case /\ \A j \in Stage \ {i} : pc'[j] = pc[j]
      /\ svc_req' \in [Stage -> {"none", "read", "write", "spawn"}]
      /\ svc_req'[i] = code /\ \A j \in Stage \ {i} : svc_req'[j] = svc_req[j]
  BY <1>2 DEF PipeInv, Typed
<1>4. IF i = 0 THEN pc'[0] = pc[0] + 1 ELSE pc'[0] = pc[0]
  BY <1>3, Stages
<1>5. /\ Asking(i)' /\ \A j \in Stage \ {i} : Asking(j)' <=> Asking(j)
      /\ Placed' /\ Clean'
  BY <1>2, <1>3, <1>4, ResumePlaces
<1> QED
  BY <1>1, <1>2, <1>3, <1>5

LEMMA AskInv ==
  ASSUME PipeInv, NEW t \in Thread, NEW i \in Stage, current[t] = i,
         NEW code \in {"read", "write", "spawn"}, NEW case \in Nat,
         i = 0 => case = pc[0] + 1, Ask(t, i, code, case),
         counter' \in [Stage -> Nat], counter'[1] = counter[1],
         \A j \in Stage \ {i} : counter'[j] = counter[j],
         UNCHANGED <<word, outptr, heap, shown>>,
         Within(i)',
         i \in 1..Last => Keeps(i),
         i \in Chips /\ Holds(i) => Ref(i)' = Ref(i)
  PROVE  PipeInv'
<1>1. /\ program' = program
      /\ \A j \in Stage \ {i} : /\ Asking(j)' <=> Asking(j)
                                /\ pc'[j] = pc[j] /\ svc_req'[j] = svc_req[j]
                                /\ squaring'[j] = squaring[j]
      /\ at' \in [Thread -> {"loop", "resume", "serve", "dead", "idle"}]
      /\ pc' \in [Stage -> Nat]
      /\ svc_req' \in [Stage -> {"none", "read", "write", "spawn"}]
      /\ UNCHANGED <<squaring, current, active, suspended>>
      /\ Placed' /\ Clean'
  BY AskFrame
<1>2. \A j \in Stage \ {i} : Same(j)
  BY <1>1 DEF Same
<1>3. /\ \A j \in Stage' : Within(j)'
      /\ \E n : Flow(n)'
      /\ Owned' /\ ShownInOrder'
  BY <1>1, <1>2, OthersKept
<1>4. Typed'
  BY <1>1, ProgramFixed DEF PipeInv, Typed
<1> QED
  BY <1>1, <1>3, <1>4 DEF PipeInv

LEMMA SuicideInv ==
  ASSUME PipeInv, NEW t \in Thread, NEW i \in Stage, current[t] = i, Suicide(t)
  PROVE  PipeInv'
<1>1. /\ Go(t, "resume", "dead")
      /\ UNCHANGED <<pc, squaring, svc_req, word, outptr, counter, heap, shown,
                     current, active, suspended>>
  BY DEF Suicide, stageVars
<1>2. /\ at[t] = "resume" /\ program' = program
      /\ at' \in [Thread -> {"loop", "resume", "serve", "dead", "idle"}]
  BY <1>1, GoPlaces
<1>3. /\ ~Asking(i) /\ ~Asking(i)'
      /\ \A j \in Stage \ {i} : Asking(j)' <=> Asking(j)
      /\ Placed' /\ Clean'
  BY <1>1, ResumePlaces
<1>4. \A j \in Stage : Same(j)
  BY <1>1, <1>3 DEF Same
<1>5. /\ \A j \in Stage' : Within(j)'
      /\ \E n : Flow(n)'
      /\ Owned' /\ ShownInOrder'
  BY <1>1, <1>2, <1>4, AllKept
<1>6. Typed'
  BY <1>1, <1>2, ProgramFixed DEF PipeInv, Typed
<1> QED
  BY <1>3, <1>5, <1>6 DEF PipeInv

\* A coroutine that asks to read holds nothing.
LEMMA ReadAsked ==
  ASSUME PipeInv, NEW t \in Thread, NEW i \in Stage, current[t] = i,
         pc[i] \in {0, 1}, ~squaring[i],
         \/ /\ Kind(i) \in {"sink", "transducer", "bound"} /\ Ask(t, i, "read", 2)
            /\ Kind(i) = "bound" => counter[i] # 0
         \/ Kind(i) \in {"caller", "consumer"} /\ Ask(t, i, "read", pc[i] + 1),
         UNCHANGED <<word, outptr, counter, heap, shown>>
  PROVE  PipeInv'
<1>1. PICK case \in {1, 2} :
        /\ Ask(t, i, "read", case)
        /\ \/ Kind(i) \in {"sink", "transducer", "bound"} /\ case = 2
           \/ Kind(i) \in {"caller", "consumer"} /\ case = pc[i] + 1
  OBVIOUS
<1>2. program \in Programs /\ i # 0 /\ case \in Nat
  BY Stages, Kinded
<1>3. /\ at[t] = "resume" /\ program' = program
      /\ Asking(i)' /\ svc_req'[i] = "read" /\ pc'[i] = case /\ squaring'[i] = squaring[i]
  BY <1>1, <1>2, AskFrame
<1>4. /\ ~Asking(i) /\ svc_req[i] = "none" /\ Within(i)
      /\ ~Holds(i)
      /\ Due(i) <=> Kind(i) \in {"caller", "consumer"} /\ pc[i] = 0
  BY <1>3, Resumed
<1>5. Kind(i)' = Kind(i)
  BY <1>3, ProgramFixed
<1>6. Within(i)'
  <2>1. case \in Cases(Kind(i))'
    BY <1>1, <1>5 DEF Cases
  <2> QED
    BY <1>1, <1>3, <1>5, <2>1 DEF Within
<1>7. ~Holds(i)' /\ (Due(i)' <=> Due(i))
  BY <1>1, <1>3, <1>4, <1>5 DEF Holds, Due
<1>8. counter' \in [Stage -> Nat]
  BY DEF PipeInv, Typed
<1> QED
  BY <1>1, <1>2, <1>4, <1>6, <1>7, <1>8, AskInv DEF Keeps

LEMMA ChipReadsInv ==
  ASSUME PipeInv, NEW t \in Thread, NEW i \in Stage, ChipReads(t, i)
  PROVE  PipeInv'
BY ReadAsked DEF ChipReads, Resumes

LEMMA ReadsInv ==
  ASSUME PipeInv, NEW t \in Thread, NEW i \in Stage, Reads(t, i)
  PROVE  PipeInv'
BY ReadAsked DEF Reads, Resumes

LEMMA BoundReadsInv ==
  ASSUME PipeInv, NEW t \in Thread, NEW i \in Stage, BoundReads(t, i)
  PROVE  PipeInv'
BY ReadAsked, SuicideInv DEF BoundReads, Resumes

LEMMA HelloInv ==
  ASSUME PipeInv, NEW t \in Thread, NEW i \in Stage, Hello(t, i)
  PROVE  PipeInv'
BY SuicideInv DEF Hello, Resumes

LEMMA ConstructInv ==
  ASSUME PipeInv, NEW t \in Thread, NEW i \in Stage, Construct(t, i)
  PROVE  PipeInv'
<1>1. /\ at[t] = "resume" /\ current[t] = i /\ Kind(i) = "init" /\ ~squaring[i]
  BY DEF Construct, Resumes
<1>2. i = 0 /\ pc[0] \in Stage /\ Stage = 0..Len(program) /\ Len(program) \in Nat
  <2>1. Within(i) /\ program \in Programs
    BY <1>1, Resumed, Stages
  <2>2. i = 0
    BY <1>1, <2>1, Kinded
  <2> QED
    BY <1>1, <2>1, <2>2, Programmed DEF Within, Cases
<1>3. CASE pc[i] = Len(program) /\ Suicide(t)
  BY <1>1, <1>3, SuicideInv
<1>4. CASE /\ pc[i] # Len(program)
           /\ Ask(t, i, "spawn", pc[i] + 1)
           /\ UNCHANGED <<word, outptr, counter, heap, shown>>
  <2>1. pc[0] + 1 \in Stage /\ pc[0] + 1 \in Nat /\ pc[0] + 1 # 0
    BY <1>2, <1>4
  <2>2. /\ program' = program /\ Asking(0)' /\ svc_req'[0] = "spawn" /\ pc'[0] = pc[0] + 1
        /\ squaring'[0] = squaring[0]
    BY <1>1, <1>2, <1>4, <2>1, AskFrame
  <2>3. Kind(0)' = "init" /\ Cases("init")' = Stage
    BY <1>1, <1>2, <2>2, ProgramFixed DEF Cases
  <2>4. Within(0)'
    BY <1>1, <1>2, <2>1, <2>2, <2>3 DEF Within
  <2>5. i \notin 1..Last /\ i \notin Chips
    BY <1>1, <1>2 DEF Chips
  <2>6. counter' \in [Stage -> Nat]
    BY <1>4 DEF PipeInv, Typed
  <2> QED
    BY <1>1, <1>2, <1>4, <2>1, <2>4, <2>5, <2>6, AskInv
<1> QED
  BY <1>3, <1>4 DEF Construct

LEMMA BoundWritesInv ==
  ASSUME PipeInv, NEW t \in Thread, NEW i \in Stage, BoundWrites(t, i)
  PROVE  PipeInv'
<1>1. /\ at[t] = "resume" /\ current[t] = i /\ Kind(i) = "bound" /\ ~squaring[i] /\ pc[i] = 2
      /\ counter' = [counter EXCEPT ![i] = @ - 1]
      /\ Ask(t, i, "write", 1)
      /\ UNCHANGED <<word, outptr, heap, shown>>
  BY DEF BoundWrites, Resumes
<1>2. program \in Programs /\ i # 0 /\ i # 1 /\ i \in 2..Last
  BY <1>1, Stages, Kinded DEF Reading
<1>3. /\ ~Asking(i) /\ Within(i) /\ Holds(i) /\ ~Due(i)
  BY <1>1, Resumed
<1>4. /\ program' = program /\ Asking(i)' /\ svc_req'[i] = "write" /\ pc'[i] = 1
      /\ squaring'[i] = squaring[i]
  BY <1>1, <1>2, AskFrame
<1>5. Kind(i)' = "bound" /\ Chips' = Chips
  BY <1>1, <1>4, ProgramFixed
<1>6. Within(i)'
  BY <1>1, <1>4, <1>5 DEF Within, Cases
<1>7. Holds(i)' /\ ~Due(i)' /\ ~Done(i) /\ ~Done(i)'
  BY <1>1, <1>4, <1>5 DEF Holds, Due, Done
<1>8. Ref(i)' = Ref(i)
  BY <1>1, <1>3, <1>4, <1>5 DEF Ref, Offered
<1>9. Keeps(i)
  BY <1>1, <1>3, <1>5, <1>7, <1>8 DEF Keeps, Item
<1>10. /\ counter' \in [Stage -> Nat] /\ counter'[1] = counter[1]
       /\ \A j \in Stage \ {i} : counter'[j] = counter[j]
  <2>1. counter \in [Stage -> Nat] /\ counter[i] # 0
    BY <1>1, <1>3 DEF PipeInv, Typed, Within
  <2>2. counter[i] - 1 \in Nat
    BY <2>1
  <2>3. 1 \in Stage
    BY <1>2, Programmed
  <2> QED
    BY <1>1, <1>2, <2>1, <2>2, <2>3
<1> QED
  BY <1>1, <1>2, <1>6, <1>8, <1>9, <1>10, AskInv

LEMMA CallerWritesInv ==
  ASSUME PipeInv, NEW t \in Thread, NEW i \in Stage, CallerWrites(t, i)
  PROVE  PipeInv'
<1>1. /\ at[t] = "resume" /\ current[t] = i /\ Kind(i) = "caller" /\ ~squaring[i] /\ pc[i] = 3
      /\ Ask(t, i, "write", 1)
      /\ UNCHANGED <<word, outptr, counter, heap, shown>>
  BY DEF CallerWrites, Resumes
<1>2. program \in Programs /\ i # 0 /\ i \notin Chips
  BY <1>1, Stages, Kinded DEF Chips
<1>3. /\ ~Asking(i) /\ Within(i) /\ Holds(i) /\ ~Due(i)
  BY <1>1, Resumed
<1>4. /\ program' = program /\ Asking(i)' /\ svc_req'[i] = "write" /\ pc'[i] = 1
      /\ squaring'[i] = squaring[i]
  BY <1>1, <1>2, AskFrame
<1>5. Kind(i)' = "caller" /\ Chips' = Chips
  BY <1>1, <1>4, ProgramFixed
<1>6. Within(i)'
  BY <1>1, <1>4, <1>5 DEF Within, Cases
<1>7. Holds(i)' /\ ~Due(i)' /\ Done(i) /\ Done(i)'
  BY <1>1, <1>4, <1>5 DEF Holds, Due, Done
<1>8. Item(i)' = Item(i)
  BY <1>1, <1>2, <1>5 DEF Item
<1>9. Keeps(i)
  BY <1>3, <1>7, <1>8 DEF Keeps
<1>10. counter' \in [Stage -> Nat]
  BY <1>1 DEF PipeInv, Typed
<1> QED
  BY <1>1, <1>2, <1>6, <1>9, <1>10, AskInv

\* A continuation that goes on without a request.
LEMMA ContinueFrame ==
  ASSUME PipeInv, NEW t \in Thread, NEW i \in Stage, current[t] = i, i # 0,
         NEW case \in Nat, Continue(t, i, case)
  PROVE  /\ at[t] = "resume" /\ program' = program
         /\ ~Asking(i)' /\ pc'[i] = case /\ pc' = [pc EXCEPT ![i] = case]
         /\ \A j \in Stage \ {i} : (Asking(j)' <=> Asking(j)) /\ pc'[j] = pc[j]
         /\ at' \in [Thread -> {"loop", "resume", "serve", "dead", "idle"}]
         /\ pc' \in [Stage -> Nat]
         /\ UNCHANGED <<svc_req, outptr, counter, heap, current, active, suspended>>
         /\ Placed' /\ Clean'
<1>1. /\ at[t] = "resume" /\ program' = program
      /\ at' \in [Thread -> {"loop", "resume", "serve", "dead", "idle"}]
  BY GoPlaces DEF Continue
<1>2. svc_req[i] = "none"
  BY <1>1, Resumed
<1>3. /\ pc' = [pc EXCEPT ![i] = case] /\ Go(t, "resume", "resume")
      /\ UNCHANGED <<svc_req, outptr, counter, heap, current, active, suspended>>
  BY <1>2 DEF Continue
<1>4. pc' \in [Stage -> Nat] /\ pc'[i] = case /\ \A j \in Stage \ {i} : pc'[j] = pc[j]
  BY <1>3 DEF PipeInv, Typed
<1>5. /\ ~Asking(i)' /\ \A j \in Stage \ {i} : Asking(j)' <=> Asking(j)
      /\ Placed' /\ Clean'
  BY <1>2, <1>3, <1>4, Stages, ResumePlaces
<1> QED
  BY <1>1, <1>3, <1>4, <1>5

LEMMA CallInv ==
  ASSUME PipeInv, NEW t \in Thread, NEW i \in Stage, Call(t, i)
  PROVE  PipeInv'
<1>1. /\ at[t] = "resume" /\ current[t] = i /\ Kind(i) = "caller" /\ pc[i] = 2
      /\ squaring' = [squaring EXCEPT ![i] = TRUE]
      /\ Continue(t, i, 3)
      /\ UNCHANGED <<word, shown>>
  BY DEF Call, Resumes
<1>2. program \in Programs /\ i # 0 /\ i \notin Chips
  BY <1>1, Stages, Kinded DEF Chips
<1>3. /\ ~Asking(i) /\ Within(i) /\ Holds(i) /\ ~Due(i)
  BY <1>1, Resumed
<1>4. /\ program' = program
      /\ ~Asking(i)' /\ pc'[i] = 3
      /\ \A j \in Stage \ {i} : (Asking(j)' <=> Asking(j)) /\ pc'[j] = pc[j]
      /\ at' \in [Thread -> {"loop", "resume", "serve", "dead", "idle"}]
      /\ pc' \in [Stage -> Nat]
      /\ UNCHANGED <<svc_req, outptr, counter, heap, current, active, suspended>>
      /\ Placed' /\ Clean'
  BY <1>1, <1>2, ContinueFrame
<1>5. Kind(i)' = "caller" /\ Chips' = Chips
  BY <1>1, <1>4, ProgramFixed
<1>6. squaring' \in [Stage -> BOOLEAN] /\ squaring'[i] /\ \A j \in Stage \ {i} : squaring'[j] = squaring[j]
  BY <1>1 DEF PipeInv, Typed
<1>7. Within(i)'
  BY <1>4, <1>5 DEF Within, Cases
<1>8. Holds(i)' /\ ~Due(i)' /\ ~Done(i) /\ ~Done(i)'
  BY <1>1, <1>3, <1>4, <1>5, <1>6 DEF Holds, Due, Done
<1>9. Keeps(i)
  BY <1>1, <1>2, <1>3, <1>5, <1>8 DEF Keeps, Item
<1>10. \A j \in Stage \ {i} : Same(j)
  BY <1>1, <1>4, <1>6 DEF Same
<1>11. /\ \A j \in Stage' : Within(j)'
       /\ \E n : Flow(n)'
       /\ Owned' /\ ShownInOrder'
  BY <1>1, <1>2, <1>4, <1>7, <1>9, <1>10, OthersKept
<1>12. Typed'
  BY <1>1, <1>4, <1>6, ProgramFixed DEF PipeInv, Typed
<1> QED
  BY <1>4, <1>11, <1>12 DEF PipeInv

\* What a stage holds has a value.
LEMMA ItemValue ==
  ASSUME PipeInv, NEW i \in 1..Last, Holds(i)
  PROVE  Item(i) \in Value
<1>1. PICK n : Flow(n)
  BY DEF PipeInv
<1>2. Item(i) = <<n[i], Before({"transducer", "caller"}, i) + One(Done(i))>>
  BY <1>1 DEF Flow
<1>3. Last \in 2..Len(program) /\ Len(program) \in Nat /\ program \in Programs
  BY Stages, Programmed
<1>4. i \in 1..(Last + 1)
  BY <1>3
<1>5. n[i] \in Nat /\ Before({"transducer", "caller"}, i) \in Nat
  BY <1>1, <1>3, <1>4, BeforeRule DEF Flow
<1> QED
  BY <1>2, <1>5 DEF Value, One

LEMMA SquareInv ==
  ASSUME PipeInv, NEW t \in Thread, NEW i \in Stage, Square(t, i)
  PROVE  PipeInv'
<1>1. /\ at[t] = "resume" /\ current[t] = i /\ squaring[i]
      /\ word' = [word EXCEPT ![i] = Squared(@)]
      /\ squaring' = [squaring EXCEPT ![i] = FALSE]
      /\ Continue(t, i, pc[i])
      /\ shown' = shown
  BY DEF Square
<1>2. /\ ~Asking(i) /\ Within(i) /\ Kind(i) = "caller" /\ pc[i] = 3
      /\ Holds(i) /\ ~Due(i) /\ pc[i] \in Nat
  <2>1. ~Asking(i) /\ Within(i)
    BY <1>1, Resumed
  <2>2. Kind(i) = "caller" /\ pc[i] = 3
    BY <1>1, <2>1 DEF Within
  <2> QED
    BY <1>1, <2>1, <2>2, Resumed
<1>3. program \in Programs /\ i # 0 /\ i \notin Chips /\ i \in 2..Last
  BY <1>2, Stages, Kinded DEF Chips, Reading
<1>4. /\ program' = program
      /\ ~Asking(i)' /\ pc'[i] = 3
      /\ \A j \in Stage \ {i} : (Asking(j)' <=> Asking(j)) /\ pc'[j] = pc[j]
      /\ at' \in [Thread -> {"loop", "resume", "serve", "dead", "idle"}]
      /\ pc' \in [Stage -> Nat]
      /\ UNCHANGED <<svc_req, outptr, counter, heap, current, active, suspended>>
      /\ Placed' /\ Clean'
  BY <1>1, <1>2, <1>3, ContinueFrame
<1>5. Kind(i)' = "caller" /\ Chips' = Chips
  BY <1>2, <1>4, ProgramFixed
<1>6. /\ squaring' \in [Stage -> BOOLEAN] /\ ~squaring'[i]
      /\ \A j \in Stage \ {i} : squaring'[j] = squaring[j]
  BY <1>1 DEF PipeInv, Typed
<1>7. /\ word' \in [Stage -> Address \cup {None} \cup Value] /\ word'[i] = Squared(word[i])
      /\ \A j \in Stage \ {i} : word'[j] = word[j]
  <2>1. i \in 1..Last
    BY <1>3
  <2>2. word[i] \in Value
    BY <1>2, <1>3, <2>1, ItemValue DEF Item
  <2>3. Squared(word[i]) \in Value
    BY <2>2 DEF Squared, Value
  <2> QED
    BY <1>1, <2>3 DEF PipeInv, Typed
<1>8. Within(i)'
  BY <1>4, <1>5, <1>6 DEF Within, Cases
<1>9. Holds(i)' /\ ~Due(i)' /\ ~Done(i) /\ Done(i)'
  BY <1>1, <1>2, <1>4, <1>5, <1>6 DEF Holds, Due, Done
<1>10. Keeps(i)
  BY <1>2, <1>3, <1>5, <1>7, <1>9 DEF Keeps, Item
<1>11. \A j \in Stage \ {i} : Same(j)
  BY <1>4, <1>6, <1>7 DEF Same
<1>12. /\ \A j \in Stage' : Within(j)'
       /\ \E n : Flow(n)'
       /\ Owned' /\ ShownInOrder'
  BY <1>1, <1>3, <1>4, <1>8, <1>10, <1>11, OthersKept
<1>13. Typed'
  BY <1>1, <1>4, <1>6, <1>7, ProgramFixed DEF PipeInv, Typed
<1> QED
  BY <1>4, <1>12, <1>13 DEF PipeInv

-----------------------------------------------------------------------------
(***************************************************************************)
(* Objects                                                                 *)
(***************************************************************************)

\* There is store for another object: those allocated are held by a chip each.
LEMMA FreeAddress ==
  ASSUME PipeInv
  PROVE  Fresh \in Address /\ heap[Fresh] = None
<1>1. SUFFICES ASSUME \A a \in Address : heap[a] # None
               PROVE  FALSE
  BY DEF Fresh
<1>2. /\ program \in Programs /\ Len(program) \in Nat /\ Last \in 2..Len(program)
      /\ Len(program) < Cardinality(Address) /\ IsFiniteSet(Address)
  BY Stages, Programmed, PipelineAssumption
<1> DEFINE f == [i \in 1..Last |-> Ref(i)]
           T == {f[i] : i \in 1..Last}
<1>3. Chips \subseteq 1..Last
  BY <1>2, ChipsOrNone
<1>4. Address \subseteq T
  BY <1>1, <1>3 DEF PipeInv, Owned
<1>5. IsFiniteSet(1..Last) /\ Cardinality(1..Last) = Last
  <2>1. 1 \in Int /\ Last \in Int /\ ~(1 > Last)
    BY <1>2
  <2>2. Cardinality(1..Last) = Last - 1 + 1 /\ IsFiniteSet(1..Last)
    BY <2>1, FS_Interval
  <2> QED
    BY <2>1, <2>2
<1>6. IsFiniteSet(T) /\ Cardinality(T) <= Last
  <2>1. f \in Surjection(1..Last, T)
    BY DEF Surjection
  <2> HIDE DEF f, T
  <2> QED
    BY <1>5, <2>1, FS_Surjection
<1>7. Cardinality(Address) <= Cardinality(T)
  BY <1>4, <1>6, FS_Subset
<1>8. Cardinality(Address) \in Nat /\ Cardinality(T) \in Nat
  BY <1>2, <1>6, FS_CardinalityType
<1> QED
  BY <1>2, <1>6, <1>7, <1>8

\* Chip i gives up the object that it held, if it held one, and allocates what it
\* holds now, if it holds one.
LEMMA OwnedMoves ==
  ASSUME Owned, program' = program, NEW i \in Chips,
         \A j \in Chips \ {i} : (Holds(j)' <=> Holds(j)) /\ (Holds(j) => Ref(j)' = Ref(j)),
         Holds(i) => heap'[Ref(i)] = None,
         Holds(i)' => Ref(i)' \in Address /\ heap[Ref(i)'] = None /\ heap'[Ref(i)'] # None,
         \A a \in Address :
           heap'[a] = heap[a] \/ (Holds(i) /\ a = Ref(i)) \/ (Holds(i)' /\ a = Ref(i)')
  PROVE  /\ Owned'
         /\ \A j \in Chips \ {i} : Holds(j) => heap'[Ref(j)] = heap[Ref(j)]
<1>1. ASSUME NEW j \in Chips \ {i}, Holds(j)
      PROVE  /\ Ref(j) \in Address /\ heap[Ref(j)] # None
             /\ heap'[Ref(j)] = heap[Ref(j)]
             /\ Holds(i)' => Ref(j) # Ref(i)'
  <2>1. Ref(j) \in Address /\ heap[Ref(j)] # None
    BY <1>1 DEF Owned
  <2>2. ~(Holds(i) /\ Ref(j) = Ref(i))
    BY <1>1 DEF Owned
  <2>3. Holds(i)' => Ref(j) # Ref(i)'
    BY <2>1
  <2> QED
    BY <2>1, <2>2, <2>3
<1>2. \A j \in Chips : Holds(j)' => Ref(j)' \in Address /\ heap'[Ref(j)'] # None
  BY <1>1
<1>3. \A j, k \in Chips : Holds(j)' /\ Holds(k)' /\ Ref(j)' = Ref(k)' => j = k
  BY <1>1 DEF Owned
<1>4. ASSUME NEW a \in Address, heap'[a] # None
      PROVE  \E j \in Chips : Holds(j)' /\ Ref(j)' = a
  <2>1. CASE Holds(i)' /\ a = Ref(i)'
    BY <2>1
  <2>2. CASE heap'[a] = heap[a]
    <3>1. PICK j \in Chips : Holds(j) /\ Ref(j) = a
      BY <1>4, <2>2 DEF Owned
    <3>2. j # i
      BY <1>4, <3>1
    <3> QED
      BY <3>1, <3>2
  <2> QED
    BY <1>4, <2>1, <2>2
<1>5. Chips' = Chips
  BY ProgramFixed
<1> QED
  BY <1>1, <1>2, <1>3, <1>4, <1>5 DEF Owned

-----------------------------------------------------------------------------
(***************************************************************************)
(* What is made and what is shown                                          *)
(***************************************************************************)

\* The first stage makes a value.
LEMMA MadeFlow ==
  ASSUME PipeInv, program' = program,
         \A j \in 1..Last : j # 1 => Keeps(j),
         counter'[1] = counter[1] + 1, Len(shown') = Len(shown),
         ~Holds(1), Holds(1)', ~Due(1), ~Due(1)', ~Done(1)',
         Item(1)' = <<counter[1] + 1, 0>>
  PROVE  \E n : Flow(n)'
<1> DEFINE Depth(i) == Before({"transducer", "caller"}, i)
<1>1. /\ program \in Programs /\ Last \in Nat /\ 2 <= Last
      /\ Last + 1 \in 1..(Last + 1) /\ 1 \in 1..(Last + 1) /\ Last + 1 # 1 /\ 2 \in 1..(Last + 1)
  BY Stages, Programmed
<1>2. /\ Last' = Last /\ Lost' = Lost
      /\ \A i : Depth(i)' = Depth(i)
  BY ProgramFixed
<1>3. Depth(1) = 0 /\ \A i \in 1..(Last + 1) : Depth(i) \in Nat
  BY <1>1, BeforeRule
<1>4. PICK n : Flow(n)
  BY DEF PipeInv
<1>5. /\ n \in [1..(Last + 1) -> Nat]
      /\ n[1] = counter[1] /\ n[Last + 1] = Len(shown) + Lost
      /\ \A i \in 1..Last : n[i] + One(Due(i)) = n[i + 1] + One(Holds(i))
      /\ \A i \in 1..Last : Holds(i) => Item(i) = <<n[i], Depth(i) + One(Done(i))>>
  BY <1>4 DEF Flow
<1> DEFINE m == [n EXCEPT ![1] = n[1] + 1]
<1> HIDE DEF Depth
<1>6. /\ m \in [1..(Last + 1) -> Nat]
      /\ m[1] = counter[1] + 1 /\ m[Last + 1] = Len(shown) + Lost
      /\ \A i \in 1..(Last + 1) : i # 1 => m[i] = n[i]
  <2>1. n \in [1..(Last + 1) -> Nat] /\ n[1] = counter[1] /\ n[Last + 1] = Len(shown) + Lost
    BY <1>5
  <2>2. n[1] + 1 \in Nat
    BY <1>1, <2>1
  <2> QED
    BY <1>1, <2>1, <2>2
<1> HIDE DEF m
<1>7. ASSUME NEW i \in 1..Last
      PROVE  m[i] + One(Due(i)') = m[i + 1] + One(Holds(i)')
  <2>1. i + 1 \in 1..(Last + 1) /\ i \in 1..(Last + 1) /\ i + 1 # 1
    BY <1>1
  <2>2. n[i] + One(Due(i)) = n[i + 1] + One(Holds(i)) /\ n[i] \in Nat /\ n[i + 1] \in Nat
    BY <1>5, <2>1
  <2>3. m[i + 1] = n[i + 1]
    BY <1>6, <2>1
  <2>4. CASE i = 1
    <3>1. m[i] = n[i] + 1
      BY <1>5, <1>6, <2>4
    <3> QED
      BY <2>2, <2>3, <2>4, <3>1 DEF One
  <2>5. CASE i # 1
    <3>1. (Due(i)' <=> Due(i)) /\ (Holds(i)' <=> Holds(i))
      BY <2>5 DEF Keeps
    <3> QED
      BY <1>6, <2>1, <2>2, <2>3, <2>5, <3>1 DEF One
  <2> QED
    BY <2>4, <2>5
<1>8. ASSUME NEW i \in 1..Last, Holds(i)'
      PROVE  Item(i)' = <<m[i], Depth(i) + One(Done(i)')>>
  <2>1. i \in 1..(Last + 1)
    BY <1>1
  <2>2. CASE i = 1
    <3>1. One(Done(i)') = 0 /\ Item(i)' = <<counter[1] + 1, 0>>
      BY <2>2 DEF One
    <3>2. m[i] = counter[1] + 1 /\ Depth(i) = 0
      BY <1>3, <1>6, <2>2
    <3> QED
      BY <3>1, <3>2
  <2>3. CASE i # 1
    <3>1. Holds(i) /\ Item(i) = <<n[i], Depth(i) + One(Done(i))>> /\ m[i] = n[i]
      BY <1>5, <1>6, <1>8, <2>1, <2>3 DEF Keeps
    <3>2. CASE Item(i)' = Item(i) /\ (Done(i)' <=> Done(i))
      BY <3>1, <3>2 DEF One
    <3>3. CASE Item(i)' = Squared(Item(i)) /\ ~Done(i) /\ Done(i)'
      BY <1>3, <2>1, <3>1, <3>3 DEF One, Squared
    <3> QED
      BY <2>3, <3>1, <3>2, <3>3 DEF Keeps
  <2> QED
    BY <2>2, <2>3
<1>9. /\ m \in [1..(Last' + 1) -> Nat]
      /\ m[1] = counter'[1] /\ m[Last' + 1] = Len(shown') + Lost'
  BY <1>2, <1>6
<1>10. \A i \in 1..Last' : m[i] + One(Due(i))' = m[i + 1] + One(Holds(i))'
  BY <1>2, <1>7 DEF One
<1>11. \A i \in 1..Last' : Holds(i)' =>
         Item(i)' = <<m[i], Before({"transducer", "caller"}, i)' + One(Done(i))'>>
  BY <1>2, <1>8 DEF One, Depth
<1> QED
  BY <1>9, <1>10, <1>11 DEF Flow

\* The last stage shows what it holds: the next value.
LEMMA ShownFlow ==
  ASSUME PipeInv, program' = program, NEW i \in Stage, i = Last,
         \A j \in 1..Last : j # i => Keeps(j),
         counter'[1] = counter[1], shown' = Append(shown, Item(i)),
         Holds(i), ~Holds(i)', ~Due(i), ~Due(i)'
  PROVE  /\ shown' \in Seq(Value)
         /\ \E n : Flow(n)'
         /\ ShownInOrder'
<1> DEFINE Depth(j) == Before({"transducer", "caller"}, j)
<1>1. /\ program \in Programs /\ Last \in Nat /\ 2 <= Last
      /\ Last + 1 \in 1..(Last + 1) /\ 1 \in 1..(Last + 1) /\ Last + 1 # 1
      /\ Last \in 1..Last /\ Last \in 1..(Last + 1)
  BY Stages, Programmed
<1>2. /\ Last' = Last /\ Lost' = Lost
      /\ \A j : Depth(j)' = Depth(j)
      /\ \A k : Expected(k)' = Expected(k)
  BY ProgramFixed
<1>3. /\ \A j \in 1..(Last + 1) : Depth(j) \in Nat
      /\ Depth(Last + 1) = Depth(Last) + One(Kind(Last) \in {"transducer", "caller"})
      /\ Depth(Last + 1) = Count({"transducer", "caller"})
  BY <1>1, BeforeRule DEF Reading
<1>4. Lost \in Nat
  <2>1. {"caller", "consumer"} \subseteq Reading
    BY DEF Reading
  <2> QED
    BY <1>1, <2>1, BeforeRule DEF Lost
<1>5. PICK n : Flow(n)
  BY DEF PipeInv
<1>6. /\ n \in [1..(Last + 1) -> Nat]
      /\ n[1] = counter[1] /\ n[Last + 1] = Len(shown) + Lost
      /\ \A j \in 1..Last : n[j] + One(Due(j)) = n[j + 1] + One(Holds(j))
      /\ \A j \in 1..Last : Holds(j) => Item(j) = <<n[j], Depth(j) + One(Done(j))>>
  BY <1>5 DEF Flow
<1> DEFINE m == [n EXCEPT ![Last + 1] = n[Last + 1] + 1]
<1> HIDE DEF Depth
<1>7. shown \in Seq(Value) /\ Len(shown) \in Nat
  BY DEF PipeInv, Typed
<1>8. /\ shown' \in Seq(Value) /\ Len(shown') = Len(shown) + 1
      /\ \A k \in 1..Len(shown) : shown'[k] = shown[k]
      /\ shown'[Len(shown) + 1] = Item(i)
  <2>1. Item(i) \in Value
    BY <1>1, ItemValue
  <2> QED
    BY <1>7, <2>1
<1>9. /\ m \in [1..(Last + 1) -> Nat]
      /\ m[1] = counter[1] /\ m[Last + 1] = Len(shown) + 1 + Lost
      /\ \A j \in 1..(Last + 1) : j # Last + 1 => m[j] = n[j]
  <2>1. n \in [1..(Last + 1) -> Nat] /\ n[1] = counter[1] /\ n[Last + 1] = Len(shown) + Lost
    BY <1>6
  <2>2. n[Last + 1] + 1 \in Nat
    BY <1>1, <2>1
  <2> QED
    BY <1>1, <1>4, <1>7, <2>1, <2>2
<1> HIDE DEF m
<1>10. n[Last] = n[Last + 1] + 1
  <2>1. n[Last] + One(Due(Last)) = n[Last + 1] + One(Holds(Last))
    BY <1>1, <1>6
  <2>2. n[Last] \in Nat /\ n[Last + 1] \in Nat
    BY <1>1, <1>6
  <2> QED
    BY <2>1, <2>2 DEF One
<1>11. ASSUME NEW j \in 1..Last
       PROVE  m[j] + One(Due(j)') = m[j + 1] + One(Holds(j)')
  <2>1. j + 1 \in 1..(Last + 1) /\ j \in 1..(Last + 1) /\ j # Last + 1
    BY <1>1
  <2>2. n[j] + One(Due(j)) = n[j + 1] + One(Holds(j)) /\ n[j] \in Nat /\ n[j + 1] \in Nat
    BY <1>6, <2>1
  <2>3. m[j] = n[j]
    BY <1>9, <2>1
  <2>4. CASE j = i
    <3>1. m[j + 1] = n[j + 1] + 1
      BY <1>6, <1>9, <2>4, <1>4, <1>7
    <3> QED
      BY <2>2, <2>3, <2>4, <3>1 DEF One
  <2>5. CASE j # i
    <3>1. (Due(j)' <=> Due(j)) /\ (Holds(j)' <=> Holds(j))
      BY <2>5 DEF Keeps
    <3>2. m[j + 1] = n[j + 1]
      BY <1>1, <1>9, <2>1, <2>5
    <3> QED
      BY <2>2, <2>3, <3>1, <3>2 DEF One
  <2> QED
    BY <2>4, <2>5
<1>12. ASSUME NEW j \in 1..Last, Holds(j)'
       PROVE  Item(j)' = <<m[j], Depth(j) + One(Done(j)')>>
  <2>1. j \in 1..(Last + 1) /\ j # Last + 1 /\ j # i
    BY <1>1, <1>12
  <2>2. Holds(j) /\ Item(j) = <<n[j], Depth(j) + One(Done(j))>> /\ m[j] = n[j]
    BY <1>6, <1>9, <1>12, <2>1 DEF Keeps
  <2>3. CASE Item(j)' = Item(j) /\ (Done(j)' <=> Done(j))
    BY <2>2, <2>3 DEF One
  <2>4. CASE Item(j)' = Squared(Item(j)) /\ ~Done(j) /\ Done(j)'
    BY <1>3, <2>1, <2>2, <2>4 DEF One, Squared
  <2> QED
    BY <2>1, <2>2, <2>3, <2>4 DEF Keeps
<1>13. \E o : Flow(o)'
  <2>1. /\ m \in [1..(Last' + 1) -> Nat]
        /\ m[1] = counter'[1] /\ m[Last' + 1] = Len(shown') + Lost'
    BY <1>2, <1>8, <1>9
  <2>2. \A j \in 1..Last' : m[j] + One(Due(j))' = m[j + 1] + One(Holds(j))'
    BY <1>2, <1>11 DEF One
  <2>3. \A j \in 1..Last' : Holds(j)' =>
          Item(j)' = <<m[j], Before({"transducer", "caller"}, j)' + One(Done(j))'>>
    BY <1>2, <1>12 DEF One, Depth
  <2> QED
    BY <2>1, <2>2, <2>3 DEF Flow
<1>14. ShownInOrder'
  <2>1. Kind(i) \in {"sink", "consumer"}
    BY <1>1, Kinded
  <2>2. ~Done(i) /\ Depth(i) = Count({"transducer", "caller"})
    BY <1>1, <1>3, <2>1 DEF Done, One
  <2>3. Item(i) = <<n[i], Depth(i) + One(Done(i))>>
    BY <1>1, <1>6
  <2>4. n[i] = Len(shown) + 1 + Lost
    BY <1>4, <1>6, <1>7, <1>10
  <2>5. Item(i) = Expected(Len(shown) + 1 + Lost)
    BY <1>1, <1>3, <2>2, <2>3, <2>4 DEF Expected, One
  <2>6. ASSUME NEW k \in DOMAIN shown'
        PROVE  shown'[k] = Expected(k + Lost)
    <3>1. k \in 1..Len(shown) \/ k = Len(shown) + 1
      BY <1>7, <1>8
    <3>2. CASE k \in 1..Len(shown)
      BY <1>7, <1>8, <3>2 DEF PipeInv, ShownInOrder
    <3>3. CASE k = Len(shown) + 1
      BY <1>8, <2>5, <3>3
    <3> QED
      BY <3>1, <3>2, <3>3
  <2> QED
    BY <1>2, <2>6 DEF ShownInOrder
<1> QED
  BY <1>8, <1>13, <1>14

LEMMA SourceInv ==
  ASSUME PipeInv, NEW t \in Thread, NEW i \in Stage, Source(t, i)
  PROVE  PipeInv'
<1>1. /\ at[t] = "resume" /\ current[t] = i /\ Kind(i) = "source" /\ ~squaring[i]
      /\ pc[i] \in {0, 1}
      /\ heap' = [heap EXCEPT ![Fresh] = <<counter[i] + 1, 0>>]
      /\ outptr' = [outptr EXCEPT ![i] = Fresh]
      /\ counter' = [counter EXCEPT ![i] = @ + 1]
      /\ Ask(t, i, "write", 1)
      /\ UNCHANGED <<word, shown>>
  BY DEF Source, Resumes
<1>2. program \in Programs /\ i = 1 /\ i \in Chips /\ 1..Last \subseteq Stage
  BY <1>1, Stages, Kinded, Programmed DEF Chips
<1>3. /\ ~Asking(i) /\ Within(i) /\ ~Holds(i) /\ ~Due(i)
  BY <1>1, Resumed
<1>4. /\ program' = program /\ Asking(i)' /\ svc_req'[i] = "write" /\ pc'[i] = 1
      /\ squaring'[i] = squaring[i]
      /\ \A j \in Stage \ {i} : /\ Asking(j)' <=> Asking(j)
                                /\ pc'[j] = pc[j] /\ svc_req'[j] = svc_req[j]
                                /\ squaring'[j] = squaring[j]
      /\ at' \in [Thread -> {"loop", "resume", "serve", "dead", "idle"}]
      /\ pc' \in [Stage -> Nat]
      /\ svc_req' \in [Stage -> {"none", "read", "write", "spawn"}]
      /\ UNCHANGED <<squaring, current, active, suspended>>
      /\ Placed' /\ Clean'
  BY <1>1, <1>2, AskFrame
<1>5. Kind(i)' = "source" /\ Chips' = Chips /\ Stage' = Stage
  BY <1>1, <1>4, ProgramFixed
<1>6. Fresh \in Address /\ heap[Fresh] = None
  BY FreeAddress
<1>7. /\ counter' \in [Stage -> Nat] /\ counter'[1] = counter[1] + 1
      /\ \A j \in Stage \ {i} : counter'[j] = counter[j]
      /\ outptr' \in [Stage -> Address \cup {None}] /\ outptr'[i] = Fresh
      /\ \A j \in Stage \ {i} : outptr'[j] = outptr[j]
      /\ <<counter[i] + 1, 0>> \in Value
      /\ heap' \in [Address -> Value \cup {None}]
      /\ heap'[Fresh] = <<counter[1] + 1, 0>>
      /\ \A a \in Address : heap'[a] = heap[a] \/ a = Fresh
  BY <1>1, <1>2, <1>6 DEF PipeInv, Typed, Value
<1>8. \A j \in Stage \ {i} : Same(j)
  BY <1>1, <1>4, <1>7 DEF Same
<1>9. Within(i)'
  BY <1>1, <1>4, <1>5 DEF Within, Cases
<1>10. Holds(i)' /\ ~Due(i)' /\ ~Done(i)' /\ Ref(i)' = Fresh /\ Item(i)' = <<counter[1] + 1, 0>>
  BY <1>2, <1>4, <1>5, <1>7 DEF Holds, Due, Done, Ref, Offered, Item
<1>11. <<counter[1] + 1, 0>> # None
  BY <1>2, <1>7, PipelineAssumption DEF Value
<1>12. /\ Owned'
       /\ \A j \in Chips \ {i} : Holds(j) => heap'[Ref(j)] = heap[Ref(j)]
  <2>1. \A j \in Chips \ {i} : (Holds(j)' <=> Holds(j)) /\ (Holds(j) => Ref(j)' = Ref(j))
    BY <1>4, <1>8, SameFacts DEF Chips
  <2>2. Owned
    BY DEF PipeInv
  <2> QED
    BY <1>2, <1>3, <1>4, <1>6, <1>7, <1>10, <1>11, <2>1, <2>2, OwnedMoves
<1>13. \E n : Flow(n)'
  <2>1. \A j \in 1..Last : j # 1 => Keeps(j)
    BY <1>2, <1>4, <1>8, <1>12, SameKeeps
  <2> QED
    BY <1>1, <1>2, <1>3, <1>4, <1>7, <1>10, <2>1, MadeFlow
<1>14. \A j \in Stage' : Within(j)'
  BY <1>4, <1>5, <1>8, <1>9, SameFacts DEF PipeInv
<1>15. Typed'
  BY <1>1, <1>4, <1>5, <1>7, ProgramFixed DEF PipeInv, Typed
<1>16. ShownInOrder'
  BY <1>1, <1>4, ShownKept DEF PipeInv
<1> QED
  BY <1>4, <1>12, <1>13, <1>14, <1>15, <1>16 DEF PipeInv

LEMMA ProduceInv ==
  ASSUME PipeInv, NEW t \in Thread, NEW i \in Stage, Produce(t, i)
  PROVE  PipeInv'
<1>1. /\ at[t] = "resume" /\ current[t] = i /\ Kind(i) = "producer" /\ ~squaring[i]
      /\ pc[i] \in {0, 1}
  BY DEF Produce, Resumes
<1>2. CASE counter[i] = InputSize /\ Suicide(t)
  BY <1>1, <1>2, SuicideInv
<1>3. CASE /\ word' = [word EXCEPT ![i] = <<counter[i] + 1, 0>>]
           /\ counter' = [counter EXCEPT ![i] = @ + 1]
           /\ Ask(t, i, "write", 1)
           /\ UNCHANGED <<outptr, heap, shown>>
  <2>1. program \in Programs /\ i = 1 /\ Chips = {} /\ 1..Last \subseteq Stage
    BY <1>1, Stages, Kinded, ChipsOrNone, Programmed
  <2>2. /\ ~Asking(i) /\ Within(i) /\ ~Holds(i) /\ ~Due(i)
    BY <1>1, Resumed
  <2>3. /\ program' = program /\ Asking(i)' /\ svc_req'[i] = "write" /\ pc'[i] = 1
        /\ squaring'[i] = squaring[i]
        /\ \A j \in Stage \ {i} : /\ Asking(j)' <=> Asking(j)
                                  /\ pc'[j] = pc[j] /\ svc_req'[j] = svc_req[j]
                                  /\ squaring'[j] = squaring[j]
        /\ at' \in [Thread -> {"loop", "resume", "serve", "dead", "idle"}]
        /\ pc' \in [Stage -> Nat]
        /\ svc_req' \in [Stage -> {"none", "read", "write", "spawn"}]
        /\ UNCHANGED <<squaring, current, active, suspended>>
        /\ Placed' /\ Clean'
    BY <1>1, <1>3, <2>1, AskFrame
  <2>4. Kind(i)' = "producer" /\ Chips' = Chips /\ Stage' = Stage
    BY <1>1, <2>3, ProgramFixed
  <2>5. /\ counter' \in [Stage -> Nat] /\ counter'[1] = counter[1] + 1
        /\ \A j \in Stage \ {i} : counter'[j] = counter[j]
        /\ <<counter[i] + 1, 0>> \in Value
        /\ word' \in [Stage -> Address \cup {None} \cup Value]
        /\ word'[i] = <<counter[1] + 1, 0>>
        /\ \A j \in Stage \ {i} : word'[j] = word[j]
    BY <1>3, <2>1 DEF PipeInv, Typed, Value
  <2>6. \A j \in Stage \ {i} : Same(j)
    BY <1>3, <2>3, <2>5 DEF Same
  <2>7. Within(i)'
    BY <1>1, <2>3, <2>4 DEF Within, Cases
  <2>8. Holds(i)' /\ ~Due(i)' /\ ~Done(i)' /\ Item(i)' = <<counter[1] + 1, 0>>
    BY <2>1, <2>3, <2>4, <2>5 DEF Holds, Due, Done, Item
  <2>9. Owned'
    BY <1>3, <2>1, <2>3, OwnedKept DEF PipeInv
  <2>10. \E n : Flow(n)'
    <3>1. \A j \in 1..Last : j # 1 => Keeps(j)
      BY <2>1, <2>3, <2>6, SameKeeps
    <3> QED
      BY <1>3, <2>1, <2>2, <2>3, <2>5, <2>8, <3>1, MadeFlow
  <2>11. \A j \in Stage' : Within(j)'
    BY <2>3, <2>4, <2>6, <2>7, SameFacts DEF PipeInv
  <2>12. Typed'
    BY <1>3, <2>3, <2>4, <2>5, ProgramFixed DEF PipeInv, Typed
  <2>13. ShownInOrder'
    BY <1>3, <2>3, ShownKept DEF PipeInv
  <2> QED
    BY <2>3, <2>9, <2>10, <2>11, <2>12, <2>13 DEF PipeInv
<1> QED
  BY <1>2, <1>3 DEF Produce

LEMMA TransduceInv ==
  ASSUME PipeInv, NEW t \in Thread, NEW i \in Stage, Transduce(t, i)
  PROVE  PipeInv'
<1>1. /\ at[t] = "resume" /\ current[t] = i /\ Kind(i) = "transducer" /\ ~squaring[i]
      /\ pc[i] = 2
      /\ heap' = [heap EXCEPT ![Fresh] = Squared(heap[word[i]]), ![word[i]] = None]
      /\ outptr' = [outptr EXCEPT ![i] = Fresh]
      /\ Ask(t, i, "write", 1)
      /\ UNCHANGED <<word, counter, shown>>
  BY DEF Transduce, Resumes
<1>2. program \in Programs /\ i # 0 /\ i \in 2..Last /\ i \in Chips /\ 1..Last \subseteq Stage
  BY <1>1, Stages, Kinded, Programmed DEF Chips, Reading
<1>3. /\ ~Asking(i) /\ Within(i) /\ Holds(i) /\ ~Due(i)
  BY <1>1, Resumed
<1>4. /\ program' = program /\ Asking(i)' /\ svc_req'[i] = "write" /\ pc'[i] = 1
      /\ squaring'[i] = squaring[i]
      /\ \A j \in Stage \ {i} : /\ Asking(j)' <=> Asking(j)
                                /\ pc'[j] = pc[j] /\ svc_req'[j] = svc_req[j]
                                /\ squaring'[j] = squaring[j]
      /\ at' \in [Thread -> {"loop", "resume", "serve", "dead", "idle"}]
      /\ pc' \in [Stage -> Nat]
      /\ svc_req' \in [Stage -> {"none", "read", "write", "spawn"}]
      /\ UNCHANGED <<squaring, current, active, suspended>>
      /\ Placed' /\ Clean'
  BY <1>1, <1>2, AskFrame
<1>5. Kind(i)' = "transducer" /\ Chips' = Chips /\ Stage' = Stage
  BY <1>1, <1>4, ProgramFixed
<1>6. Fresh \in Address /\ heap[Fresh] = None
  BY FreeAddress
<1>7. /\ Ref(i) = word[i] /\ word[i] \in Address /\ heap[word[i]] # None
      /\ Item(i) = heap[word[i]] /\ word[i] # Fresh
  BY <1>2, <1>3, <1>6 DEF PipeInv, Owned, Ref, Item
<1>8. heap[word[i]] \in Value /\ Squared(heap[word[i]]) \in Value
  BY <1>7 DEF PipeInv, Typed, Squared, Value
<1>9. /\ outptr' \in [Stage -> Address \cup {None}] /\ outptr'[i] = Fresh
      /\ \A j \in Stage \ {i} : outptr'[j] = outptr[j]
      /\ heap' \in [Address -> Value \cup {None}]
      /\ heap'[Fresh] = Squared(heap[word[i]]) /\ heap'[word[i]] = None
      /\ \A a \in Address : heap'[a] = heap[a] \/ a = word[i] \/ a = Fresh
  BY <1>1, <1>6, <1>7, <1>8 DEF PipeInv, Typed
<1>10. \A j \in Stage \ {i} : Same(j)
  BY <1>1, <1>4, <1>9 DEF Same
<1>11. Within(i)'
  BY <1>1, <1>4, <1>5 DEF Within, Cases
<1>12. /\ Holds(i)' /\ ~Due(i)' /\ Done(i)' /\ ~Done(i) /\ Ref(i)' = Fresh
       /\ Item(i)' = Squared(Item(i))
  BY <1>1, <1>2, <1>3, <1>4, <1>5, <1>7, <1>9 DEF Holds, Due, Done, Ref, Offered, Item
<1>13. /\ Owned'
       /\ \A j \in Chips \ {i} : Holds(j) => heap'[Ref(j)] = heap[Ref(j)]
  <2>1. \A j \in Chips \ {i} : (Holds(j)' <=> Holds(j)) /\ (Holds(j) => Ref(j)' = Ref(j))
    BY <1>4, <1>10, SameFacts DEF Chips
  <2>2. Owned /\ Squared(heap[word[i]]) # None
    BY <1>8, PipelineAssumption DEF PipeInv, Value
  <2> QED
    BY <1>2, <1>3, <1>4, <1>6, <1>7, <1>9, <1>12, <2>1, <2>2, OwnedMoves
<1>14. \A j \in 1..Last : Keeps(j)
  <2>1. Keeps(i)
    BY <1>3, <1>12 DEF Keeps
  <2>2. \A j \in 1..Last : j # i => Keeps(j)
    BY <1>2, <1>4, <1>10, <1>13, SameKeeps
  <2> QED
    BY <2>1, <2>2
<1>15. \E n : Flow(n)'
  BY <1>1, <1>2, <1>4, <1>14, FlowKept DEF PipeInv
<1>16. \A j \in Stage' : Within(j)'
  BY <1>4, <1>5, <1>10, <1>11, SameFacts DEF PipeInv
<1>17. Typed'
  BY <1>1, <1>4, <1>5, <1>9, ProgramFixed DEF PipeInv, Typed
<1>18. ShownInOrder'
  BY <1>1, <1>4, ShownKept DEF PipeInv
<1> QED
  BY <1>4, <1>13, <1>15, <1>16, <1>17, <1>18 DEF PipeInv

LEMMA ShowInv ==
  ASSUME PipeInv, NEW t \in Thread, NEW i \in Stage, Show(t, i)
  PROVE  PipeInv'
<1>1. /\ at[t] = "resume" /\ current[t] = i /\ Kind(i) = "sink" /\ ~squaring[i]
      /\ pc[i] = 2
      /\ shown' = Append(shown, heap[word[i]])
      /\ heap' = [heap EXCEPT ![word[i]] = None]
      /\ Ask(t, i, "read", 2)
      /\ UNCHANGED <<word, outptr, counter>>
  BY DEF Show, Resumes
<1>2. program \in Programs /\ i # 0 /\ i = Last /\ i \in Chips /\ 1..Last \subseteq Stage
  BY <1>1, Stages, Kinded, Programmed DEF Chips
<1>3. /\ ~Asking(i) /\ Within(i) /\ Holds(i) /\ ~Due(i)
  BY <1>1, Resumed
<1>4. /\ program' = program /\ Asking(i)' /\ svc_req'[i] = "read" /\ pc'[i] = 2
      /\ squaring'[i] = squaring[i]
      /\ \A j \in Stage \ {i} : /\ Asking(j)' <=> Asking(j)
                                /\ pc'[j] = pc[j] /\ svc_req'[j] = svc_req[j]
                                /\ squaring'[j] = squaring[j]
      /\ at' \in [Thread -> {"loop", "resume", "serve", "dead", "idle"}]
      /\ pc' \in [Stage -> Nat]
      /\ svc_req' \in [Stage -> {"none", "read", "write", "spawn"}]
      /\ UNCHANGED <<squaring, current, active, suspended>>
      /\ Placed' /\ Clean'
  BY <1>1, <1>2, AskFrame
<1>5. Kind(i)' = "sink" /\ Chips' = Chips /\ Stage' = Stage
  BY <1>1, <1>4, ProgramFixed
<1>6. /\ Ref(i) = word[i] /\ word[i] \in Address /\ heap[word[i]] # None
      /\ Item(i) = heap[word[i]]
  BY <1>2, <1>3 DEF PipeInv, Owned, Ref, Item
<1>7. /\ heap' \in [Address -> Value \cup {None}] /\ heap'[word[i]] = None
      /\ \A a \in Address : heap'[a] = heap[a] \/ a = word[i]
  BY <1>1, <1>6 DEF PipeInv, Typed
<1>8. \A j \in Stage \ {i} : Same(j)
  BY <1>1, <1>4 DEF Same
<1>9. Within(i)'
  BY <1>1, <1>4, <1>5 DEF Within, Cases
<1>10. ~Holds(i)' /\ ~Due(i)'
  BY <1>4, <1>5 DEF Holds, Due
<1>11. /\ Owned'
       /\ \A j \in Chips \ {i} : Holds(j) => heap'[Ref(j)] = heap[Ref(j)]
  <2>1. \A j \in Chips \ {i} : (Holds(j)' <=> Holds(j)) /\ (Holds(j) => Ref(j)' = Ref(j))
    BY <1>4, <1>8, SameFacts DEF Chips
  <2>2. Owned
    BY DEF PipeInv
  <2> QED
    BY <1>2, <1>3, <1>4, <1>6, <1>7, <1>10, <2>1, <2>2, OwnedMoves
<1>12. /\ shown' \in Seq(Value)
       /\ \E n : Flow(n)'
       /\ ShownInOrder'
  <2>1. \A j \in 1..Last : j # i => Keeps(j)
    BY <1>2, <1>4, <1>8, <1>11, SameKeeps
  <2> QED
    BY <1>1, <1>2, <1>3, <1>4, <1>6, <1>10, <2>1, ShownFlow
<1>13. \A j \in Stage' : Within(j)'
  BY <1>4, <1>5, <1>8, <1>9, SameFacts DEF PipeInv
<1>14. Typed'
  BY <1>1, <1>4, <1>5, <1>7, <1>12, ProgramFixed DEF PipeInv, Typed
<1> QED
  BY <1>4, <1>11, <1>12, <1>13, <1>14 DEF PipeInv

LEMMA ConsumeInv ==
  ASSUME PipeInv, NEW t \in Thread, NEW i \in Stage, Consume(t, i)
  PROVE  PipeInv'
<1>1. /\ at[t] = "resume" /\ current[t] = i /\ Kind(i) = "consumer" /\ ~squaring[i]
      /\ pc[i] = 2
      /\ shown' = Append(shown, word[i])
      /\ Continue(t, i, 1)
      /\ UNCHANGED <<squaring, word>>
  BY DEF Consume, Resumes
<1>2. /\ program \in Programs /\ i # 0 /\ i = Last /\ i \notin Chips /\ Chips = {}
      /\ 1..Last \subseteq Stage
  BY <1>1, Stages, Kinded, ChipsOrNone, Programmed
<1>3. /\ ~Asking(i) /\ Within(i) /\ Holds(i) /\ ~Due(i)
  BY <1>1, Resumed
<1>4. /\ program' = program
      /\ ~Asking(i)' /\ pc'[i] = 1
      /\ \A j \in Stage \ {i} : (Asking(j)' <=> Asking(j)) /\ pc'[j] = pc[j]
      /\ at' \in [Thread -> {"loop", "resume", "serve", "dead", "idle"}]
      /\ pc' \in [Stage -> Nat]
      /\ UNCHANGED <<svc_req, outptr, counter, heap, current, active, suspended>>
      /\ Placed' /\ Clean'
  BY <1>1, <1>2, ContinueFrame
<1>5. Kind(i)' = "consumer" /\ Stage' = Stage
  BY <1>1, <1>4, ProgramFixed
<1>6. Item(i) = word[i]
  BY <1>2 DEF Item
<1>7. \A j \in Stage \ {i} : Same(j)
  BY <1>1, <1>4 DEF Same
<1>8. Within(i)'
  BY <1>1, <1>4, <1>5 DEF Within, Cases
<1>9. ~Holds(i)' /\ ~Due(i)'
  BY <1>4, <1>5 DEF Holds, Due
<1>10. Owned'
  BY <1>2, <1>4, OwnedKept DEF PipeInv
<1>11. /\ shown' \in Seq(Value)
       /\ \E n : Flow(n)'
       /\ ShownInOrder'
  <2>1. \A j \in 1..Last : j # i => Keeps(j)
    BY <1>2, <1>4, <1>7, SameKeeps
  <2> QED
    BY <1>1, <1>2, <1>3, <1>4, <1>6, <1>9, <2>1, ShownFlow
<1>12. \A j \in Stage' : Within(j)'
  BY <1>4, <1>5, <1>7, <1>8, SameFacts DEF PipeInv
<1>13. Typed'
  BY <1>1, <1>4, <1>5, <1>11, ProgramFixed DEF PipeInv, Typed
<1> QED
  BY <1>4, <1>10, <1>11, <1>12, <1>13 DEF PipeInv

-----------------------------------------------------------------------------
(***************************************************************************)
(* The invariant                                                           *)
(***************************************************************************)

LEMMA ResumeInv ==
  ASSUME PipeInv, NEW t \in Thread, NEW i \in Stage, Resume(t, i)
  PROVE  PipeInv'
BY SourceInv, ChipReadsInv, ShowInv, TransduceInv, BoundReadsInv, BoundWritesInv, ProduceInv,
   ReadsInv, CallInv, SquareInv, CallerWritesInv, ConsumeInv, HelloInv, ConstructInv
   DEF Resume

LEMMA InvStutter ==
  ASSUME PipeInv, UNCHANGED vars
  PROVE  PipeInv'
<1>1. /\ program' = program
      /\ UNCHANGED <<pc, squaring, svc_req, word, outptr, counter, heap, shown, at, current,
                     active, suspended>>
  BY DEF vars, stageVars, threadVars
<1>2. \A j : Asking(j)' <=> Asking(j)
  BY <1>1 DEF Asking
<1>3. \A j \in Stage : Same(j)
  BY <1>1, <1>2 DEF Same
<1>4. /\ \A j \in Stage' : Within(j)'
      /\ \E n : Flow(n)'
      /\ Owned' /\ ShownInOrder'
  BY <1>1, <1>3, AllKept
<1>5. Typed'
  BY <1>1, ProgramFixed DEF PipeInv, Typed
<1>6. Placed' /\ Clean'
  <2>1. Stage' = Stage /\ \A j : Unspawned(j)' <=> Unspawned(j)
    BY <1>1, <1>2, ProgramFixed DEF Unspawned
  <2> QED
    BY <1>1, <2>1 DEF PipeInv, Placed, Clean
<1> QED
  BY <1>4, <1>5, <1>6 DEF PipeInv

LEMMA InvNext ==
  ASSUME PipeInv, [Next]_vars
  PROVE  PipeInv'
<1>1. CASE Next
  <2>1. PICK t \in Thread : Step(t)
    BY <1>1 DEF Next
  <2>2. CASE \E i \in Stage : Resume(t, i) \/ Read(t, i) \/ Write(t, i) \/ Spawn(t, i)
    BY <2>2, ResumeInv, ReadInv, WriteInv, SpawnInv
  <2>3. CASE Begin(t)
    BY <2>3, BeginInv
  <2>4. CASE Die(t)
    BY <2>4, PopInv DEF Die
  <2>5. CASE FindWork(t)
    BY <2>5, PopInv DEF FindWork
  <2> QED
    BY <2>1, <2>2, <2>3, <2>4, <2>5 DEF Step
<1> QED
  BY <1>1, InvStutter

LEMMA InvInit ==
  ASSUME Init
  PROVE  PipeInv
<1>1. /\ program \in Programs /\ Last \in Nat /\ 2 <= Last /\ Last <= Len(program)
      /\ Stage = 0..Len(program) /\ Len(program) \in Nat
      /\ 0 \in Stage /\ 1 \in Stage /\ Stage \subseteq Nat /\ 1..Last \subseteq Stage
  BY Programmed DEF Init
<1>2. PICK t \in Thread :
        /\ current = [u \in Thread |-> IF u = t THEN 0 ELSE None]
        /\ at = [u \in Thread |-> IF u = t THEN "loop" ELSE "idle"]
  BY DEF Init
<1>3. /\ pc = [i \in Stage |-> 0] /\ squaring = [i \in Stage |-> FALSE]
      /\ svc_req = [i \in Stage |-> "none"] /\ word = [i \in Stage |-> None]
      /\ outptr = [i \in Stage |-> None]
      /\ counter = [i \in Stage |-> IF Kind(i) = "bound" THEN Bound ELSE 0]
      /\ heap = [a \in Address |-> None] /\ shown = << >>
      /\ active = << >> /\ suspended = {}
  BY DEF Init
<1>4. None \notin Nat
  BY PipelineAssumption
<1>5. Typed
  <2>1. counter \in [Stage -> Nat]
    BY <1>3, PipelineAssumption
  <2> QED
    BY <1>1, <1>2, <1>3, <2>1 DEF Typed
<1>6. \A i : ~Asking(i)
  BY <1>2, <1>3 DEF Asking
<1>7. Placed
  <2>1. Elements(active) = {} /\ Distinct(active)
    BY <1>3 DEF Elements, Distinct
  <2>2. \A i \in Stage : Unspawned(i) => i # 0
    BY <1>1, <1>3 DEF Unspawned
  <2>3. \A i \in Stage : i # 0 => \A u \in Thread : current[u] # i
    BY <1>1, <1>2, <1>4
  <2>4. \A u \in Thread : at[u] = "idle" <=> current[u] = None
    BY <1>2, <1>4
  <2>5. \A u, v \in Thread : current[u] = current[v] /\ current[u] # None => u = v
    BY <1>2
  <2> QED
    BY <1>3, <2>1, <2>2, <2>3, <2>4, <2>5 DEF Placed
<1>8. Clean
  BY <1>2 DEF Clean
<1>9. \A i \in Stage : Within(i)
  <2> SUFFICES ASSUME NEW i \in Stage
               PROVE  Within(i)
    OBVIOUS
  <2>1. 0 \in Cases(Kind(i))
    BY <1>1 DEF Cases
  <2> QED
    BY <1>3, <1>6, <2>1 DEF Within
<1>10. \A i \in Stage : ~Holds(i) /\ (Due(i) <=> Kind(i) \in {"caller", "consumer"})
  BY <1>3, <1>6 DEF Holds, Due
<1>11. \E n : Flow(n)
  <2> DEFINE n == [i \in 1..(Last + 1) |-> Before({"caller", "consumer"}, i)]
  <2>1. /\ \A i \in 1..(Last + 1) : Before({"caller", "consumer"}, i) \in Nat
        /\ \A i \in 1..Last : Before({"caller", "consumer"}, i + 1)
             = Before({"caller", "consumer"}, i) + One(Kind(i) \in {"caller", "consumer"})
        /\ Before({"caller", "consumer"}, 1) = 0
        /\ Before({"caller", "consumer"}, Last + 1) = Lost
    BY <1>1, BeforeRule DEF Reading, Lost
  <2>2. /\ n \in [1..(Last + 1) -> Nat]
        /\ n[1] = 0 /\ n[Last + 1] = Lost
        /\ \A i \in 1..Last : n[i + 1] = n[i] + One(Kind(i) \in {"caller", "consumer"})
    BY <1>1, <2>1
  <2> HIDE DEF n
  <2>3. counter[1] = 0
    <3>1. Kind(1) # "bound"
      BY <1>1, Kinded DEF Reading
    <3> QED
      BY <1>1, <1>3, <3>1
  <2>4. Lost \in Nat /\ Len(shown) = 0
    BY <1>1, <1>3, <2>2
  <2>5. ASSUME NEW i \in 1..Last
        PROVE  n[i] + One(Due(i)) = n[i + 1] + One(Holds(i))
    <3>1. i \in Stage /\ i + 1 \in 1..(Last + 1)
      BY <1>1
    <3>2. n[i + 1] \in Nat /\ n[i + 1] = n[i] + One(Kind(i) \in {"caller", "consumer"})
      BY <2>2, <3>1
    <3> QED
      BY <1>10, <3>1, <3>2 DEF One
  <2>6. Flow(n)
    BY <1>1, <1>10, <2>2, <2>3, <2>4, <2>5 DEF Flow
  <2> QED
    BY <2>6
<1>12. Chips \subseteq Stage
  BY DEF Chips
<1>13. Owned
  BY <1>3, <1>10, <1>12 DEF Owned
<1>14. ShownInOrder
  BY <1>3 DEF ShownInOrder
<1> QED
  BY <1>5, <1>7, <1>8, <1>9, <1>11, <1>13, <1>14 DEF PipeInv

LEMMA InvHolds == Spec => []PipeInv
<1>1. PipeInv /\ [Next]_vars => PipeInv'
  BY InvNext
<1> QED
  BY <1>1, InvInit, PTL DEF Spec

-----------------------------------------------------------------------------
(***************************************************************************)
(* Theorems                                                                *)
(***************************************************************************)

\* Every variable keeps its type, and pc always has a case of its switch: no
\* coroutine comes to the assert(false) of CSP_RESUME_END.
THEOREM PipelineTypes == Spec => []TypeOK
<1>1. PipeInv => TypeOK
  BY DEF PipeInv, Typed, Within, TypeOK
<1> QED
  BY <1>1, InvHolds, PTL

\* However the stages of a pipeline are scheduled, the sink of the chips and
\* the consumer of ex01 receive the values in the order they were made, none
\* twice, as often squared as there are stages to do so, and none missing but
\* the one that each coroutine of ex01 reads over.
THEOREM ValuesArriveInOrder == Spec => []ShownInOrder
<1>1. PipeInv => ShownInOrder
  BY DEF PipeInv
<1> QED
  BY <1>1, InvHolds, PTL

\* Each object that source or transducer allocates is one chip's to pass on or
\* to delete, and no chip has an address that was deleted.
THEOREM ObjectsHaveOneOwner == Spec => []OneOwner
<1>1. ASSUME PipeInv, NEW a \in Address
      PROVE  Cardinality({i \in Chips : a \in Held(i)}) = IF heap[a] = None THEN 0 ELSE 1
  <2>1. ASSUME NEW i \in Chips
        PROVE  a \in Held(i) <=> Holds(i) /\ Ref(i) = a
    <3>1. i \in Stage /\ Kind(i) \in {"source", "bound", "transducer", "sink"}
      BY DEF Chips
    <3>2. pc[i] # 3
      BY <1>1, <3>1 DEF PipeInv, Within, Cases
    <3> QED
      BY <3>2 DEF Held, Holds, Ref
  <2>2. CASE heap[a] = None
    <3>1. {i \in Chips : a \in Held(i)} = {}
      BY <1>1, <2>1, <2>2 DEF PipeInv, Owned
    <3> QED
      BY <2>2, <3>1, FS_EmptySet
  <2>3. CASE heap[a] # None
    <3>1. PICK i \in Chips : Holds(i) /\ Ref(i) = a
      BY <1>1, <2>3 DEF PipeInv, Owned
    <3>2. {j \in Chips : a \in Held(j)} = {i}
      BY <1>1, <2>1, <3>1 DEF PipeInv, Owned
    <3> QED
      BY <2>3, <3>2, FS_Singleton
  <2> QED
    BY <2>2, <2>3
<1>2. PipeInv => OneOwner
  BY <1>1 DEF OneOwner
<1> QED
  BY <1>2, InvHolds, PTL

\* A source that never ends, or a producer, has made no more than was shown or
\* lost and one for each stage after it: a channel holds nothing.
THEOREM SourceIsHeldBack == Spec => []RunsAhead
<1>1. ASSUME PipeInv
      PROVE  RunsAhead
  <2>1. /\ program \in Programs /\ Last \in Nat /\ 2 <= Last /\ Last <= Len(program)
        /\ Stage = 0..Len(program) /\ Len(program) \in Nat
    BY <1>1, Stages, Programmed
  <2>2. PICK n : Flow(n)
    BY <1>1 DEF PipeInv
  <2>3. /\ n \in [1..(Last + 1) -> Nat]
        /\ n[1] = counter[1] /\ n[Last + 1] = Len(shown) + Lost
        /\ \A i \in 1..Last : n[i] + One(Due(i)) = n[i + 1] + One(Holds(i))
    BY <2>2 DEF Flow
  <2> DEFINE A == {k \in Nat : k <= Last => n[1] <= n[k + 1] + k}
  <2>4. 0 \in A
    <3>1. n[1] \in Nat
      BY <2>1, <2>3
    <3> QED
      BY <3>1
  <2>5. ASSUME NEW k \in A
        PROVE  k + 1 \in A
    <3>1. CASE k + 1 <= Last
      <4>1. k + 1 \in 1..Last /\ k + 1 \in 1..(Last + 1) /\ (k + 1) + 1 \in 1..(Last + 1)
            /\ 1 \in 1..(Last + 1)
        BY <2>1, <3>1
      <4>2. /\ n[k + 1] + One(Due(k + 1)) = n[(k + 1) + 1] + One(Holds(k + 1))
            /\ n[k + 1] \in Nat /\ n[(k + 1) + 1] \in Nat /\ n[1] \in Nat
        BY <2>3, <4>1
      <4>3. n[k + 1] <= n[(k + 1) + 1] + 1
        BY <4>2 DEF One
      <4>4. n[1] <= n[k + 1] + k
        BY <2>1, <3>1
      <4> QED
        BY <4>2, <4>3, <4>4
    <3>2. CASE ~(k + 1 <= Last)
      BY <3>2
    <3> QED
      BY <3>1, <3>2
  <2>6. A = Nat
    <3> HIDE DEF A
    <3>1. A \in SUBSET Nat
      BY DEF A
    <3> QED
      BY <2>4, <2>5, <3>1, SetInduction
  <2>7. counter[1] <= Len(shown) + Lost + Last
    <3>1. Last \in A
      BY <2>1, <2>6
    <3> QED
      BY <2>1, <2>3, <3>1
  <2>8. Count(Kinds \ {"hello"}) = Last
    <3>1. \A i \in Stage : Kind(i) \in Kinds \ {"hello"} <=> i \in 1..Last
      <4> SUFFICES ASSUME NEW i \in Stage
                   PROVE  Kind(i) \in Kinds \ {"hello"} <=> i \in 1..Last
        OBVIOUS
      <4>1. /\ Kind(i) \in Kinds \cup {"init"} /\ (i = 0 <=> Kind(i) = "init")
            /\ i \in (Last + 1)..Len(program) <=> Kind(i) = "hello"
        BY <2>1, Kinded
      <4>2. "init" \notin Kinds
        BY DEF Kinds
      <4> QED
        BY <2>1, <4>1, <4>2
    <3>2. {i \in Stage : Kind(i) \in Kinds \ {"hello"}} = 1..Last
      BY <2>1, <3>1
    <3>3. Cardinality(1..Last) = Last
      <4>1. 1 \in Int /\ Last \in Int /\ ~(1 > Last)
        BY <2>1
      <4>2. Cardinality(1..Last) = Last - 1 + 1
        BY <4>1, FS_Interval
      <4> QED
        BY <2>1, <4>2
    <3> QED
      BY <3>2, <3>3 DEF Count
  <2> QED
    BY <2>7, <2>8 DEF RunsAhead
<1> QED
  BY <1>1, InvHolds, PTL
=============================================================================
