------------------------------- MODULE Pipeline -------------------------------
(***************************************************************************)
(* Programs: the coroutines of src/chips and of the two examples, joined   *)
(* into pipelines.  Each is a switch on its program counter that a         *)
(* scheduler resumes; between two resumptions it keeps its place in pc and *)
(* its data in members, and asks for a service by leaving a request in its *)
(* fibre.                                                                  *)
(*                                                                         *)
(* Stage i writes to the channel that stage i + 1 reads, all in one        *)
(* process.  A read or write is one step, as ConcurrentChannel implements  *)
(* Rendezvous; no channel is deleted, as each stage owns its endpoints     *)
(* (see ChannelKernelProofs); when threads leave is in Scheduler. A value  *)
(* is the pair of its place in the input and of how often it was squared.  *)
(***************************************************************************)
EXTENDS Naturals, Sequences, FiniteSets

CONSTANTS
  Thread,     \* the schedulers of the process
  Programs,   \* the sequences of stages considered
  InputSize,  \* the length of the list ex01 produces
  Bound,      \* what chips::bound is set up with
  Address,    \* of the objects the process allocator returns
  None        \* nullptr

Kinds == {"source", "bound", "transducer", "sink",
          "producer", "caller", "consumer", "hello"}

\* A pipeline from stage 1 to stage last: each reads what the one before it
\* writes.  Chips pass pointers to objects on, the coroutines of ex01 integers.
Joined(p, last) ==
  /\ \/ /\ p[1] = "source" /\ p[last] = "sink"
        /\ \A i \in 2..(last - 1) : p[i] \in {"bound", "transducer"}
     \/ /\ p[1] = "producer" /\ p[last] = "consumer"
        /\ \A i \in 2..(last - 1) : p[i] = "caller"
  /\ \A i \in (last + 1)..Len(p) : p[i] = "hello"

\* There is store for an object more than there are stages.
ASSUME PipelineAssumption ==
  /\ Thread # {}
  /\ \A p \in Programs :
       /\ p \in Seq(Kinds) /\ \E last \in 2..Len(p) : Joined(p, last)
       /\ Len(p) < Cardinality(Address)
  /\ InputSize \in Nat /\ Bound \in Nat
  /\ IsFiniteSet(Address)
  /\ None \notin Address \cup Nat \cup (Nat \X Nat)

VARIABLES
  program,    \* the sequence of stages
  pc,         \* con_t::pc of each stage, the coroutine init being stage 0
  squaring,   \* is the subroutine square on top of the stack of a stage?
  svc_req,    \* fibre_t::svc_req: a request, or "none"
  word,       \* what a stage reads into, a pointer or an int
  outptr,     \* what a source or a transducer of chips writes
  counter,    \* what a source or a producer has made, or a bound has left
  heap,       \* the value at each address, None if it is free
  shown,      \* what a sink has shown, or a consumer has pushed onto its list
  at,         \* where each thread is in sync_run and run_fibre
  current,    \* csp_thread_t::current
  active,     \* csp_process_t::active, top first
  suspended   \* the stages suspended on the channel they asked to use

stageVars == <<pc, squaring, svc_req, word, outptr, counter>>
threadVars == <<at, current, active, suspended>>
vars == <<program, stageVars, heap, shown, threadVars>>

Stage == 0..Len(program)
Kind(i) == IF i = 0 THEN "init" ELSE program[i]

\* chips pass pointers to objects that the writer allocates and whoever uses
\* them last deletes; the stages of ex01 pass integers.
Chips == {i \in Stage : Kind(i) \in {"source", "bound", "transducer", "sink"}}

\* The cases of each switch.
Cases(kind) ==
  CASE kind = "init" -> Stage
    [] kind \in {"source", "producer", "hello"} -> 0..1
    [] kind = "caller" -> 0..3
    [] OTHER -> 0..2

Value == Nat \X Nat
Squared(v) == <<v[1], v[2] + 1>>

\* Beyond types: pc always has a case, the default of the switches being
\* assert(false).
TypeOK ==
  /\ program \in Programs
  /\ \A i \in Stage : pc[i] \in Cases(Kind(i))
  /\ squaring \in [Stage -> BOOLEAN]
  /\ svc_req \in [Stage -> {"none", "read", "write", "spawn"}]
  /\ \A i \in Stage : word[i] \in Address \cup {None} \/ word[i] \in Value
  /\ outptr \in [Stage -> Address \cup {None}]
  /\ counter \in [Stage -> Nat]
  /\ \A a \in Address : heap[a] = None \/ heap[a] \in Value
  /\ shown \in Seq(Value)
  /\ at \in [Thread -> {"loop", "resume", "serve", "dead", "idle"}]
  /\ current \in [Thread -> Stage \cup {None}]
  /\ active \in Seq(Stage)
  /\ suspended \subseteq Stage

\* csp_run has made the fibre of init, in which the chips are set up.
Init ==
  /\ program \in Programs
  /\ pc = [i \in Stage |-> 0]
  /\ squaring = [i \in Stage |-> FALSE]
  /\ svc_req = [i \in Stage |-> "none"]
  /\ word = [i \in Stage |-> None]
  /\ outptr = [i \in Stage |-> None]
  /\ counter = [i \in Stage |-> IF Kind(i) = "bound" THEN Bound ELSE 0]
  /\ heap = [a \in Address |-> None]
  /\ shown = << >>
  /\ active = << >> /\ suspended = {}
  /\ \E t \in Thread :
       /\ current = [u \in Thread |-> IF u = t THEN 0 ELSE None]
       /\ at = [u \in Thread |-> IF u = t THEN "loop" ELSE "idle"]

-----------------------------------------------------------------------------
(***************************************************************************)
(* Resumption.  Each action below is a call of resume on the continuation  *)
(* on top of the stack of the current fibre.                               *)
(***************************************************************************)

\* Thread t goes from one place to another.
Go(t, from, to) ==
  /\ at[t] = from
  /\ at' = [at EXCEPT ![t] = to]
  /\ UNCHANGED program

\* Thread t resumes stage i, of some kind, at one of the cases.
Resumes(t, i, kind, cases) ==
  /\ at[t] = "resume"
  /\ current[t] = i /\ Kind(i) = kind /\ ~squaring[i] /\ pc[i] \in cases

\* SVC: return this with a request.
Ask(t, i, code, case) ==
  /\ Go(t, "resume", "serve")
  /\ svc_req' = [svc_req EXCEPT ![i] = code]
  /\ pc' = [pc EXCEPT ![i] = case]
  /\ UNCHANGED <<squaring, current, active, suspended>>

\* Return a continuation without a request: run_fibre resumes it, unless it
\* finds a request in the fibre.
Continue(t, i, case) ==
  /\ Go(t, "resume", IF svc_req[i] = "none" THEN "resume" ELSE "serve")
  /\ pc' = [pc EXCEPT ![i] = case]
  /\ UNCHANGED <<svc_req, outptr, counter, heap, current, active, suspended>>

\* return_control of a coroutine: run_fibre returns no request.
Suicide(t) ==
  /\ Go(t, "resume", "dead")
  /\ UNCHANGED <<stageVars, heap, shown, current, active, suspended>>

\* Where the next object is allocated.  Which free address it is makes no
\* difference; that it is always the same one brings addresses back soon.
Fresh == CHOOSE a \in Address : heap[a] = None

\* chips::source
Source(t, i) ==
  /\ Resumes(t, i, "source", {0, 1})
  /\ heap' = [heap EXCEPT ![Fresh] = <<counter[i] + 1, 0>>]
  /\ outptr' = [outptr EXCEPT ![i] = Fresh]
  /\ counter' = [counter EXCEPT ![i] = @ + 1]
  /\ Ask(t, i, "write", 1)
  /\ UNCHANGED <<word, shown>>

\* The first read of a chip.
ChipReads(t, i) ==
  /\ Resumes(t, i, "sink", {0, 1}) \/ Resumes(t, i, "transducer", {0, 1})
  /\ Ask(t, i, "read", 2)
  /\ UNCHANGED <<word, outptr, counter, heap, shown>>

\* (Mutant of Show: the object is not deleted.)
ShowOnly(t, i) ==
  /\ Resumes(t, i, "sink", {2})
  /\ shown' = Append(shown, heap[word[i]])
  /\ Ask(t, i, "read", 2)
  /\ UNCHANGED <<word, outptr, counter, heap>>

\* chips::sink, at case 2 and again at the label "again".
Show(t, i) ==
  /\ Resumes(t, i, "sink", {2})
  /\ shown' = Append(shown, heap[word[i]])
  /\ heap' = [heap EXCEPT ![word[i]] = None]
  /\ Ask(t, i, "read", 2)
  /\ UNCHANGED <<word, outptr, counter>>

\* chips::transducer at case 2.
Transduce(t, i) ==
  /\ Resumes(t, i, "transducer", {2})
  /\ heap' = [heap EXCEPT ![Fresh] = Squared(heap[word[i]]), ![word[i]] = None]
  /\ outptr' = [outptr EXCEPT ![i] = Fresh]
  /\ Ask(t, i, "write", 1)
  /\ UNCHANGED <<word, counter, shown>>

\* chips::bound
BoundReads(t, i) ==
  /\ Resumes(t, i, "bound", {0, 1})
  /\ \/ counter[i] = 0 /\ Suicide(t)
     \/ /\ counter[i] # 0
        /\ Ask(t, i, "read", 2)
        /\ UNCHANGED <<word, outptr, counter, heap, shown>>

BoundWrites(t, i) ==
  /\ Resumes(t, i, "bound", {2})
  /\ counter' = [counter EXCEPT ![i] = @ - 1]
  /\ Ask(t, i, "write", 1)
  /\ UNCHANGED <<word, outptr, heap, shown>>

\* producer of ex01, whose iterator is the counter.
Produce(t, i) ==
  /\ Resumes(t, i, "producer", {0, 1})
  /\ \/ counter[i] = InputSize /\ Suicide(t)
     \/ /\ counter[i] # InputSize
        /\ word' = [word EXCEPT ![i] = <<counter[i] + 1, 0>>]
        /\ counter' = [counter EXCEPT ![i] = @ + 1]
        /\ Ask(t, i, "write", 1)
        /\ UNCHANGED <<outptr, heap, shown>>

\* transducer and consumer of ex01 read.  Case 0 falls through into case 1,
\* which does not set pc: the first time it leaves pc at 1, and reads again.
Reads(t, i) ==
  /\ Resumes(t, i, "caller", {0, 1}) \/ Resumes(t, i, "consumer", {0, 1})
  /\ Ask(t, i, "read", pc[i] + 1)
  /\ UNCHANGED <<word, outptr, counter, heap, shown>>

\* transducer of ex01 calls square,
Call(t, i) ==
  /\ Resumes(t, i, "caller", {2})
  /\ squaring' = [squaring EXCEPT ![i] = TRUE]
  /\ Continue(t, i, 3)
  /\ UNCHANGED <<word, shown>>

\* which returns to its caller through a pointer,
Square(t, i) ==
  /\ at[t] = "resume" /\ current[t] = i /\ squaring[i]
  /\ word' = [word EXCEPT ![i] = Squared(@)]
  /\ squaring' = [squaring EXCEPT ![i] = FALSE]
  /\ Continue(t, i, pc[i])
  /\ UNCHANGED shown

\* (Mutant of CallerWrites: pc is not set back.)
CallerWritesAgain(t, i) ==
  /\ Resumes(t, i, "caller", {3})
  /\ Ask(t, i, "write", 3)
  /\ UNCHANGED <<word, outptr, counter, heap, shown>>

\* and writes the square.
CallerWrites(t, i) ==
  /\ Resumes(t, i, "caller", {3})
  /\ Ask(t, i, "write", 1)
  /\ UNCHANGED <<word, outptr, counter, heap, shown>>

\* (Mutant of Consume: the CSP_GOTO is missing.)
ConsumeFallsOff(t, i) ==
  /\ Resumes(t, i, "consumer", {2})
  /\ shown' = Append(shown, word[i])
  /\ Continue(t, i, 3)
  /\ UNCHANGED <<squaring, word>>

\* consumer of ex01, up to its CSP_GOTO.
Consume(t, i) ==
  /\ Resumes(t, i, "consumer", {2})
  /\ shown' = Append(shown, word[i])
  /\ Continue(t, i, 1)
  /\ UNCHANGED <<squaring, word>>

Hello(t, i) == Resumes(t, i, "hello", {0}) /\ Suicide(t)

\* init spawns the stages in order, then ends.  (That of ex01 sleeps first.)
Construct(t, i) ==
  /\ Resumes(t, i, "init", Stage)
  /\ \/ pc[i] = Len(program) /\ Suicide(t)
     \/ /\ pc[i] # Len(program)
        /\ Ask(t, i, "spawn", pc[i] + 1)
        /\ UNCHANGED <<word, outptr, counter, heap, shown>>

Resume(t, i) ==
  \/ Source(t, i) \/ ChipReads(t, i) \/ Show(t, i) \/ Transduce(t, i)
  \/ BoundReads(t, i) \/ BoundWrites(t, i)
  \/ Produce(t, i) \/ Reads(t, i) \/ Call(t, i) \/ Square(t, i)
  \/ CallerWrites(t, i) \/ Consume(t, i) \/ Hello(t, i) \/ Construct(t, i)

-----------------------------------------------------------------------------
(***************************************************************************)
(* The scheduler                                                           *)
(***************************************************************************)

\* (Mutant of Begin: the old request is left in the fibre.)
BeginKeepsRequest(t) ==
  /\ current[t] # None
  /\ Go(t, "loop", "resume")
  /\ UNCHANGED <<stageVars, heap, shown, current, active, suspended>>

\* The head of the loop of sync_run: null out the service request.
Begin(t) ==
  /\ current[t] # None
  /\ Go(t, "loop", "resume")
  /\ svc_req' = [svc_req EXCEPT ![current[t]] = "none"]
  /\ UNCHANGED <<pc, squaring, word, outptr, counter, heap, shown, current,
                 active, suspended>>

\* csp_process_t::pop into current; without a fibre the thread is idle.
Pop(t, from) ==
  /\ Go(t, from, IF active = << >> THEN "idle" ELSE "loop")
  /\ current' = [current EXCEPT ![t] = IF active = << >> THEN None ELSE Head(active)]
  /\ active' = IF active = << >> THEN active ELSE Tail(active)

\* Stage i waits on its channel to read, or to write.
Waits(i, code) == i \in suspended /\ svc_req[i] = code

\* The word a stage writes is the one it read into, or another.
Offered(i) == IF Kind(i) \in {"source", "transducer"} THEN outptr[i] ELSE word[i]

Transfer(w, r) == word' = [word EXCEPT ![r] = Offered(w)]

Suspend(t, i) ==
  /\ suspended' = suspended \cup {i}
  /\ Pop(t, "serve")
  /\ UNCHANGED <<stageVars, heap, shown>>

\* A reader that finds a writer goes on, and the writer becomes active.
Read(t, i) ==
  /\ at[t] = "serve" /\ current[t] = i /\ svc_req[i] = "read"
  /\ \/ /\ Waits(i - 1, "write")
        /\ Transfer(i - 1, i)
        /\ suspended' = suspended \ {i - 1}
        /\ active' = <<i - 1>> \o active
        /\ Go(t, "serve", "loop")
        /\ UNCHANGED <<pc, squaring, svc_req, outptr, counter, heap, shown, current>>
     \/ ~Waits(i - 1, "write") /\ Suspend(t, i)

\* (Mutant of Write: a writer that finds no reader does not wait for one.)
WriteUnmatched(t, i) ==
  /\ at[t] = "serve" /\ current[t] = i /\ svc_req[i] = "write"
  /\ ~Waits(i + 1, "read")
  /\ Go(t, "serve", "loop")
  /\ UNCHANGED <<stageVars, heap, shown, current, active, suspended>>

\* A writer that finds a reader lets it go on, and becomes active.
Write(t, i) ==
  /\ at[t] = "serve" /\ current[t] = i /\ svc_req[i] = "write"
  /\ \/ /\ Waits(i + 1, "read")
        /\ Transfer(i, i + 1)
        /\ suspended' = suspended \ {i + 1}
        /\ active' = <<i>> \o active
        /\ current' = [current EXCEPT ![t] = i + 1]
        /\ Go(t, "serve", "loop")
        /\ UNCHANGED <<pc, squaring, svc_req, outptr, counter, heap, shown>>
     \/ ~Waits(i + 1, "read") /\ Suspend(t, i)

\* do_spawn_fibre_deferred, of the stage that init has got to.
Spawn(t, i) ==
  /\ current[t] = i /\ svc_req[i] = "spawn"
  /\ Go(t, "serve", "loop")
  /\ svc_req' = [svc_req EXCEPT ![i] = "none"]
  /\ active' = <<pc[i]>> \o active
  /\ UNCHANGED <<pc, squaring, word, outptr, counter, heap, shown, current, suspended>>

\* The fibre is dead, and is deleted.
Die(t) == Pop(t, "dead") /\ UNCHANGED <<stageVars, heap, shown, suspended>>

\* An idle thread finds that there is work.
FindWork(t) ==
  /\ active # << >>
  /\ Pop(t, "idle")
  /\ UNCHANGED <<stageVars, heap, shown, suspended>>

Step(t) ==
  \/ \E i \in Stage : Resume(t, i) \/ Read(t, i) \/ Write(t, i) \/ Spawn(t, i)
  \/ Begin(t) \/ Die(t) \/ FindWork(t)

Next == \E t \in Thread : Step(t)

\* Threads are preempted but run again, and no stage computes for ever.
Spec == Init /\ [][Next]_vars /\ \A t \in Thread : WF_vars(Step(t))

-----------------------------------------------------------------------------
(***************************************************************************)
(* Properties                                                              *)
(***************************************************************************)

Count(kinds) == Cardinality({i \in Stage : Kind(i) \in kinds})

\* What the end of the pipeline should receive nth, if no value is lost.
Expected(n) == <<n, Count({"transducer", "caller"})>>

\* How many it should receive.
Total == IF Count({"bound"}) > 0 THEN Bound ELSE InputSize

\* The stages of ex01 each drop the first value they read.
Lost == Count({"caller", "consumer"})

\* Everything is shown in the order it was made, once, as often transformed as
\* there are stages to do so, and nothing is missing but the values dropped at
\* the start: whoever is resumed, and however often, no other is.
ShownInOrder == \A n \in DOMAIN shown : shown[n] = Expected(n + Lost)

\* A stage asks and has not been answered.
Asking(i) ==
  i \in suspended \/ \E t \in Thread : current[t] = i /\ at[t] = "serve"

\* The object a chip has to pass on or delete: the one it writes until that is
\* read, or the one it has read until it uses it.
Held(i) ==
  IF Asking(i) THEN IF svc_req[i] = "write" THEN {Offered(i)} ELSE {}
  ELSE IF pc[i] = 2 THEN {word[i]} ELSE {}

\* README.md: "the system moves a pointer to data from the writer to the reader.
\* Therefore our consumer must delete the data after using it."  Every object
\* allocated is one chip's to pass on or to delete, and no chip has one that
\* was deleted: none leaks, none is deleted twice, used after, or shared.
OneOwner ==
  \A a \in Address :
    Cardinality({i \in Chips : a \in Held(i)}) = IF heap[a] = None THEN 0 ELSE 1

\* A channel holds nothing: what was made and is not yet shown or lost is with
\* some stage, one for each.  So the source, which never ends, is held back
\* by the stages after it and stops when they do.
RunsAhead == counter[1] <= Len(shown) + Lost + Count(Kinds \ {"hello"})

\* However the threads take turns, nobody waits for ever while there is more to
\* pass on: the last stage receives all it should.
AllShown == <>[](Len(shown) + Lost >= Total)

Stopped == active = << >> /\ \A t \in Thread : at[t] = "idle"

\* ex01.cxx: "the result is now in the outlist so print it", under the heading
\* "List of squares".  When the program has stopped the squares of all of the
\* input are on the list.
ListOfSquares == Stopped => shown = [n \in 1..Total |-> Expected(n)]
=============================================================================
