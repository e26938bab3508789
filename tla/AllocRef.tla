------------------------------- MODULE AllocRef -------------------------------
(***************************************************************************)
(* The handles of allocators, alloc_ref_t.  An allocator counts the        *)
(* handles that refer to it, those of its children included: a child keeps *)
(* a handle of its parent, who gave it its memory and takes it back, and   *)
(* one of its delegate, whom it passes requests on to.                     *)
(*                                                                         *)
(* The destructor of a handle loads the count, and either decrements it or *)
(* deletes the allocator, which drops the handles of that allocator, which *)
(* may delete others.  Other threads take steps in between.                *)
(***************************************************************************)
EXTENDS Naturals, FiniteSets, Stacks

CONSTANTS
  Thread,
  Allocator,
  Slot,        \* the variables that are handles
  Owner,       \* the thread whose variable, or whose process's, each is
  None         \* nullptr

ASSUME AllocRefAssumption ==
  /\ IsFiniteSet(Thread) /\ IsFiniteSet(Allocator) /\ IsFiniteSet(Slot)
  /\ Owner \in [Slot -> Thread]
  /\ None \notin Allocator

VARIABLES
  running,     \* the threads the program starts
  state,       \* of each allocator
  parent, delegate, refcnt, \* its fields
  handle,      \* what each variable refers to
  todo         \* what is left of the destructor or assignment each executes

vars == <<running, state, parent, delegate, refcnt, handle, todo>>

\* What a thread is about to do: start or finish the destructor of a handle of
\* a, give back the memory of a, or make handle r refer to what s does.
Task == {"drop", "decrement", "deallocate"} \X Allocator \cup {"copy", "move"} \X Slot \X Slot

TypeOK ==
  /\ running \subseteq Thread
  /\ state \in [Allocator -> {"unused", "live", "dying", "freed"}]
  /\ parent \in [Allocator -> Allocator \cup {None}]
  /\ delegate \in [Allocator -> Allocator \cup {None}]
  /\ refcnt \in [Allocator -> Nat]
  /\ handle \in [Slot -> Allocator \cup {None}]
  /\ todo \in [Thread -> Seq(Task)]

Init ==
  /\ running \in SUBSET Thread \ {{}}
  /\ state = [a \in Allocator |-> "unused"]
  /\ parent = [a \in Allocator |-> None]
  /\ delegate = [a \in Allocator |-> None]
  /\ refcnt = [a \in Allocator |-> 0]
  /\ handle = [s \in Slot |-> None]
  /\ todo = [t \in Thread |-> << >>]

-----------------------------------------------------------------------------
\* The counts once the handles in bag, a sequence, were copied: None has none.
Counted(bag) ==
  [a \in Allocator |-> refcnt[a] + Cardinality({i \in DOMAIN bag : bag[i] = a})]

Idle(t) == todo[t] = << >>

\* (Mutant of Construct: the delegate is kept by its address.)
ConstructUncounted(a, s, p, d) ==
  /\ Idle(Owner[s]) /\ handle[s] = None
  /\ state[a] = "unused"
  /\ (p = None) <=> (d = None)
  /\ state' = [state EXCEPT ![a] = "live"]
  /\ parent' = [parent EXCEPT ![a] = p]
  /\ delegate' = [delegate EXCEPT ![a] = d]
  /\ refcnt' = [Counted(<<p>>) EXCEPT ![a] = 1]
  /\ handle' = [handle EXCEPT ![s] = a]
  /\ UNCHANGED todo

\* new malloc_free_allocator_t, without p and d, or one of the allocators that
\* have both.  The copies made to pass p and d on are dropped again while t has
\* them, so that no destructor in another thread finds a count of 1 for them.
Construct(a, s, p, d) ==
  /\ Idle(Owner[s]) /\ handle[s] = None
  /\ state[a] = "unused"
  /\ (p = None) <=> (d = None)
  /\ state' = [state EXCEPT ![a] = "live"]
  /\ parent' = [parent EXCEPT ![a] = p]
  /\ delegate' = [delegate EXCEPT ![a] = d]
  /\ refcnt' = [Counted(<<p, d>>) EXCEPT ![a] = 1]
  /\ handle' = [handle EXCEPT ![s] = a]
  /\ UNCHANGED todo

\* (Mutant of Copy: the handle is copied as it stands.)
CopyUncounted(s, r) ==
  /\ Idle(Owner[r]) /\ handle[r] = None
  /\ handle[s] # None /\ \A q \in Slot : <<"move", s, q>> \notin Elements(todo[Owner[s]])
  /\ handle' = [handle EXCEPT ![r] = handle[s]]
  /\ UNCHANGED <<state, parent, delegate, refcnt, todo>>

\* s is copied to r, which may be of another thread: threads copy the handle of
\* their process, which is given a copy of a handle of its creator.
Copy(s, r) ==
  /\ Idle(Owner[r]) /\ handle[r] = None
  /\ handle[s] # None /\ \A q \in Slot : <<"move", s, q>> \notin Elements(todo[Owner[s]])
  /\ handle' = [handle EXCEPT ![r] = handle[s]]
  /\ refcnt' = Counted(<<handle[s]>>)
  /\ UNCHANGED <<state, parent, delegate, todo>>

\* A handle is passed on.
Move(s, r) ==
  /\ Idle(Owner[s]) /\ Idle(Owner[r])
  /\ handle[s] # None /\ handle[r] = None
  /\ handle' = [handle EXCEPT ![r] = handle[s], ![s] = None]
  /\ UNCHANGED <<state, parent, delegate, refcnt, todo>>

\* The destructor of a handle of h does nothing to a null handle.
DropsOf(h) == IF h = None THEN << >> ELSE <<<<"drop", h>>>>

\* Assignment destroys its target, then copies or moves its source to it.
Assign(t, s, r, how) ==
  /\ Idle(t) /\ s # r
  /\ todo' = [todo EXCEPT ![t] = DropsOf(handle[r]) \o <<<<how, s, r>>>>]
  /\ handle' = [handle EXCEPT ![r] = None]
  /\ UNCHANGED <<state, parent, delegate, refcnt>>

\* A handle goes out of scope.
Drop(t, s) ==
  /\ Idle(t) /\ handle[s] # None
  /\ todo' = [todo EXCEPT ![t] = DropsOf(handle[s])]
  /\ handle' = [handle EXCEPT ![s] = None]
  /\ UNCHANGED <<state, parent, delegate, refcnt>>

-----------------------------------------------------------------------------
\* The task of t is to do this to a.
Doing(t, this, a) == ~Idle(t) /\ Head(todo[t]) = <<this, a>>

\* What t does in place of its task.
Becomes(t, tasks) == todo' = [todo EXCEPT ![t] = tasks \o Tail(@)]

Shared(t, a) ==
  /\ Doing(t, "drop", a) /\ refcnt[a] # 1
  /\ Becomes(t, <<<<"decrement", a>>>>)
  /\ UNCHANGED <<state, parent, delegate, refcnt, handle>>

Decrement(t, a) ==
  /\ Doing(t, "decrement", a)
  /\ Becomes(t, << >>)
  /\ refcnt' = [refcnt EXCEPT ![a] = @ - 1]
  /\ UNCHANGED <<state, parent, delegate, handle>>

\* The destructor of a destroys its members, then those of its base.
FieldDrops(a) == DropsOf(delegate[a]) \o DropsOf(parent[a])

\* (Mutant of Delete: the parent is passed by its address.)
DeleteBorrowed(t, a) ==
  /\ Doing(t, "drop", a) /\ refcnt[a] = 1
  /\ state' = [state EXCEPT ![a] = "dying"]
  /\ Becomes(t, FieldDrops(a) \o <<<<"deallocate", a>>>>)
  /\ UNCHANGED <<parent, delegate, refcnt, handle>>

\* (Mutant of Delete: the handles of a are not destroyed.)
DeleteShallow(t, a) ==
  /\ Doing(t, "drop", a) /\ refcnt[a] = 1
  /\ state' = [state EXCEPT ![a] = "dying"]
  /\ refcnt' = Counted(<<parent[a]>>)
  /\ Becomes(t, <<<<"deallocate", a>>>> \o DropsOf(parent[a]))
  /\ UNCHANGED <<parent, delegate, handle>>

\* The last handle: a copy of the handle of the parent is made, the destructor
\* of a destroys its handles, the parent takes the memory back, and the copy is
\* destroyed.  Another thread cannot tell the copy from the handle of a, so
\* that the load of the count and the copy are one step.
Delete(t, a) ==
  /\ Doing(t, "drop", a) /\ refcnt[a] = 1
  /\ state' = [state EXCEPT ![a] = "dying"]
  /\ refcnt' = Counted(<<parent[a]>>)
  /\ Becomes(t, FieldDrops(a) \o <<<<"deallocate", a>>>> \o DropsOf(parent[a]))
  /\ UNCHANGED <<parent, delegate, handle>>

Deallocate(t, a) ==
  /\ Doing(t, "deallocate", a)
  /\ Becomes(t, << >>)
  /\ state' = [state EXCEPT ![a] = "freed"]
  /\ UNCHANGED <<parent, delegate, refcnt, handle>>

\* The second half of an assignment.
Assigned(t, s, r) ==
  /\ ~Idle(t)
  /\ Becomes(t, << >>)
  /\ \/ /\ Head(todo[t]) = <<"copy", s, r>>
        /\ handle' = [handle EXCEPT ![r] = handle[s]]
        /\ refcnt' = Counted(<<handle[s]>>)
     \/ /\ Head(todo[t]) = <<"move", s, r>>
        /\ handle' = [handle EXCEPT ![r] = handle[s], ![s] = None]
        /\ UNCHANGED refcnt
  /\ UNCHANGED <<state, parent, delegate>>

-----------------------------------------------------------------------------
Mine(t) == {s \in Slot : Owner[s] = t}
Known(t) == {handle[s] : s \in Mine(t)} \cup {None}

Uses(t) ==
  \/ \E a \in Allocator, s \in Mine(t), p, d \in Known(t) : Construct(a, s, p, d)
  \/ \E s \in Mine(t), u \in running : \E r \in Mine(u) : Copy(s, r) \/ Move(s, r)
  \/ \E s, r \in Mine(t), how \in {"copy", "move"} : Assign(t, s, r, how)
  \/ \E s \in Mine(t) : Drop(t, s)

Proceeds(t) ==
  \/ \E a \in Allocator : Shared(t, a) \/ Decrement(t, a) \/ Delete(t, a) \/ Deallocate(t, a)
  \/ \E s, r \in Mine(t) : Assigned(t, s, r)

Next == (\E t \in running : Uses(t) \/ Proceeds(t)) /\ UNCHANGED running

Spec == Init /\ [][Next]_vars

-----------------------------------------------------------------------------
(***************************************************************************)
(* Properties                                                              *)
(***************************************************************************)

Tasks(task) ==
  UNION {{<<t, i>> : i \in {j \in DOMAIN todo[t] : todo[t][j] = task}} : t \in Thread}

\* The handles of a: of threads, of allocators, and of destructors.
Handles(a) ==
  Cardinality({s \in Slot : handle[s] = a})
  + Cardinality({b \in Allocator : state[b] = "live" /\ parent[b] = a})
  + Cardinality({b \in Allocator : state[b] = "live" /\ delegate[b] = a})
  + Cardinality(Tasks(<<"drop", a>>)) + Cardinality(Tasks(<<"decrement", a>>))

\* However threads copy, move, assign and drop handles, and whatever the
\* destructors they are in have left to do, the count is that of the handles.
CountExact == \A a \in Allocator : state[a] = "live" => refcnt[a] = Handles(a)

\* What a handle refers to exists, a delegate that another allocator would pass
\* a request on to included; in particular "destroying the target will not
\* destroy the allocator" that is its source (allocator.hpp, operator=), and no
\* two destructors delete one allocator, for the second would have a handle of
\* one that is being deleted.  So does the parent that takes the memory of an
\* allocator back, though the destructor of that allocator has dropped its
\* handle of the parent.
NoneDangling ==
  /\ \A a \in Allocator : state[a] # "live" => Handles(a) = 0
  /\ \A t \in Thread, a \in Allocator :
        Doing(t, "deallocate", a) /\ parent[a] # None => state[parent[a]] = "live"

\* An allocator that no handle refers to is freed.  Two threads that drop the
\* last two handles may both find a count of 2, so this is of one thread.
NothingOrphaned ==
  Cardinality(running) = 1 => \A a \in Allocator : state[a] = "live" => Handles(a) > 0
=============================================================================
