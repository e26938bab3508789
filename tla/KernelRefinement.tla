--------------------------- MODULE KernelRefinement ---------------------------
(***************************************************************************)
(* ChannelKernel implements CSPModel.                                      *)
(***************************************************************************)
EXTENDS ChannelKernel

\* The current fibre and the active set, but not one that is being deleted.
ReadyFibres == (({current} \ {None}) \cup Ready) \ Dying

\* The fibres on the channels that want to read, or to write.
WaitingTo(wr) ==
  [c \in Channel |-> {f \in Fibre : [fib |-> f, wr |-> wr] \in Elements(top[c])}]

Model == INSTANCE CSPModel WITH ready <- ReadyFibres,
                                readers <- WaitingTo(FALSE),
                                writers <- WaitingTo(TRUE)

\* Whatever the endpoints, counts and destructors do, a program sees a fibre
\* resumed only by a matching request, suspended only when there is none, and
\* removed only by its own end or with its channel.
ImplementsModel == Model!ModelSpec
=============================================================================
