------------------------------- MODULE CSPModel -------------------------------
(***************************************************************************)
(* What the kernel promises its programs: fibres that are active, or wait  *)
(* on a channel to read or to write.  A read removes any writer from the   *)
(* channel and makes it active, or else the fibre waits; write is dual; a  *)
(* fibre may spawn another, and may end, even at a read or a write; and a  *)
(* channel may be deleted together with the fibres that wait on it.        *)
(***************************************************************************)
CONSTANTS Fibre, Channel

VARIABLES
  ready,    \* the fibres that run, or are ready to run
  readers,  \* of each channel, the fibres waiting to read from it
  writers   \* and those waiting to write to it

modelVars == <<ready, readers, writers>>

Waiting == UNION {readers[c] \cup writers[c] : c \in Channel}

ModelInit ==
  /\ \E f \in Fibre : ready = {f}
  /\ readers = [c \in Channel |-> {}]
  /\ writers = [c \in Channel |-> {}]

SpawnOne(f) ==
  /\ ready # {} /\ f \notin ready \cup Waiting
  /\ ready' = ready \cup {f}
  /\ UNCHANGED <<readers, writers>>

End(f) ==
  /\ f \in ready
  /\ ready' = ready \ {f}
  /\ UNCHANGED <<readers, writers>>

ReadMatches(c) ==
  /\ ready # {}
  /\ \E w \in writers[c] : /\ writers' = [writers EXCEPT ![c] = @ \ {w}]
                           /\ ready' = ready \cup {w}
  /\ UNCHANGED readers

ReadWaits(f, c) ==
  /\ f \in ready /\ writers[c] = {}
  /\ readers' = [readers EXCEPT ![c] = @ \cup {f}]
  /\ ready' = ready \ {f}
  /\ UNCHANGED writers

WriteMatches(c) ==
  /\ ready # {}
  /\ \E r \in readers[c] : /\ readers' = [readers EXCEPT ![c] = @ \ {r}]
                           /\ ready' = ready \cup {r}
  /\ UNCHANGED writers

WriteWaits(f, c) ==
  /\ f \in ready /\ readers[c] = {}
  /\ writers' = [writers EXCEPT ![c] = @ \cup {f}]
  /\ ready' = ready \ {f}
  /\ UNCHANGED readers

Collapse(c) ==
  /\ readers' = [readers EXCEPT ![c] = {}]
  /\ writers' = [writers EXCEPT ![c] = {}]
  /\ UNCHANGED ready

ModelNext ==
  \/ \E f \in Fibre : SpawnOne(f) \/ End(f)
  \/ \E c \in Channel : ReadMatches(c) \/ WriteMatches(c) \/ Collapse(c)
  \/ \E f \in Fibre, c \in Channel : ReadWaits(f, c) \/ WriteWaits(f, c)

ModelSpec == ModelInit /\ [][ModelNext]_modelVars
=============================================================================
