------------------------------ MODULE Rendezvous ------------------------------
(***************************************************************************)
(* What a channel promises the fibres that share it.  A fibre asks to read *)
(* or to write, and is answered when a reader and a writer meet: the word  *)
(* of the writer becomes that of the reader, and both go on.  Nobody is    *)
(* answered alone, twice, or with a word nobody offered.  Where fibres     *)
(* share endpoints, some that wait may be deleted with the channel, and    *)
(* the channel may be broken, after which nothing is promised.             *)
(***************************************************************************)
CONSTANTS Fibre, Word, Quitter

VARIABLES
  sharing, \* do fibres share endpoints?
  broken,  \* was the channel broken?
  asks,    \* what each fibre asks for, "nothing" while it runs
  word     \* the word each fibre offers, or was given

rendezvousVars == <<sharing, broken, asks, word>>

RendezvousInit ==
  /\ sharing \in BOOLEAN /\ broken = FALSE
  /\ asks \in [Fibre -> {"nothing", "gone"}]
  /\ word \in [Fibre -> Word]

Ask(f) ==
  /\ asks[f] = "nothing"
  /\ \/ asks' = [asks EXCEPT ![f] = "read"] /\ UNCHANGED word
     \/ asks' = [asks EXCEPT ![f] = "write"] /\ \E x \in Word : word' = [word EXCEPT ![f] = x]

Meet ==
  \E r \in {f \in Fibre : asks[f] = "read"}, w \in {f \in Fibre : asks[f] = "write"} :
    /\ asks' = [asks EXCEPT ![r] = "nothing", ![w] = "nothing"]
    /\ word' = [word EXCEPT ![r] = word[w]]

Quit(f) ==
  /\ f \in Quitter \/ sharing
  /\ asks[f] = "nothing"
  /\ asks' = [asks EXCEPT ![f] = "gone"]
  /\ UNCHANGED word

\* A fibre starts with a copy of the reference of another.
Start(f) ==
  /\ sharing
  /\ asks[f] = "gone"
  /\ asks' = [asks EXCEPT ![f] = "nothing"]
  /\ UNCHANGED word

\* Fibres are deleted while they wait.
Lose ==
  /\ sharing
  /\ asks' \in [Fibre -> {"nothing", "read", "write", "gone"}]
  /\ \A f \in Fibre :
       asks'[f] # asks[f] => asks[f] \in {"read", "write"} /\ asks'[f] = "nothing"
  /\ UNCHANGED word

Keep ==
  /\ ~broken
  /\ UNCHANGED <<sharing, broken>>
  /\ \/ \E f \in Fibre : Ask(f) \/ Quit(f) \/ Start(f)
     \/ Meet \/ Lose

Break ==
  /\ sharing /\ broken' = TRUE
  /\ asks' \in [Fibre -> {"nothing", "read", "write", "gone"}]
  /\ UNCHANGED <<sharing, word>>

RendezvousNext == Keep \/ Break

RendezvousSafety == RendezvousInit /\ [][RendezvousNext]_rendezvousVars

\* While some reader and some writer wait, some reader and some writer meet.
RendezvousSpec ==
  /\ RendezvousSafety
  /\ WF_rendezvousVars(~sharing /\ Meet /\ UNCHANGED <<sharing, broken>>)
=============================================================================
