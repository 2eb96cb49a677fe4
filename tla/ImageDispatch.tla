---------------------------- MODULE ImageDispatch ----------------------------
(***************************************************************************)
(* What the image server is there for, without sessions, registries and    *)
(* flow control: images wait for operators, an operator that is free gets  *)
(* the earliest of them, and is free again when it has decided.            *)
(***************************************************************************)
EXTENDS Integers

CONSTANTS
    Image,      \* scan times, integers
    Operator,
    Lossy       \* BOOLEAN: may an assignment fail and lose its image?

VARIABLES
    seen,       \* images that have arrived
    waiting,    \* images not yet assigned
    sent,       \* images that were sent to an operator
    free        \* operators without an image

dispatchVars == <<seen, waiting, sent, free>>

Earliest(i) == i \in waiting /\ \A j \in waiting : i <= j

DispatchInit == seen = {} /\ waiting = {} /\ sent = {} /\ free = {}

\* A new image arrives.
Receive(i) ==
    /\ i \notin seen
    /\ seen' = seen \cup {i}
    /\ waiting' = waiting \cup {i}
    /\ UNCHANGED <<sent, free>>

\* The earliest image goes to a free operator.
Assign(i, o) ==
    /\ Earliest(i) /\ o \in free
    /\ waiting' = waiting \ {i}
    /\ free' = free \ {o}
    /\ (sent' = sent \cup {i}) \/ (Lossy /\ UNCHANGED sent)
    /\ UNCHANGED seen

\* An operator decides or joins; it leaves or, if assignments fail, is taken
\* out of service without an image.
Release(o) == free' = free \cup {o} /\ UNCHANGED <<seen, waiting, sent>>
Withdraw(o) == free' = free \ {o} /\ UNCHANGED <<seen, waiting, sent>>

DispatchNext ==
    \/ \E i \in Image : Receive(i)
    \/ \E i \in Image, o \in Operator : Assign(i, o)
    \/ \E o \in Operator : Release(o) \/ Withdraw(o)

DispatchSpec == DispatchInit /\ [][DispatchNext]_dispatchVars

\* An image that has arrived waits or was sent, never both; without failing
\* assignments none is lost.
Conserved ==
    /\ waiting \subseteq seen /\ sent \subseteq seen /\ waiting \cap sent = {}
    /\ ~Lossy => seen = waiting \cup sent
=============================================================================
