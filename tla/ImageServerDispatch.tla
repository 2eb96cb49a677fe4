------------------------- MODULE ImageServerDispatch -------------------------
(***************************************************************************)
(* ImageServer implements ImageDispatch: what waits is imageQueue_ without *)
(* the empty image of the catch block, who is free is who operatorIdleMap_ *)
(* says to be AVAILABLE.                                                   *)
(***************************************************************************)
EXTENDS ImageServer

Dispatcher == INSTANCE ImageDispatch WITH
    Operator <- OperatorId,
    Lossy    <- ~Absent({"operator_loss", "spawn"}),
    seen     <- received,
    waiting  <- imageQueue_ \ {EmptyImage},
    sent     <- delivered,
    free     <- Available

\* Every step of the server, its failures and its crash included, is a step
\* of the dispatcher or leaves what the dispatcher is about as it is: images
\* leave the queue earliest first, one for each operator that is free, and
\* none is lost but by a failing assignment.
ImplementsDispatch == Dispatcher!DispatchSpec

\* The empty image comes into being only where an assignment fails, and while
\* none can fail the peer of an operator is there.
NoFailureUnlessLossy ==
    Absent({"operator_loss", "spawn"}) =>
        /\ EmptyImage \notin imageQueue_
        /\ \A s \in Session : \A n \in 1 .. Len(desk[s]) : desk[s][n] # EmptyImage
        /\ \A s \in Session : phase[s] # "dialed" /\ systemId[s] \in OperatorId => peerUp[s]
=============================================================================
