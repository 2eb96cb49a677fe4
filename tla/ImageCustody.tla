---------------------------- MODULE ImageCustody ----------------------------
(***************************************************************************)
(* What becomes of an image that was assigned: ImageServer with histories  *)
(* of what every operator session was given and has decided. The server    *)
(* keeps neither: an image whose decision does not come is gone for it.    *)
(***************************************************************************)
EXTENDS ImageServer

VARIABLES
    given,     \* [s]: images assigned to session s, written to it or not
    judged     \* [s]: images whose decision was read from it

varsC == <<vars, given, judged>>

\* assignImages() marks the operator of session s BUSY, for the top image.
Assigned(s) ==
    \E o \in OperatorId : operators_[o] = s /\ opState[o] = "AVAILABLE" /\ opState'[o] = "BUSY"

TopImage == CHOOSE i \in imageQueue_ : IsTop(i)

Record ==
    /\ given' = [s \in Session |-> IF Assigned(s) THEN Append(given[s], TopImage) ELSE given[s]]
    /\ judged' = [s \in Session |->
                     IF ReadDecision(s) THEN Append(judged[s], Head(answers[s])) ELSE judged[s]]

InitC == Init /\ given = [s \in Session |-> <<>>] /\ judged = [s \in Session |-> <<>>]

SpecC == InitC /\ [][Next /\ Record]_varsC

-----------------------------------------------------------------------------

GivenTo(s) == {given[s][n] : n \in 1 .. Len(given[s])}

\* What session s has, or had, of its operator, in the order of assignment:
\* decided and read by the server, decided, and shown to the operator.
Handled(s) == judged[s] \o answers[s] \o desk[s]

\* Whatever fails, an image that was received is queued or has been assigned to
\* an operator, and one that got as far as an operator is handled once, by that
\* one: it is on one desk, one answer is on its way, or it was decided once, and
\* it is not queued any more. (What becomes of an image whose send fails is left
\* open: it may be queued and assigned again, or dropped, see NoImageDropped.)
HandledOnce ==
    /\ \A i \in received : i \in imageQueue_ \/ \E s \in Session : i \in GivenTo(s)
    /\ \A s \in Session : \A n \in 1 .. Len(Handled(s)) :
          Handled(s)[n] \in {EmptyImage} \cup (delivered \ imageQueue_)
    /\ \A s, t \in Session : \A m \in 1 .. Len(Handled(s)), n \in 1 .. Len(Handled(t)) :
          Handled(s)[m] = Handled(t)[n] /\ Handled(s)[m] # EmptyImage => s = t /\ m = n

\* An operator's decisions are read for the images it was assigned, in their
\* order, and it is not assigned another one before: all are decided while it
\* is AVAILABLE, and losing it, or a send to it, costs at most one image. (If
\* an id connects twice, what the old session has goes with it.)
AtMostOneUndecided ==
    Absent({"overlap"}) =>
        /\ \A s \in Session :
              given[s] = judged[s] \/ \E i \in GivenTo(s) : given[s] = Append(judged[s], i)
        /\ \A o \in Available : given[operators_[o]] = judged[operators_[o]]

-----------------------------------------------------------------------------
(* What is inductive, together with IInv of ImageServer.                   *)

HistoryOK ==
    /\ given \in [Session -> Seq(Image \cup {EmptyImage})]
    /\ judged \in [Session -> Seq(Image \cup {EmptyImage})]

\* The image that was assigned last is on the desk of the operator, or its
\* answer is on the way, or neither: the send or the operator was lost.
LastOnItsWay(s) ==
    \/ desk[s] = <<>> /\ answers[s] = <<>> /\ given[s] = judged[s]
    \/ \E i \in Image \cup {EmptyImage} :
          /\ given[s] = Append(judged[s], i)
          /\ \/ desk[s] = <<>> /\ answers[s] \in {<<>>, <<i>>}
             \/ desk[s] = <<i>> /\ answers[s] = <<>>

CustodyInv ==
    Absent({"overlap"}) =>
        /\ \A s \in Session : LastOnItsWay(s)
        /\ \A s \in Session : phase[s] \notin Established => given[s] = judged[s]
        /\ \A o \in Available : given[operators_[o]] = judged[operators_[o]]
=============================================================================
