----------------------------- MODULE OperatorPeer -----------------------------
(***************************************************************************)
(* What ImageServer takes an operator to be (OperatorDecides,              *)
(* OperatorChokes, PeerDies): a desk, on which images are put and decided  *)
(* in their order, one answer each, until the program ends, by an image it *)
(* cannot read or by a fault.                                              *)
(***************************************************************************)
EXTENDS Naturals, Sequences

CONSTANTS Image, Unreadable, Null

VARIABLES
    up, desk,
    answers,     \* not yet read
    faulted      \* has there been a fault, or may there be?

peerVars == <<up, desk, answers, faulted>>

Init == up = TRUE /\ desk = <<>> /\ answers = <<>> /\ faulted \in BOOLEAN

Put(i) ==
    /\ up /\ desk' = Append(desk, i)
    /\ UNCHANGED <<up, answers, faulted>>

\* The answer is for the image at the head of the desk.
Decide ==
    /\ up /\ desk # <<>> /\ Head(desk) \notin Unreadable
    /\ desk' = Tail(desk)
    /\ answers' = Append(answers, Head(desk))
    /\ UNCHANGED <<up, faulted>>

Choke ==
    /\ up /\ desk # <<>> /\ Head(desk) \in Unreadable
    /\ up' = FALSE /\ desk' = <<>>
    /\ UNCHANGED <<answers, faulted>>

Collect == answers # <<>> /\ answers' = Tail(answers) /\ UNCHANGED <<up, desk, faulted>>

\* The program or its connection is lost. A reset, which takes the answers
\* that were not read, may come after the end of the program.
Die ==
    /\ up' = FALSE /\ desk' = <<>> /\ faulted' = TRUE
    /\ answers' \in {answers, <<>>}

Next == (\E i \in Image : Put(i)) \/ Decide \/ Choke \/ Collect \/ Die

Spec == Init /\ [][Next]_peerVars
===============================================================================
