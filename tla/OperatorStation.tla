--------------------------- MODULE OperatorStation ---------------------------
(***************************************************************************)
(* An operator station, Operators.cs, with the server's end of its         *)
(* connection. The program shows one image at a time and starts a task     *)
(* that polls the keyboard for A or R. After t1 it rejects the image and   *)
(* goes on, but nothing ends the task: it takes keys until it gets an A or *)
(* R, for an image decided long ago. A task asks whether a key is there,   *)
(* and reads one in a second step, which waits if another was faster.      *)
(*                                                                         *)
(* An image is named by its scan time in ticks; EmptyImage is the one that *)
(* a failed send leaves in the queue. The server is reduced to its queue   *)
(* and to one image at a time (ImageServer!OneImagePerOperator).           *)
(***************************************************************************)
EXTENDS ScanTime, Sequences, FiniteSets

CONSTANTS
    Image,      \* scan times of the images
    Null,       \* no image
    MaxKeys     \* bound: keys pressed

EmptyImage == 0
Shown      == Image \cup {EmptyImage}

ASSUME StationAssumption ==
    /\ Image \subseteq Nat \ {EmptyImage} /\ IsFiniteSet(Image)
    /\ Null \notin Shown /\ MaxKeys \in Nat

VARIABLES
    arrived, sent, busy, \* the server: images, and this operator's state
    link, wire,          \* the connection, images on their way
    pc, image, decision, \* the main loop, the image shown, its decision
    reader,              \* the key task of every image
    keys, pressed,       \* unread keys, [key, at]: the image shown when pressed
    answers, decided,    \* decisions on their way, and all that were sent
    timedOut, faulted,   \* history: images without a key, a fault met
    mistaken             \* history: A and R keys taken by the task of another
                         \* image while theirs was shown

server   == <<arrived, sent, busy>>
loop     == <<pc, image, decision>>
keyboard == <<keys, pressed>>
outcome  == <<answers, decided>>
history  == <<timedOut, faulted, mistaken>>
vars     == <<server, link, wire, loop, reader, keyboard, outcome, history>>

Decisions == {"Accepted", "Rejected"}
Keys      == {"A", "R", "other"}

TypeOK ==
    /\ arrived \subseteq Shown /\ sent \subseteq arrived /\ busy \in BOOLEAN
    /\ link \in {"up", "fin", "reset"}
    /\ wire \in Seq(Shown)
    /\ pc \in {"read", "decide", "answer", "ended"}
    /\ image \in Shown \cup {Null}
    /\ decision \in Decisions \cup {"none"}
    /\ reader \in [Shown -> {"none", "polling", "reading"} \cup Decisions]
    /\ keys \in Seq([key : Keys, at : Shown \cup {Null}]) /\ pressed \in 0..MaxKeys
    /\ answers \in Seq(Shown)
    /\ decided \in [Shown -> Decisions \cup {"none"}]
    /\ timedOut \subseteq Shown /\ faulted \in BOOLEAN
    /\ mistaken \in Nat

Init ==
    /\ arrived = {} /\ sent = {} /\ busy = FALSE
    /\ link = "up" /\ wire = <<>>
    /\ pc = "read" /\ image = Null /\ decision = "none"
    /\ reader = [i \in Shown |-> "none"]
    /\ keys = <<>> /\ pressed = 0
    /\ answers = <<>> /\ decided = [i \in Shown |-> "none"]
    /\ timedOut = {} /\ faulted = FALSE /\ mistaken = 0

-----------------------------------------------------------------------------
(* The server, until the station ends.                                      *)

\* Mutant: top() of a queue that may be empty.
imageQueueUnchecked == (arrived \ sent) \cup {EmptyImage}

imageQueue_ == arrived \ sent

\* The time_point of the empty image is the epoch.
QueueKey(i) == IF i = EmptyImage THEN 0 ELSE Key(i)

\* An image comes from a client, or the empty one from a failed send.
Arrives(i) ==
    /\ pc # "ended" /\ i \notin arrived
    /\ arrived' = arrived \cup {i}
    /\ UNCHANGED <<sent, busy, link, wire, loop, reader, keyboard, outcome, history>>

ServerSends(i) ==
    /\ pc # "ended" /\ link = "up" /\ ~busy
    /\ i \in imageQueue_ /\ \A j \in imageQueue_ : QueueKey(i) <= QueueKey(j)
    /\ sent' = sent \cup {i} /\ busy' = TRUE
    /\ wire' = Append(wire, i)
    /\ UNCHANGED <<arrived, link, loop, reader, keyboard, outcome, history>>

ServerReads ==
    /\ answers # <<>> /\ link = "up"
    /\ answers' = Tail(answers) /\ busy' = FALSE
    /\ UNCHANGED <<arrived, sent, link, wire, loop, reader, keyboard, decided, history>>

\* The server closes, or the connection breaks; a reset loses what is on its way.
LinkLost ==
    /\ link = "up" /\ pc # "ended" /\ faulted' = TRUE
    /\ \/ link' = "fin" /\ UNCHANGED <<wire, answers>>
       \/ link' = "reset" /\ wire' = <<>> /\ answers' \in {answers, <<>>}
    /\ UNCHANGED <<server, loop, reader, keyboard, decided, timedOut, mistaken>>

-----------------------------------------------------------------------------
(* The main loop.                                                           *)

\* DeserializeImage() builds a Guid, which the empty image has no bytes for,
\* and a date.
Readable(i) == i # EmptyImage /\ FromBinary(Forwarded(i))

End == pc' = "ended" /\ UNCHANGED <<image, decision>>

\* An image is read and shown, and its key task started.
Show ==
    /\ pc = "read" /\ wire # <<>> /\ Readable(Head(wire))
    /\ pc' = "decide" /\ image' = Head(wire) /\ decision' = "none"
    /\ wire' = Tail(wire)
    /\ reader' = [reader EXCEPT ![Head(wire)] = "polling"]
    /\ UNCHANGED <<server, link, keyboard, outcome, history>>

\* DeserializeImage() throws.
ShowFails ==
    /\ pc = "read" /\ wire # <<>> /\ ~Readable(Head(wire))
    /\ pc' = "ended" /\ image' = Head(wire) /\ wire' = Tail(wire)
    /\ UNCHANGED <<server, link, decision, reader, keyboard, outcome, history>>

\* The only read for the 4 bytes of the length may bring fewer: the rest of
\* the frame is out of step, and no image. Or the image cannot be saved.
ShowBreaks ==
    /\ pc = "read" /\ wire # <<>>
    /\ pc' = "ended" /\ image' = Head(wire) /\ wire' = Tail(wire) /\ faulted' = TRUE
    /\ UNCHANGED <<server, link, decision, reader, keyboard, outcome, timedOut, mistaken>>

\* At the end of the stream the length stays 0, and there is no image in it.
ReadFails ==
    /\ pc = "read" /\ wire = <<>> /\ link # "up"
    /\ End
    /\ UNCHANGED <<server, link, wire, reader, keyboard, outcome, history>>

\* Task.WhenAny() completes with the key task ...
KeyDecides ==
    /\ pc = "decide" /\ reader[image] \in Decisions
    /\ pc' = "answer" /\ decision' = reader[image]
    /\ UNCHANGED <<server, link, wire, image, reader, keyboard, outcome, history>>

\* Mutants: an image without a key is accepted; the main loop itself reads
\* the key, and waits for one that another task has taken.
TimesOutAccepting ==
    /\ pc = "decide" /\ reader[image] \notin Decisions
    /\ pc' = "answer" /\ decision' = "Accepted"
    /\ timedOut' = timedOut \cup {image}
    /\ UNCHANGED <<server, link, wire, image, reader, keyboard, outcome, faulted, mistaken>>

TimesOutPolling ==
    /\ pc = "decide" /\ reader[image] = "polling"
    /\ pc' = "answer" /\ decision' = "Rejected"
    /\ timedOut' = timedOut \cup {image}
    /\ UNCHANGED <<server, link, wire, image, reader, keyboard, outcome, faulted, mistaken>>

\* ... or with the delay of t1.
TimesOut ==
    /\ pc = "decide" /\ reader[image] \notin Decisions
    /\ pc' = "answer" /\ decision' = "Rejected"
    /\ timedOut' = timedOut \cup {image}
    /\ UNCHANGED <<server, link, wire, image, reader, keyboard, outcome, faulted, mistaken>>

\* Mutant: the id in the decision is read again, of what has come since.
AnswerLatest ==
    /\ pc = "answer" /\ link = "up" /\ pc' = "read"
    /\ LET id == IF wire = <<>> THEN EmptyImage ELSE Head(wire)
       IN  /\ decided' = [decided EXCEPT ![id] = decision]
           /\ answers' = Append(answers, id)
    /\ UNCHANGED <<server, link, wire, image, decision, reader, keyboard, history>>

\* A connection the server has closed takes one more write.
Answer ==
    /\ pc = "answer"
    /\ \/ /\ link = "up" /\ pc' = "read"
          /\ decided' = [decided EXCEPT ![image] = decision]
          /\ answers' = Append(answers, image)
          /\ UNCHANGED link
       \/ link = "fin" /\ pc' = "read" /\ link' = "reset" /\ UNCHANGED outcome
       \/ link = "reset" /\ pc' = "ended" /\ UNCHANGED <<link, outcome>>
    /\ UNCHANGED <<server, wire, image, decision, reader, keyboard, history>>

-----------------------------------------------------------------------------
(* The keyboard.                                                            *)

PressKey(k) ==
    /\ pc # "ended" /\ pressed < MaxKeys
    /\ pressed' = pressed + 1
    /\ keys' = Append(keys, [key |-> k, at |-> IF pc = "decide" THEN image ELSE Null])
    /\ UNCHANGED <<server, link, wire, loop, reader, outcome, history>>

\* Console.KeyAvailable
SeesKey(i) ==
    /\ pc # "ended" /\ reader[i] = "polling" /\ keys # <<>>
    /\ reader' = [reader EXCEPT ![i] = "reading"]
    /\ UNCHANGED <<server, link, wire, loop, keyboard, outcome, history>>

\* Mutant: the task goes on polling after an R.
DecidesOnAccept(k) == IF k = "A" THEN "Accepted" ELSE "polling"

DecidesOn(k) ==
    CASE k = "A" -> "Accepted" [] k = "R" -> "Rejected" [] OTHER -> "polling"

\* Console.ReadKey()
TakesKey(i) ==
    /\ pc # "ended" /\ reader[i] = "reading" /\ keys # <<>>
    /\ reader' = [reader EXCEPT ![i] = DecidesOn(Head(keys).key)]
    /\ keys' = Tail(keys)
    /\ mistaken' = IF /\ Head(keys).key # "other"
                      /\ pc = "decide" /\ Head(keys).at = image /\ i # image
                   THEN mistaken + 1 ELSE mistaken
    /\ UNCHANGED <<server, link, wire, loop, pressed, outcome, timedOut, faulted>>

-----------------------------------------------------------------------------

MainLoop  == Show \/ ShowFails \/ ReadFails \/ KeyDecides \/ TimesOut \/ Answer
KeyTask(i) == SeesKey(i) \/ TakesKey(i)

Next ==
    \/ \E i \in Shown : Arrives(i) \/ ServerSends(i) \/ KeyTask(i)
    \/ ServerReads \/ LinkLost \/ MainLoop \/ ShowBreaks
    \/ \E k \in Keys : PressKey(k)

Spec == Init /\ [][Next]_vars

\* The main loop waits for what comes, or for t1. Nothing is assumed of keys.
FairSpec == Spec /\ WF_vars(MainLoop)
-----------------------------------------------------------------------------
\* The images whose key lies so far before the epoch that their time is no
\* date for DateTime.FromBinary(); they are most of the first half of an era.
Unreadable ==
    {EmptyImage} \cup {i \in Image : Key(i) <= -(TicksPerDay * TicksPerMs)}

\* Between two wraps of the key the queue keeps the order of the scans.
InEraOrder ==
    [][\A i \in sent' \ sent, j \in imageQueue_ :
          EmptyImage \notin {i, j} /\ Era(i) = Era(j) => i <= j]_vars

\* Unless something fails around it, the station ends by an image it cannot
\* read: an empty one, or one of the first half of an era.
EndsForCause == pc = "ended" => faulted \/ image \in Unreadable

\* An image is accepted by an A that its own task took, and no key decides
\* two images, though tasks race for keys.
AcceptedByKey ==
    /\ \A i \in Shown : decided[i] = "Accepted" => reader[i] = "Accepted"
    /\ Cardinality({i \in Shown : reader[i] \in Decisions}) + Len(keys) <= pressed

\* "Press A to accept, R to reject within time": a key pressed while an image
\* is shown does not go to the task of another one.
KeyReachesImage == mistaken = 0

\* Every image that timed out can mislead one such key, and no more.
MisledByTimeouts == mistaken <= Cardinality(timedOut)

\* The station is the operator that ImageServer reckons with.
Peer == INSTANCE OperatorPeer WITH
    Image      <- Shown,
    up         <- pc # "ended" /\ link = "up",
    desk       <- IF pc = "ended" \/ link # "up" THEN <<>>
                  ELSE IF pc = "read" THEN wire ELSE <<image>> \o wire

ImplementsPeer == Peer!Spec

\* An image that was sent is decided, or the station ends.
Answered == \A i \in Shown : (i \in sent) ~> (decided[i] # "none" \/ pc = "ended")
===============================================================================
