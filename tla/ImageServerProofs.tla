-------------------------- MODULE ImageServerProofs --------------------------
(***************************************************************************)
(* Theorems about ImageServer, for every set of clients, operators,        *)
(* sessions, images and faults.                                            *)
(***************************************************************************)
EXTENDS ImageServer, TLAPS

USE DEF EmptyImage

\* A command reaches sessions; nobody is told anything else.
LEMMA TellType ==
    ASSUME TypeOK, NEW map, NEW command \in {"PAUSE", "RESUME"}, Tell(map, command)
    PROVE  told' \in [Session -> {"nothing", "PAUSE", "RESUME"}]
  BY DEF TypeOK, Tell

(***************************************************************************)
(* Every variable keeps its type: in particular nothing but a scanned image *)
(* or the empty one is ever queued, sent or inserted.                       *)
(***************************************************************************)
THEOREM TypeCorrect == Spec => []TypeOK
<1>1. Init => TypeOK
  <2> SUFFICES ASSUME Init PROVE TypeOK
    OBVIOUS
  <2>1. desk \in [Session -> Seq(Image \cup {EmptyImage})]
    BY DEF Init
  <2> QED
    BY <2>1 DEF Init, TypeOK
<1>2. TypeOK /\ [Next]_vars => TypeOK'
  <2> SUFFICES ASSUME TypeOK, [Next]_vars PROVE TypeOK'
    OBVIOUS
  <2> USE DEF TypeOK, thread, opMap, flow, peers, history
  <2>1. ASSUME NEW s \in Session, NEW id \in ClientId \cup OperatorId, Dial(s, id)
        PROVE  TypeOK'
    BY <2>1 DEF Dial
  <2>2. ASSUME NEW s \in Session, Identify(s) PROVE TypeOK'
    BY <2>2 DEF Identify
  <2>3. ASSUME NEW s \in Session, OperatorDecides(s) PROVE TypeOK'
    BY <2>3 DEF OperatorDecides
  <2>4. ASSUME NEW s \in Session, OperatorChokes(s) PROVE TypeOK'
    BY <2>4 DEF OperatorChokes
  <2>5. ASSUME NEW s \in Session, PeerDies(s) PROVE TypeOK'
    <3>1. desk' \in [Session -> Seq(Image \cup {EmptyImage})]
      BY <2>5 DEF PeerDies
    <3>2. wire' \in [Session -> SUBSET Image]
      BY <2>5 DEF PeerDies
    <3>3. answers' \in [Session -> Seq(Image \cup {EmptyImage})]
      <4>1. answers' = answers \/ answers' = [answers EXCEPT ![s] = <<>>]
        BY <2>5 DEF PeerDies
      <4>2. <<>> \in Seq(Image \cup {EmptyImage})
        OBVIOUS
      <4> QED
        BY <4>1, <4>2
    <3> QED
      BY <2>5, <3>1, <3>2, <3>3 DEF PeerDies
  <2>27. ASSUME NEW s \in Session, LeavesEarly(s) PROVE TypeOK'
    BY <2>27 DEF LeavesEarly
  <2>6. ASSUME NEW s \in Session, NEW i \in Image, ClientSends(s, i) PROVE TypeOK'
    BY <2>6 DEF ClientSends
  <2>7. CASE ClockSet
    BY <2>7 DEF ClockSet
  <2>8. CASE HandshakeAborts
    BY <2>8 DEF HandshakeAborts
  <2>9. CASE RegisterClient
    <3>1. clients_' \in [ClientId -> Session \cup {Null}]
      BY <2>9 DEF RegisterClient
    <3>2. told' \in [Session -> {"nothing", "PAUSE", "RESUME"}]
      BY <2>9, TellType DEF RegisterClient
    <3>3. bClientsPaused' \in BOOLEAN
      BY <2>9 DEF RegisterClient
    <3>4. phase' \in [Session -> {"unused", "dialed", "identified", "open", "destroyed", "done"}]
      BY <2>9 DEF RegisterClient
    <3>5. pc' = "poll" /\ cur' = Null
      BY <2>9 DEF RegisterClient
    <3> QED
      BY <2>9, <3>1, <3>2, <3>3, <3>4, <3>5 DEF RegisterClient
  <2>10. CASE RegisterOperator
    <3>1. told' \in [Session -> {"nothing", "PAUSE", "RESUME"}]
      BY <2>10, TellType DEF RegisterOperator, registerOperator, resumeClients
    <3>2. bClientsPaused' \in BOOLEAN /\ clients_' = clients_
      BY <2>10 DEF RegisterOperator, registerOperator, resumeClients
    <3>3. operators_' \in [OperatorId -> Session \cup {Null}]
      BY <2>10 DEF RegisterOperator, registerOperator
    <3>4. opState' \in [OperatorId -> {"absent", "AVAILABLE", "BUSY"}]
      BY <2>10 DEF RegisterOperator, registerOperator
    <3>5. tpAvailableTime' \in [OperatorId -> Nat] /\ clock' \in Nat
      BY <2>10 DEF RegisterOperator, registerOperator
    <3>6. pc' \in {"poll", "assign"} /\ after' \in {"none", "resume"} /\ cur' = Null
      BY <2>10 DEF RegisterOperator, registerOperator
    <3>7. phase' \in [Session -> {"unused", "dialed", "identified", "open", "destroyed", "done"}]
      BY <2>10 DEF RegisterOperator, registerOperator
    <3> QED
      BY <2>10, <3>1, <3>2, <3>3, <3>4, <3>5, <3>6, <3>7 DEF RegisterOperator, registerOperator
  <2>11. CASE AssignDone
    BY <2>11 DEF AssignDone
  <2>12. CASE AssignNobody
    BY <2>12 DEF AssignNobody, pauseClients, Tell
  <2>13. CASE AssignAllBusy
    BY <2>13 DEF AssignAllBusy, pauseClients, Tell
  <2>14. CASE AssignSpins
    BY <2>14 DEF AssignSpins
  <2>15. CASE AssignReturns
    BY <2>15 DEF AssignReturns, resumeClients, Tell
  <2>16. ASSUME NEW o \in OperatorId, NEW img \in Image \cup {EmptyImage}, AssignSends(o, img)
         PROVE  TypeOK'
    BY <2>16 DEF AssignSends, MarkBusy, Written
  <2>17. ASSUME NEW o \in OperatorId, NEW img \in Image \cup {EmptyImage}, AssignSendFails(o, img)
         PROVE  TypeOK'
    BY <2>17 DEF AssignSendFails, MarkBusy, CatchFailure
  <2>18. ASSUME NEW o \in OperatorId, NEW img \in Image \cup {EmptyImage}, AssignSpawnFails(o, img)
         PROVE  TypeOK'
    BY <2>18 DEF AssignSpawnFails, MarkBusy, Written, CatchFailure
  <2>19. ASSUME NEW o \in OperatorId, NEW img \in Image \cup {EmptyImage}, AssignNoSession(o, img)
         PROVE  TypeOK'
    BY <2>19 DEF AssignNoSession
  <2>20. ASSUME NEW s \in Session, Accept(s) PROVE TypeOK'
    BY <2>20 DEF Accept
  <2>21. ASSUME NEW s \in Session, ReadImage(s) PROVE TypeOK'
    BY <2>21 DEF ReadImage, handleImage
  <2>22. ASSUME NEW s \in Session, ClientReadFails(s) PROVE TypeOK'
    BY <2>22 DEF ClientReadFails, Closed
  <2>23. ASSUME NEW s \in Session, ReadDecision(s) PROVE TypeOK'
    <3>1. told' \in [Session -> {"nothing", "PAUSE", "RESUME"}]
      BY <2>23, TellType DEF ReadDecision, resumeClients
    <3>2. bClientsPaused' \in BOOLEAN /\ clients_' = clients_
      BY <2>23 DEF ReadDecision, resumeClients
    <3>3. opState' \in [OperatorId -> {"absent", "AVAILABLE", "BUSY"}]
      BY <2>23 DEF ReadDecision
    <3>4. tpAvailableTime' \in [OperatorId -> Nat] /\ clock' \in Nat
      BY <2>23 DEF ReadDecision
    <3>5. answers' \in [Session -> Seq(Image \cup {EmptyImage})]
      BY <2>23 DEF ReadDecision
    <3>6. pc' \in {"poll", "assign"} /\ after' \in {"none", "resume"}
      BY <2>23 DEF ReadDecision
    <3> QED
      BY <2>23, <3>1, <3>2, <3>3, <3>4, <3>5, <3>6 DEF ReadDecision
  <2>24. ASSUME NEW s \in Session, OperatorReadFails(s) PROVE TypeOK'
    BY <2>24 DEF OperatorReadFails, Closed
  <2>25. ASSUME NEW s \in Session, AbortedRead(s) PROVE TypeOK'
    BY <2>25 DEF AbortedRead
  <2>26. CASE UNCHANGED vars
    BY <2>26 DEF vars
  <2> QED
    BY <2>1, <2>2, <2>3, <2>4, <2>5, <2>6, <2>7, <2>8, <2>9, <2>10, <2>11, <2>12, <2>13,
       <2>14, <2>15, <2>16, <2>17, <2>18, <2>19, <2>20, <2>21, <2>22, <2>23, <2>24, <2>25,
       <2>26, <2>27 DEF Next, Environment, Continue, AssignTo, Dispatch
<1> QED
  BY <1>1, <1>2, PTL DEF Spec

-----------------------------------------------------------------------------
(***************************************************************************)
(* The server's only record of what it told its clients is right: while    *)
(* bClientsPaused is set, every registered client was last told PAUSE.     *)
(* The property is inductive as it stands. It is disturbed where the flag, *)
(* clients_ or told change: everywhere else all three stay as they are.    *)
(***************************************************************************)
THEOREM PausedFlagCorrect == Spec => []PausedFlagSound
<1> USE DEF PausedFlagSound, Clients
<1>1. Init => PausedFlagSound
  BY DEF Init
<1>2. TypeOK /\ PausedFlagSound /\ [Next]_vars => PausedFlagSound'
  <2> SUFFICES ASSUME TypeOK, PausedFlagSound, [Next]_vars PROVE PausedFlagSound'
    OBVIOUS
  <2>1. ASSUME pauseClients, UNCHANGED clients_ PROVE PausedFlagSound'
    BY <2>1 DEF TypeOK, pauseClients, Tell
  <2>2. ASSUME ~bClientsPaused' PROVE PausedFlagSound'
    BY <2>2
  <2>3. ASSUME UNCHANGED flow PROVE PausedFlagSound'
    BY <2>3 DEF flow
  <2>4. CASE RegisterClient
    <3> DEFINE map == [clients_ EXCEPT ![systemId[cur]] = cur]
    <3>1. CASE Operators = {}
      <4>1. clients_' = map /\ Tell(map, "PAUSE")
        BY <2>4, <3>1 DEF RegisterClient
      <4>2. map \in [ClientId -> Session \cup {Null}]
        BY <2>4 DEF RegisterClient, TypeOK
      <4> QED
        BY <4>1, <4>2 DEF Tell
    <3>2. CASE Operators # {}
      BY <2>2, <2>4, <3>2 DEF RegisterClient
    <3> QED
      BY <3>1, <3>2
  <2>5. CASE RegisterOperator
    BY <2>2, <2>3, <2>5 DEF RegisterOperator, registerOperator, resumeClients
  <2>6. CASE AssignNobody \/ AssignAllBusy
    BY <2>1, <2>6 DEF AssignNobody, AssignAllBusy
  <2>7. CASE AssignReturns
    BY <2>2, <2>3, <2>7 DEF AssignReturns, resumeClients, flow
  <2>8. ASSUME NEW s \in Session, ReadDecision(s) PROVE PausedFlagSound'
    BY <2>2, <2>3, <2>8 DEF ReadDecision, resumeClients
  <2>9. ASSUME NEW s \in Session, ClientReadFails(s) PROVE PausedFlagSound'
    <3>1. CASE clients_[systemId[s]] = Null
      BY <2>3, <2>9, <3>1 DEF ClientReadFails, flow
    <3>2. CASE clients_[systemId[s]] # Null
      <4>1. \A c \in Clients' : c \in Clients /\ clients_'[c] = clients_[c]
        BY <2>9, <3>2 DEF ClientReadFails, TypeOK
      <4>2. bClientsPaused' /\ Clients' # {} => bClientsPaused
        BY <2>9, <3>2, <4>1 DEF ClientReadFails, TypeOK
      <4>3. told' = told
        BY <2>9 DEF ClientReadFails
      <4> QED
        BY <4>1, <4>2, <4>3
    <3> QED
      BY <3>1, <3>2
  <2>10. \/ RegisterClient \/ RegisterOperator \/ AssignNobody \/ AssignAllBusy \/ AssignReturns
         \/ \E s \in Session : ReadDecision(s) \/ ClientReadFails(s)
         \/ UNCHANGED flow
    BY DEF Next, Environment, Continue, AssignTo, Dispatch, vars, flow, Dial, Identify,
           OperatorDecides, OperatorChokes, PeerDies, LeavesEarly, ClientSends, ClockSet, HandshakeAborts,
           AssignDone, AssignSpins, AssignSends, AssignSendFails, AssignSpawnFails,
           AssignNoSession, Accept, ReadImage, handleImage, OperatorReadFails, AbortedRead
  <2> QED
    BY <2>3, <2>4, <2>5, <2>6, <2>7, <2>8, <2>9, <2>10
<1> QED
  BY <1>1, <1>2, TypeCorrect, PTL DEF Spec

-----------------------------------------------------------------------------
(***************************************************************************)
(* An image is in one place: on the wire of the session that sent it, then *)
(* received, and then never both queued and delivered. The handlers that   *)
(* move an image are ReadImage and the three outcomes of a send.           *)
(***************************************************************************)
THEOREM ImagesInOnePlaceCorrect == Spec => []ImagesInOnePlace
<1> USE DEF ImagesInOnePlace
<1>1. Init => ImagesInOnePlace
  BY DEF Init
<1>2. TypeOK /\ ImagesInOnePlace /\ [Next]_vars => ImagesInOnePlace'
  <2> SUFFICES ASSUME TypeOK, ImagesInOnePlace, [Next]_vars PROVE ImagesInOnePlace'
    OBVIOUS
  <2> DEFINE places == <<wire, origin, received, imageQueue_, delivered>>
  <2>1. ASSUME NEW s \in Session, NEW i \in Image, ClientSends(s, i) PROVE ImagesInOnePlace'
    <3>1. \A t \in Session : wire'[t] = IF t = s THEN wire[t] \cup {i} ELSE wire[t]
      BY <2>1 DEF ClientSends, TypeOK
    <3>2. \A j \in Image : origin'[j] = IF j = i THEN s ELSE origin[j]
      BY <2>1 DEF ClientSends, TypeOK
    <3>3. i \notin received /\ \A t \in Session : i \notin wire[t]
      BY <2>1, ConstantsOK DEF ClientSends, TypeOK
    <3>4. UNCHANGED <<received, imageQueue_, delivered>>
      BY <2>1 DEF ClientSends
    <3>5. ASSUME NEW t \in Session, NEW j \in wire'[t] PROVE origin'[j] = t /\ j \notin received'
      <4>1. CASE j = i
        BY <3>1, <3>2, <3>3, <3>4, <4>1
      <4>2. CASE j # i
        <5>1. j \in wire[t]
          BY <3>1, <4>2
        <5>2. j \in Image
          BY <5>1 DEF TypeOK
        <5> QED
          BY <3>2, <3>4, <4>2, <5>1, <5>2
      <4> QED
        BY <4>1, <4>2
    <3>6. \A j \in received' : origin'[j] # Null
      BY <3>2, <3>3, <3>4, ConstantsOK DEF TypeOK
    <3> QED
      BY <3>4, <3>5, <3>6
  <2>2. ASSUME NEW s \in Session, PeerDies(s) PROVE ImagesInOnePlace'
    <3>1. \A t \in Session : wire'[t] \subseteq wire[t]
      <4>1. wire' = wire \/ wire' = [wire EXCEPT ![s] = {}]
        BY <2>2 DEF PeerDies
      <4>. QED  BY <4>1 DEF TypeOK
    <3>2. UNCHANGED <<origin, received, imageQueue_, delivered>>
      BY <2>2 DEF PeerDies, history
    <3> QED
      BY <3>1, <3>2
  <2>3. ASSUME NEW s \in Session, ReadImage(s) PROVE ImagesInOnePlace'
    <3>1. PICK i \in wire[s] : /\ wire' = [wire EXCEPT ![s] = @ \ {i}]
                              /\ imageQueue_' = imageQueue_ \cup {i}
                              /\ received' = received \cup {i}
      BY <2>3 DEF ReadImage, handleImage
    <3>2. origin[i] = s /\ i \notin received
      OBVIOUS
    <3>3. \A t \in Session : wire'[t] = IF t = s THEN wire[t] \ {i} ELSE wire[t]
      BY <3>1 DEF TypeOK
    <3>4. \A t \in Session : i \notin wire'[t]
      BY <3>2, <3>3
    <3>5. UNCHANGED <<origin, delivered>>
      BY <2>3 DEF ReadImage, handleImage
    <3> QED
      BY <3>1, <3>2, <3>3, <3>4, <3>5, ConstantsOK DEF TypeOK
  <2>4. ASSUME NEW o \in OperatorId, NEW img \in Image \cup {EmptyImage}, AssignTo(o, img)
        PROVE  ImagesInOnePlace'
    <3>1. UNCHANGED <<wire, origin, received>>
      BY <2>4 DEF AssignTo, AssignSends, AssignSendFails, AssignSpawnFails, AssignNoSession,
                  Written, peers, history
    <3>2. CASE UNCHANGED <<imageQueue_, delivered>>
      BY <3>1, <3>2
    <3>3. CASE /\ imageQueue_' \subseteq (imageQueue_ \ {img}) \cup {EmptyImage}
               /\ img \in imageQueue_
               /\ delivered' \in {delivered, (delivered \cup {img}) \ {EmptyImage}}
      BY <3>1, <3>3, ConstantsOK DEF TypeOK
    <3> QED
      BY <2>4, <3>2, <3>3 DEF AssignTo, AssignSends, AssignSendFails, AssignSpawnFails,
                              AssignNoSession, Written, CatchFailure, IsTop, history
  <2>5. ASSUME UNCHANGED places PROVE ImagesInOnePlace'
    BY <2>5
  <2>6. \/ \E s \in Session, i \in Image : ClientSends(s, i)
        \/ \E s \in Session : PeerDies(s) \/ ReadImage(s)
        \/ \E o \in OperatorId, img \in Image \cup {EmptyImage} : AssignTo(o, img)
        \/ UNCHANGED places
    BY DEF Next, Environment, LeavesEarly, Continue, Dispatch, vars, peers, history, Dial, Identify,
           OperatorDecides, OperatorChokes, ClockSet, HandshakeAborts, RegisterClient,
           RegisterOperator, registerOperator, AssignDone, AssignNobody, AssignAllBusy, AssignSpins,
           AssignReturns, Accept, ReadDecision, ClientReadFails, OperatorReadFails, AbortedRead
  <2> QED
    BY <2>1, <2>2, <2>3, <2>4, <2>5, <2>6
<1> QED
  BY <1>1, <1>2, TypeCorrect, PTL DEF Spec

(***************************************************************************)
(* No image is written to an operator twice.                               *)
(***************************************************************************)
THEOREM DeliveredOnce == Spec => []AtMostOnce
<1>1. TypeOK /\ ImagesInOnePlace => AtMostOnce
  BY DEF TypeOK, ImagesInOnePlace, AtMostOnce
<1> QED
  BY <1>1, TypeCorrect, ImagesInOnePlaceCorrect, PTL
-----------------------------------------------------------------------------
(***************************************************************************)
(* What a session has on the wire is later than everything received from   *)
(* it: the client scans at increasing times, and the server reads the      *)
(* earliest first.                                                         *)
(***************************************************************************)
ReadInScanOrder ==
    \A s \in Session : \A j \in wire[s] : \A i \in received : origin[i] = s => i < j

\* The order is kept by what puts an image on the wire, takes it off, or reads
\* it; nothing else touches these places.
LEMMA ReadInScanOrderCorrect == Spec => []ReadInScanOrder
<1> USE DEF ReadInScanOrder
<1>1. Init => ReadInScanOrder
  BY DEF Init
<1>2. TypeOK /\ ImagesInOnePlace /\ ReadInScanOrder /\ [Next]_vars => ReadInScanOrder'
  <2> SUFFICES ASSUME TypeOK, ImagesInOnePlace, ReadInScanOrder, [Next]_vars
               PROVE  ReadInScanOrder'
    OBVIOUS
  <2>1. ASSUME NEW s \in Session, NEW i \in Image, ClientSends(s, i) PROVE ReadInScanOrder'
    <3>1. \A t \in Session : wire'[t] = IF t = s THEN wire[t] \cup {i} ELSE wire[t]
      BY <2>1 DEF ClientSends, TypeOK
    <3>2. \A j \in Image : origin'[j] = IF j = i THEN s ELSE origin[j]
      BY <2>1 DEF ClientSends, TypeOK
    <3>3. received' = received /\ i \notin received
      BY <2>1, ConstantsOK DEF ClientSends, TypeOK, ImagesInOnePlace
    <3>4. \A j \in received : j \in Image /\ origin'[j] = origin[j]
      BY <3>2, <3>3 DEF TypeOK
    <3>5. \A j \in Image : origin[j] = s => j < i
      BY <2>1 DEF ClientSends
    <3>6. ASSUME NEW t \in Session, NEW j \in wire'[t], NEW k \in received', origin'[k] = t
          PROVE  k < j
      <4>1. k \in Image /\ origin[k] = t
        BY <3>3, <3>4, <3>6
      <4>2. CASE t = s /\ j = i
        BY <3>5, <4>1, <4>2
      <4>3. CASE j \in wire[t]
        BY <3>3, <4>1, <4>3
      <4> QED
        BY <3>1, <3>6, <4>2, <4>3
    <3> QED
      BY <3>6
  <2>2. ASSUME NEW s \in Session, PeerDies(s) PROVE ReadInScanOrder'
    <3>1. \A t \in Session : wire'[t] \subseteq wire[t]
      <4>1. wire' = wire \/ wire' = [wire EXCEPT ![s] = {}]
        BY <2>2 DEF PeerDies
      <4>. QED  BY <4>1 DEF TypeOK
    <3>2. UNCHANGED <<origin, received>>
      BY <2>2 DEF PeerDies, history
    <3> QED
      BY <3>1, <3>2
  <2>3. ASSUME NEW s \in Session, ReadImage(s) PROVE ReadInScanOrder'
    <3>1. PICK i \in wire[s] : /\ \A j \in wire[s] : i <= j
                              /\ wire' = [wire EXCEPT ![s] = @ \ {i}]
                              /\ received' = received \cup {i}
      BY <2>3 DEF ReadImage, handleImage
    <3>2. \A t \in Session : wire'[t] = IF t = s THEN wire[t] \ {i} ELSE wire[t]
      BY <3>1 DEF TypeOK
    <3>3. origin[i] = s /\ origin' = origin
      BY <2>3 DEF ReadImage, handleImage, ImagesInOnePlace
    <3>4. \A t \in Session : wire[t] \subseteq Nat
      BY ConstantsOK DEF TypeOK
    <3>5. ASSUME NEW t \in Session, NEW j \in wire'[t], NEW k \in received', origin'[k] = t
          PROVE  k < j
      <4>1. j \in wire[t] /\ (t = s => j # i)
        BY <3>2
      <4>2. CASE k = i
        BY <3>1, <3>3, <3>4, <3>5, <4>1, <4>2
      <4>3. CASE k \in received
        BY <3>3, <3>5, <4>1, <4>3
      <4> QED
        BY <3>1, <4>2, <4>3
    <3> QED
      BY <3>5
  <2>4. ASSUME UNCHANGED <<wire, origin, received>> PROVE ReadInScanOrder'
    BY <2>4
  <2>5. \/ \E s \in Session, i \in Image : ClientSends(s, i)
        \/ \E s \in Session : PeerDies(s) \/ ReadImage(s)
        \/ UNCHANGED <<wire, origin, received>>
    BY DEF Next, Environment, LeavesEarly, Continue, AssignTo, Dispatch, vars, peers, history, Dial,
           Identify, OperatorDecides, OperatorChokes, ClockSet, HandshakeAborts,
           RegisterClient, RegisterOperator, registerOperator, AssignDone, AssignNobody,
           AssignAllBusy, AssignSpins, AssignReturns, AssignSends, AssignSendFails, AssignSpawnFails,
           AssignNoSession, Written, Accept, ReadDecision, ClientReadFails,
           OperatorReadFails, AbortedRead
  <2> QED
    BY <2>1, <2>2, <2>3, <2>4, <2>5
<1> QED
  BY <1>1, <1>2, TypeCorrect, ImagesInOnePlaceCorrect, PTL DEF Spec

(***************************************************************************)
(* Operators get the images of a session in the order it scanned them: an  *)
(* image is written only when it is the top of imageQueue_, and what its    *)
(* session still has on the wire is later.                                 *)
(***************************************************************************)
THEOREM SentInScanOrder == Spec => InScanOrder
<1> DEFINE Ordered == \A i \in delivered' \ delivered, j \in Image :
          j < i /\ origin[j] = origin[i] => j \notin imageQueue_ \cup wire[origin[i]]
<1>1. TypeOK /\ ImagesInOnePlace /\ ReadInScanOrder /\ [Next]_vars => [Ordered]_vars
  <2> SUFFICES ASSUME TypeOK, ImagesInOnePlace, ReadInScanOrder, [Next]_vars PROVE Ordered
    OBVIOUS
  <2>1. ASSUME NEW i \in delivered' \ delivered PROVE i \in Image /\ IsTop(i)
    <3>1. PICK o \in OperatorId, img \in Image \cup {EmptyImage} :
              AssignSends(o, img) \/ AssignSpawnFails(o, img)
      BY <2>1 DEF Next, Environment, Continue, AssignTo, Dispatch, vars, history, Dial,
             Identify, OperatorDecides, OperatorChokes, PeerDies, LeavesEarly, ClientSends, ClockSet,
             HandshakeAborts, RegisterClient, RegisterOperator, registerOperator, AssignDone,
             AssignNobody, AssignAllBusy, AssignSpins, AssignReturns, AssignSendFails, AssignNoSession,
             Accept, ReadImage, handleImage, ReadDecision, ClientReadFails,
             OperatorReadFails, AbortedRead
    <3>2. IsTop(img) /\ delivered' = (delivered \cup {img}) \ {EmptyImage}
      BY <3>1 DEF AssignSends, AssignSpawnFails, Written
    <3> QED
      BY <2>1, <3>2
  <2>2. ASSUME NEW i \in delivered' \ delivered, NEW j \in Image,
               j < i, origin[j] = origin[i], j \in imageQueue_
        PROVE  FALSE
    <3>1. i \in Nat /\ j \in Nat
      BY <2>1, <2>2, ConstantsOK
    <3>2. i <= j
      BY <2>1, <2>2 DEF IsTop
    <3> QED
      BY <2>2, <3>1, <3>2
  <2>3. ASSUME NEW i \in delivered' \ delivered, NEW j \in Image,
               j < i, origin[j] = origin[i], j \in wire[origin[i]]
        PROVE  FALSE
    <3>1. i \in received
      BY <2>1, ConstantsOK DEF IsTop, ImagesInOnePlace
    <3>2. origin[i] \in Session
      BY <3>1, <2>1 DEF ImagesInOnePlace, TypeOK
    <3>3. i < j
      BY <2>3, <3>1, <3>2 DEF ReadInScanOrder
    <3>4. i \in Nat /\ j \in Nat
      BY <2>1, <2>3, ConstantsOK
    <3> QED
      BY <2>3, <3>3, <3>4
  <2> QED
    BY <2>2, <2>3
<1> QED
  BY <1>1, TypeCorrect, ImagesInOnePlaceCorrect, ReadInScanOrderCorrect, PTL
     DEF Spec, InScanOrder
=============================================================================
