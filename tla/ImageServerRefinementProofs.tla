--------------------- MODULE ImageServerRefinementProofs ---------------------
(***************************************************************************)
(* ImageServer between its neighbours: every step is a step of the         *)
(* dispatcher of ImageDispatch or a stutter, and the peers that it assumes *)
(* are the ones that ClientSession and OperatorStation implement.          *)
(***************************************************************************)
EXTENDS ImageServerDispatch, ImageServerPeers, ImageServerSessionProofs

\* While no send and no thread start can fail, none does: the peer of a
\* registered operator is there.
LEMMA NoFailedAssignment ==
    ASSUME TypeOK, SessionsHaveIds, NoFailureUnlessLossy, Absent({"operator_loss", "spawn"}),
           NEW o \in OperatorId, NEW img \in Image \cup {EmptyImage}
    PROVE  ~AssignSendFails(o, img) /\ ~AssignSpawnFails(o, img)
<1>1. "operator_loss" \notin Faults /\ "spawn" \notin Faults
  BY DEF Absent
<1>2. \A s \in Session : phase[s] # "dialed" /\ systemId[s] \in OperatorId => peerUp[s]
  BY DEF NoFailureUnlessLossy
<1>3. operators_[o] # Null => peerUp[operators_[o]]
  <2> SUFFICES ASSUME operators_[o] # Null PROVE peerUp[operators_[o]]
    OBVIOUS
  <2>1. operators_[o] \in Session
    BY DEF TypeOK
  <2>2. systemId[operators_[o]] = o /\ phase[operators_[o]] \in Established
    BY DEF SessionsHaveIds
  <2>3. phase[operators_[o]] # "dialed"
    BY <2>2 DEF Established
  <2> QED
    BY <1>2, <2>1, <2>2, <2>3
<1> QED
  BY <1>1, <1>3 DEF AssignSendFails, AssignSpawnFails

\* While no send and no thread start can fail, there is no empty image and
\* the peer of every operator's session is there.
THEOREM NoFailureUnlessLossyCorrect == Spec => []NoFailureUnlessLossy
<1> USE DEF NoFailureUnlessLossy
<1>1. Init => NoFailureUnlessLossy
  BY ConstantsOK DEF Init
<1>2. TypeOK /\ SessionsHaveIds /\ NoFailureUnlessLossy /\ [Next]_vars => NoFailureUnlessLossy'
  <2> SUFFICES ASSUME TypeOK, SessionsHaveIds, NoFailureUnlessLossy, [Next]_vars,
                      Absent({"operator_loss", "spawn"})
               PROVE  /\ EmptyImage \notin imageQueue_'
                      /\ \A s \in Session : \A n \in 1 .. Len(desk'[s]) : desk'[s][n] # EmptyImage
                      /\ \A s \in Session :
                            phase'[s] # "dialed" /\ systemId'[s] \in OperatorId => peerUp'[s]
    OBVIOUS
  <2>1. "operator_loss" \notin Faults /\ "spawn" \notin Faults
    BY DEF Absent
  <2>2. ASSUME NEW o \in OperatorId, NEW img \in Image \cup {EmptyImage}
        PROVE  ~AssignSendFails(o, img) /\ ~AssignSpawnFails(o, img)
    BY <2>2, NoFailedAssignment
  <2>3. ASSUME NEW s \in Session PROVE ~OperatorChokes(s)
    <3>1. desk[s] # <<>> => 1 \in 1 .. Len(desk[s]) /\ Head(desk[s]) = desk[s][1]
      BY DEF TypeOK
    <3> QED
      BY <3>1 DEF OperatorChokes
  <2>4. EmptyImage \notin imageQueue_'
    <3>1. ASSUME NEW s \in Session, ReadImage(s) PROVE EmptyImage \notin imageQueue_'
      BY <3>1, ConstantsOK DEF ReadImage, handleImage, TypeOK
    <3>2. ASSUME NEW o \in OperatorId, NEW img \in Image \cup {EmptyImage}, AssignTo(o, img)
          PROVE  imageQueue_' \subseteq imageQueue_
      BY <2>2, <3>2 DEF AssignTo, AssignSends, AssignNoSession
    <3>3. \/ \E s \in Session : ReadImage(s)
          \/ \E o \in OperatorId, img \in Image \cup {EmptyImage} : AssignTo(o, img)
          \/ UNCHANGED imageQueue_
      BY DEF Next, Environment, Continue, Dispatch, vars, Dial, Identify, ClientSends,
             OperatorDecides, OperatorChokes, PeerDies, LeavesEarly, ClockSet, HandshakeAborts,
             RegisterClient, RegisterOperator, registerOperator, AssignDone, AssignNobody,
             AssignAllBusy, AssignSpins, AssignReturns, Accept, ReadDecision, ClientReadFails,
             OperatorReadFails, AbortedRead
    <3> QED
      BY <3>1, <3>2, <3>3
  <2>5. ASSUME NEW s \in Session PROVE \A n \in 1 .. Len(desk'[s]) : desk'[s][n] # EmptyImage
    <3> DEFINE Clean(q) == \A n \in 1 .. Len(q) : q[n] # EmptyImage
    <3>1. ASSUME NEW o \in OperatorId, NEW img \in Image \cup {EmptyImage}, AssignTo(o, img)
          PROVE  Clean(desk'[s])
      <4>1. \/ desk'[s] = desk[s]
            \/ img \in imageQueue_ /\ desk'[s] = Append(desk[s], img)
        BY <2>2, <3>1 DEF AssignTo, AssignSends, AssignNoSession, Written, IsTop, peers, TypeOK
      <4>2. CASE img \in imageQueue_ /\ desk'[s] = Append(desk[s], img)
        BY <4>2 DEF TypeOK
      <4> QED
        BY <4>1, <4>2
    <3>2. CASE OperatorDecides(s)
      <4>1. desk'[s] = Tail(desk[s]) /\ desk[s] # <<>> /\ desk[s] \in Seq(Image \cup {EmptyImage})
        BY <3>2 DEF OperatorDecides, TypeOK
      <4> QED
        BY <4>1
    <3>3. ASSUME NEW t \in Session, OperatorDecides(t) \/ PeerDies(t)
          PROVE  desk'[s] \in {desk[s], <<>>} \/ OperatorDecides(s)
      BY <3>3 DEF OperatorDecides, PeerDies, TypeOK
    <3>4. \/ \E t \in Session : OperatorDecides(t) \/ PeerDies(t)
          \/ \E o \in OperatorId, img \in Image \cup {EmptyImage} : AssignTo(o, img)
          \/ UNCHANGED desk
      BY <2>3 DEF Next, Environment, LeavesEarly, Continue, Dispatch, vars, peers, Dial, Identify, ClientSends,
             ClockSet, HandshakeAborts, RegisterClient, RegisterOperator, registerOperator,
             AssignDone,
             AssignNobody, AssignAllBusy, AssignSpins, AssignReturns, Accept, ReadImage, handleImage,
             ReadDecision, ClientReadFails, OperatorReadFails, AbortedRead
    <3>5. CASE desk'[s] \in {desk[s], <<>>}
      BY <3>5
    <3> QED
      BY <3>1, <3>2, <3>3, <3>4, <3>5
  <2>6. ASSUME NEW s \in Session, phase'[s] # "dialed", systemId'[s] \in OperatorId
        PROVE  peerUp'[s]
    <3>1. ASSUME NEW t \in Session, NEW id \in ClientId \cup OperatorId, Dial(t, id)
          PROVE  peerUp'[s]
      BY <2>6, <3>1 DEF Dial, TypeOK
    <3>2. ASSUME NEW t \in Session, PeerDies(t) PROVE peerUp'[s]
      BY <2>1, <2>6, <3>2, ConstantsOK DEF PeerDies, TypeOK, Absent
    <3>3. ASSUME NEW t \in Session, Identify(t) PROVE peerUp'[s]
      BY <2>6, <3>3 DEF Identify, peers, TypeOK
    <3>4. CASE UNCHANGED <<peerUp, systemId>> /\ (phase[s] = "dialed" => phase'[s] = "dialed")
      BY <2>6, <3>4
    <3>7. ASSUME NEW t \in Session, LeavesEarly(t) PROVE peerUp'[s]
      BY <2>6, <3>7 DEF LeavesEarly, TypeOK
    <3>5. \/ \E t \in Session, id \in ClientId \cup OperatorId : Dial(t, id)
          \/ \E t \in Session : PeerDies(t) \/ LeavesEarly(t) \/ Identify(t)
          \/ UNCHANGED <<peerUp, systemId>>
      BY <2>3 DEF Next, Environment, Continue, AssignTo, Dispatch, vars, peers, ClientSends,
             OperatorDecides, ClockSet, HandshakeAborts, RegisterClient, RegisterOperator,
             registerOperator, AssignDone, AssignNobody, AssignAllBusy, AssignSpins, AssignReturns, AssignSends,
             AssignSendFails, AssignSpawnFails, AssignNoSession, Written, Accept, ReadImage, handleImage,
             ReadDecision, ClientReadFails, OperatorReadFails, AbortedRead
    <3>6. phase[s] = "dialed" /\ phase'[s] # "dialed" => Identify(s)
      BY SessionsAge
    <3> QED
      BY <3>1, <3>2, <3>3, <3>4, <3>5, <3>6, <3>7
  <2> QED
    BY <2>4, <2>5, <2>6
<1> QED
  BY <1>1, <1>2, TypeCorrect, SessionsHaveIdsCorrect, PTL DEF Spec

-----------------------------------------------------------------------------
(***************************************************************************)
(* Every step of the image server is a step of the dispatcher or leaves    *)
(* what the dispatcher is about as it is.                                  *)
(***************************************************************************)
THEOREM Implements == Spec => ImplementsDispatch
<1> DEFINE W == imageQueue_ \ {EmptyImage}
<1>1. Init => Dispatcher!DispatchInit
  BY DEF Init, Dispatcher!DispatchInit, Available, Operators
<1>2. /\ TypeOK /\ SessionsHaveIds /\ ImagesInOnePlace /\ NoFailureUnlessLossy /\ [Next]_vars
      => [Dispatcher!DispatchNext]_(Dispatcher!dispatchVars)
  <2> SUFFICES ASSUME TypeOK, SessionsHaveIds, ImagesInOnePlace, NoFailureUnlessLossy, [Next]_vars
               PROVE  \/ Dispatcher!DispatchNext
                      \/ UNCHANGED <<received, W, delivered, Available>>
    BY DEF Dispatcher!dispatchVars
  <2>0. /\ Available = {o \in OperatorId : opState[o] = "AVAILABLE"}
        /\ Available' = {o \in OperatorId : opState'[o] = "AVAILABLE"}
    BY DEF Available, Operators
  <2>1. ASSUME NEW s \in Session, ReadImage(s) PROVE Dispatcher!DispatchNext
    <3>1. PICK i \in wire[s] : imageQueue_' = imageQueue_ \cup {i} /\ received' = received \cup {i}
      BY <2>1 DEF ReadImage, handleImage
    <3>2. i \in Image /\ i \notin received /\ i # EmptyImage
      BY ConstantsOK DEF ImagesInOnePlace, TypeOK
    <3>3. W' = W \cup {i}
      BY <3>1, <3>2
    <3>4. UNCHANGED <<delivered, Available>>
      BY <2>0, <2>1 DEF ReadImage, handleImage, opMap
    <3>5. Dispatcher!Receive(i)
      BY <3>1, <3>2, <3>3, <3>4 DEF Dispatcher!Receive
    <3> QED
      BY <3>2, <3>5 DEF Dispatcher!DispatchNext
  <2>2. ASSUME NEW o \in OperatorId, opState' = [opState EXCEPT ![o] = "AVAILABLE"],
               UNCHANGED <<received, imageQueue_, delivered>>
        PROVE  Dispatcher!DispatchNext
    <3>1. Available' = Available \cup {o}
      BY <2>0, <2>2 DEF TypeOK
    <3>2. Dispatcher!Release(o)
      BY <2>2, <3>1 DEF Dispatcher!Release
    <3> QED
      BY <3>2 DEF Dispatcher!DispatchNext
  <2>3. ASSUME NEW o \in OperatorId, opState' = [opState EXCEPT ![o] = "absent"],
               UNCHANGED <<received, imageQueue_, delivered>>
        PROVE  Dispatcher!DispatchNext
    <3>1. Available' = Available \ {o}
      BY <2>0, <2>3 DEF TypeOK
    <3>2. Dispatcher!Withdraw(o)
      BY <2>3, <3>1 DEF Dispatcher!Withdraw
    <3> QED
      BY <3>2 DEF Dispatcher!DispatchNext
  <2>4. ASSUME NEW o \in OperatorId, NEW img \in Image \cup {EmptyImage}, AssignTo(o, img)
        PROVE  \/ Dispatcher!DispatchNext
               \/ UNCHANGED <<received, W, delivered, Available>>
    <3>1. CASE AssignNoSession(o, img)
      BY <2>0, <3>1 DEF AssignNoSession, opMap, history
    <3> SUFFICES ASSUME ~AssignNoSession(o, img) PROVE Dispatcher!DispatchNext
      BY <3>1
    <3>2. IsTop(img) /\ IsMostIdle(o) /\ MarkBusy(o) /\ UNCHANGED received
      BY <2>4 DEF AssignTo, AssignSends, AssignSendFails, AssignSpawnFails, history
    <3>3. o \in Available /\ Available' = Available \ {o}
      BY <2>0, <3>2 DEF IsMostIdle, Idle, MarkBusy, TypeOK
    <3>4. W' = W \ {img}
      BY <2>4, <3>2 DEF AssignTo, AssignSends, AssignSendFails, AssignSpawnFails, CatchFailure, IsTop
    <3>5. \/ delivered' = (delivered \cup {img}) \ {EmptyImage}
          \/ UNCHANGED delivered /\ ~Absent({"operator_loss", "spawn"})
      BY <2>4, NoFailedAssignment
         DEF AssignTo, AssignSends, AssignSendFails, AssignSpawnFails, Written, history
    <3>6. EmptyImage \notin delivered
      BY ConstantsOK DEF TypeOK
    <3>7. CASE img = EmptyImage
      <4>1. Dispatcher!Withdraw(o)
        BY <3>2, <3>3, <3>4, <3>5, <3>6, <3>7 DEF Dispatcher!Withdraw
      <4> QED
        BY <4>1 DEF Dispatcher!DispatchNext
    <3>8. CASE img # EmptyImage
      <4>1. Dispatcher!Earliest(img)
        BY <3>2, <3>8 DEF Dispatcher!Earliest, IsTop
      <4>2. Dispatcher!Assign(img, o)
        BY <3>2, <3>3, <3>4, <3>5, <3>6, <3>8, <4>1 DEF Dispatcher!Assign
      <4>3. img \in Image
        BY <3>8
      <4> QED
        BY <4>2, <4>3 DEF Dispatcher!DispatchNext
    <3> QED
      BY <3>7, <3>8
  <2>5. CASE UNCHANGED <<received, imageQueue_, delivered, opState>>
    BY <2>0, <2>5
  <2>6. CASE RegisterOperator
    <3>1. /\ systemId[cur] \in OperatorId
          /\ opState' \in {opState, [opState EXCEPT ![systemId[cur]] = "AVAILABLE"]}
          /\ UNCHANGED <<received, imageQueue_, delivered>>
      BY <2>6 DEF RegisterOperator, registerOperator, history, TypeOK
    <3> QED
      BY <2>2, <2>5, <3>1
  <2>7. ASSUME NEW s \in Session, ReadDecision(s) PROVE Dispatcher!DispatchNext
    BY <2>2, <2>7 DEF ReadDecision, history
  <2>8. ASSUME NEW s \in Session, OperatorReadFails(s)
        PROVE  \/ Dispatcher!DispatchNext
               \/ UNCHANGED <<received, W, delivered, Available>>
    BY <2>3, <2>5, <2>8 DEF OperatorReadFails, history
  <2>9. \/ RegisterOperator
        \/ \E s \in Session : ReadImage(s) \/ ReadDecision(s) \/ OperatorReadFails(s)
        \/ \E o \in OperatorId, img \in Image \cup {EmptyImage} : AssignTo(o, img)
        \/ UNCHANGED <<received, imageQueue_, delivered, opState>>
    BY DEF Next, Environment, Continue, Dispatch, vars, opMap, history, Dial, Identify, ClientSends,
           OperatorDecides, OperatorChokes, PeerDies, LeavesEarly, ClockSet, HandshakeAborts, RegisterClient,
           AssignDone, AssignNobody, AssignAllBusy, AssignSpins, AssignReturns, Accept,
           ClientReadFails, AbortedRead
  <2> QED
    BY <2>1, <2>4, <2>5, <2>6, <2>7, <2>8, <2>9
<1> QED
  BY <1>1, <1>2, TypeCorrect, SessionsHaveIdsCorrect, ImagesInOnePlaceCorrect,
     NoFailureUnlessLossyCorrect, PTL DEF Spec, ImplementsDispatch, Dispatcher!DispatchSpec

-----------------------------------------------------------------------------
(***************************************************************************)
(* What the dispatcher promises follows from its specification, and so the *)
(* server promises it: images that have arrived wait or were sent, and     *)
(* none is lost if no assignment can fail.                                 *)
(***************************************************************************)
LEMMA ConservedCorrect == Dispatcher!DispatchSpec => []Dispatcher!Conserved
<1> DEFINE waiting == imageQueue_ \ {EmptyImage}
<1> USE DEF Dispatcher!Conserved
<1>1. Dispatcher!DispatchInit => Dispatcher!Conserved
  BY DEF Dispatcher!DispatchInit
<1>2. Dispatcher!Conserved /\ [Dispatcher!DispatchNext]_(Dispatcher!dispatchVars)
        => Dispatcher!Conserved'
  <2> SUFFICES ASSUME Dispatcher!Conserved, [Dispatcher!DispatchNext]_(Dispatcher!dispatchVars)
               PROVE  Dispatcher!Conserved'
    OBVIOUS
  <2>1. ASSUME NEW i \in Image, Dispatcher!Receive(i) PROVE Dispatcher!Conserved'
    BY <2>1 DEF Dispatcher!Receive
  <2>2. ASSUME NEW i \in Image, NEW o \in OperatorId, Dispatcher!Assign(i, o)
        PROVE  Dispatcher!Conserved'
    BY <2>2 DEF Dispatcher!Assign, Dispatcher!Earliest
  <2>3. CASE UNCHANGED <<received, waiting, delivered>>
    BY <2>3
  <2> QED
    BY <2>1, <2>2, <2>3
    DEF Dispatcher!DispatchNext, Dispatcher!Release, Dispatcher!Withdraw, Dispatcher!dispatchVars
<1> QED
  BY <1>1, <1>2, PTL DEF Dispatcher!DispatchSpec

\* The server keeps the promise of the dispatcher.
COROLLARY ServerConserves == Spec => []Dispatcher!Conserved
BY Implements, ConservedCorrect, PTL DEF ImplementsDispatch

-----------------------------------------------------------------------------
(***************************************************************************)
(* As long as no send and no thread start can fail, an image that was      *)
(* received is queued or was sent, and then handed to insertImage().       *)
(***************************************************************************)
THEOREM NoneLost == Spec => []NoLoss
<1> USE DEF NoLoss, NoImageDropped
<1>1. Init => NoLoss
  BY DEF Init
<1>2. TypeOK /\ SessionsHaveIds /\ NoFailureUnlessLossy /\ NoLoss /\ [Next]_vars => NoLoss'
  <2> SUFFICES ASSUME TypeOK, SessionsHaveIds, NoFailureUnlessLossy, NoLoss, [Next]_vars,
                      Absent({"operator_loss", "spawn"})
               PROVE  (received \subseteq imageQueue_ \cup delivered /\ delivered \subseteq inserted)'
    OBVIOUS
  <2>1. ASSUME NEW s \in Session, ReadImage(s)
        PROVE  (received \subseteq imageQueue_ \cup delivered /\ delivered \subseteq inserted)'
    BY <2>1 DEF ReadImage, handleImage
  <2>2. ASSUME NEW o \in OperatorId, NEW img \in Image \cup {EmptyImage}, AssignTo(o, img)
        PROVE  (received \subseteq imageQueue_ \cup delivered /\ delivered \subseteq inserted)'
    <3>1. CASE AssignSends(o, img)
      <4>1. img # EmptyImage
        BY <3>1 DEF AssignSends, IsTop, NoFailureUnlessLossy
      <4>2. EmptyImage \notin delivered
        BY ConstantsOK DEF TypeOK
      <4> QED
        BY <3>1, <4>1, <4>2 DEF AssignSends, Written
    <3>2. CASE AssignNoSession(o, img)
      BY <3>2 DEF AssignNoSession, history
    <3> QED
      BY <2>2, <3>1, <3>2, NoFailedAssignment DEF AssignTo
  <2>3. \/ \E s \in Session : ReadImage(s)
        \/ \E o \in OperatorId, img \in Image \cup {EmptyImage} : AssignTo(o, img)
        \/ UNCHANGED <<received, imageQueue_, delivered, inserted>>
    BY DEF Next, Environment, Continue, Dispatch, vars, history, Dial, Identify, ClientSends,
           OperatorDecides, OperatorChokes, PeerDies, LeavesEarly, ClockSet, HandshakeAborts, RegisterClient,
           RegisterOperator, registerOperator, AssignDone, AssignNobody, AssignAllBusy,
           AssignSpins, AssignReturns, Accept, ReadDecision, ClientReadFails, OperatorReadFails, AbortedRead
  <2> QED
    BY <2>1, <2>2, <2>3
<1> QED
  BY <1>1, <1>2, TypeCorrect, SessionsHaveIdsCorrect, NoFailureUnlessLossyCorrect, PTL DEF Spec

-----------------------------------------------------------------------------
(***************************************************************************)
(* The peers are as their contracts say. The thread knows a session while  *)
(* it waits in its handshake, or has ended there; and images come from     *)
(* sessions of clients that have had theirs.                               *)
(***************************************************************************)
CurInHandshake ==
    /\ cur # Null => pc \in {"handshake", "crashed"}
    /\ pc = "crashed" /\ cur # Null => cur \in Session /\ phase[cur] = "dialed" /\ ~peerUp[cur]

SendersEstablished ==
    \A i \in Image : origin[i] # Null =>
        /\ origin[i] \in Session /\ phase[origin[i]] \in Established
        /\ systemId[origin[i]] \in ClientId

LEMMA CurInHandshakeCorrect == Spec => []CurInHandshake
<1> USE DEF CurInHandshake
<1>1. Init => CurInHandshake
  BY DEF Init
<1>2. TypeOK /\ SessionsHaveIds /\ CurInHandshake /\ [Next]_vars => CurInHandshake'
  <2> SUFFICES ASSUME TypeOK, SessionsHaveIds, CurInHandshake, [Next]_vars PROVE CurInHandshake'
    OBVIOUS
  <2>1. CASE cur' = Null
    BY <2>1
  <2>2. ASSUME NEW s \in Session, Accept(s) PROVE CurInHandshake'
    BY <2>2 DEF Accept
  <2>3. CASE HandshakeAborts
    <3>1. cur \in Session /\ cur' = cur /\ pc' = "crashed" /\ UNCHANGED <<phase, peerUp>>
      BY <2>3 DEF HandshakeAborts, SessionsHaveIds, peers
    <3>. QED  BY <2>3, <3>1 DEF HandshakeAborts
  <2>4. ASSUME UNCHANGED thread,
               \A s \in Session : phase[s] = "dialed" /\ ~peerUp[s] => phase'[s] = "dialed" /\ ~peerUp'[s]
        PROVE  CurInHandshake'
    <3>1. UNCHANGED <<pc, cur>>
      BY <2>4 DEF thread
    <3>. QED  BY <2>4, <3>1
  <2>5. CASE Environment
    <3>1. \A s \in Session, id \in ClientId \cup OperatorId : Dial(s, id) =>
            /\ UNCHANGED thread
            /\ \A t \in Session : phase[t] = "dialed" /\ ~peerUp[t] => phase'[t] = "dialed" /\ ~peerUp'[t]
      BY DEF Dial, TypeOK
    <3>2. \A s \in Session : Identify(s) \/ LeavesEarly(s) \/ PeerDies(s) =>
            /\ UNCHANGED thread
            /\ \A t \in Session : phase[t] = "dialed" /\ ~peerUp[t] => phase'[t] = "dialed" /\ ~peerUp'[t]
      BY DEF Identify, LeavesEarly, PeerDies, peers, TypeOK
    <3>3. \A s \in Session : OperatorDecides(s) \/ OperatorChokes(s) =>
            /\ UNCHANGED thread
            /\ \A t \in Session : phase[t] = "dialed" /\ ~peerUp[t] => phase'[t] = "dialed" /\ ~peerUp'[t]
      BY DEF OperatorDecides, OperatorChokes, TypeOK
    <3>4. \A s \in Session, i \in Image : ClientSends(s, i) => UNCHANGED <<thread, phase, peerUp>>
      BY DEF ClientSends
    <3>5. ClockSet => UNCHANGED <<thread, phase, peerUp>>
      BY DEF ClockSet, peers
    <3>. QED  BY <2>4, <2>5, <3>1, <3>2, <3>3, <3>4, <3>5 DEF Environment
  <2>6. CASE cur = Null /\ UNCHANGED cur
    BY <2>1, <2>6
  <2>7. CASE Continue
    <3>1. CASE RegisterClient \/ RegisterOperator
      BY <2>1, <3>1 DEF RegisterClient, RegisterOperator, registerOperator
    <3>2. CASE AssignDone \/ AssignNobody \/ AssignAllBusy \/ AssignSpins \/ AssignReturns
      BY <2>6, <3>2 DEF AssignDone, AssignNobody, AssignAllBusy, AssignSpins, AssignReturns
    <3>3. ASSUME NEW o \in OperatorId, NEW img \in Image \cup {EmptyImage}, AssignTo(o, img)
          PROVE  CurInHandshake'
      BY <2>6, <3>3 DEF AssignTo, AssignSends, AssignSendFails, AssignSpawnFails, AssignNoSession,
                        CatchFailure, thread
    <3>. QED  BY <2>3, <2>7, <3>1, <3>2, <3>3 DEF Continue
  <2>8. ASSUME NEW s \in Session, Dispatch(s) PROVE CurInHandshake'
    BY <2>2, <2>6, <2>8 DEF Dispatch, ReadImage, ClientReadFails, ReadDecision, OperatorReadFails,
                            AbortedRead, thread
  <2>9. CASE UNCHANGED vars
    BY <2>4, <2>9 DEF vars, peers
  <2>. QED  BY <2>5, <2>7, <2>8, <2>9 DEF Next
<1>. QED  BY <1>1, <1>2, TypeCorrect, SessionsHaveIdsCorrect, PTL DEF Spec

LEMMA SendersEstablishedCorrect == Spec => []SendersEstablished
<1> USE DEF SendersEstablished
<1>1. Init => SendersEstablished
  BY DEF Init
<1>2. TypeOK /\ SessionsHaveIds /\ SendersEstablished /\ [Next]_vars => SendersEstablished'
  <2> SUFFICES ASSUME TypeOK, SessionsHaveIds, SendersEstablished, [Next]_vars PROVE SendersEstablished'
    OBVIOUS
  <2>1. \A s \in Session : phase[s] \in Established =>
           phase'[s] \in Established /\ systemId'[s] = systemId[s]
    BY SessionsAge DEF Established
  <2>2. CASE UNCHANGED origin
    BY <2>1, <2>2
  <2>3. ASSUME NEW s \in Session, NEW i \in Image, ClientSends(s, i) PROVE SendersEstablished'
    BY <2>1, <2>3 DEF ClientSends, TypeOK, Established
  <2>4. UNCHANGED origin \/ \E s \in Session, i \in Image : ClientSends(s, i)
    BY DEF Next, Environment, Continue, AssignTo, Dispatch, vars, history, Dial, Identify,
           OperatorDecides, OperatorChokes, PeerDies, LeavesEarly, ClockSet, HandshakeAborts,
           RegisterClient, RegisterOperator, registerOperator, AssignDone, AssignNobody,
           AssignAllBusy, AssignSpins,
           AssignReturns, AssignSends, AssignSendFails, AssignSpawnFails, AssignNoSession, Accept,
           ReadImage, handleImage, ReadDecision, ClientReadFails, OperatorReadFails, AbortedRead
  <2>. QED  BY <2>2, <2>3, <2>4
<1>. QED  BY <1>1, <1>2, TypeCorrect, SessionsHaveIdsCorrect, PTL DEF Spec

\* What a session shows to the contract of clients.
ShownAs(s, stage) ==
    /\ ClientStage(s) = stage
    /\ IsLive(s) <=> stage \in {"dialed", "identified", "open"}
    /\ IsLive(s) => /\ ClientUp(s) = peerUp[s] /\ ClientUnread(s) = wire[s]
                    /\ ClientSent(s) = {i \in Image : origin[i] = s}
    /\ ~IsLive(s) => ClientUp(s) = FALSE /\ ClientUnread(s) = {} /\ ClientSent(s) = {}

Shown ==
    \A s \in Session :
        /\ systemId[s] \notin ClientId => ShownAs(s, "unused")
        /\ systemId[s] \in ClientId /\ pc = "crashed" /\ cur = s => ShownAs(s, "crashed")
        /\ systemId[s] \in ClientId /\ ~(pc = "crashed" /\ cur = s) =>
              ShownAs(s, IF phase[s] \in {"destroyed", "done"} THEN "over" ELSE phase[s])

LEMMA SessionsShown == TypeOK => Shown
<1> SUFFICES ASSUME TypeOK, NEW s \in Session
             PROVE  /\ systemId[s] \notin ClientId => ShownAs(s, "unused")
                    /\ systemId[s] \in ClientId /\ pc = "crashed" /\ cur = s => ShownAs(s, "crashed")
                    /\ systemId[s] \in ClientId /\ ~(pc = "crashed" /\ cur = s) =>
                          ShownAs(s, IF phase[s] \in {"destroyed", "done"} THEN "over" ELSE phase[s])
  BY DEF Shown
<1>1. ShownAs(s, ClientStage(s))
  <2>1. peerUp[s] \in BOOLEAN /\ wire[s] \subseteq Image
    BY DEF TypeOK
  <2>2. IsLive(s) => ClientUp(s) = peerUp[s]
    BY <2>1 DEF ClientUp
  <2>3. IsLive(s) => ClientUnread(s) = wire[s]
    BY <2>1 DEF ClientUnread
  <2>4. IsLive(s) => ClientSent(s) = {i \in Image : origin[i] = s}
    BY DEF ClientSent
  <2>5. ~IsLive(s) => ClientUp(s) = FALSE /\ ClientUnread(s) = {} /\ ClientSent(s) = {}
    BY DEF ClientUp, ClientUnread, ClientSent
  <2>6. IsLive(s) <=> ClientStage(s) \in {"dialed", "identified", "open"}
    BY DEF IsLive
  <2>. QED  BY <2>2, <2>3, <2>4, <2>5, <2>6 DEF ShownAs
<1>2. /\ systemId[s] \notin ClientId => ClientStage(s) = "unused"
      /\ systemId[s] \in ClientId /\ pc = "crashed" /\ cur = s => ClientStage(s) = "crashed"
      /\ systemId[s] \in ClientId /\ ~(pc = "crashed" /\ cur = s) =>
            ClientStage(s) = IF phase[s] \in {"destroyed", "done"} THEN "over" ELSE phase[s]
  BY Zenon DEF ClientStage
<1>. QED  BY <1>1, <1>2

\* The client's side of one session: one step of the contract, or none.
LEMMA ClientAtStep ==
    ASSUME TypeOK, TypeOK', SessionsHaveIds, ImagesInOnePlace, ImagesInOnePlace',
           OnlyOperatorsOwe, CurInHandshake, SendersEstablished, SendersEstablished',
           [Next]_vars, NEW s \in Session
    PROVE  UNCHANGED ClientAt(s)!clientVars \/ ClientAt(s)!Next
<1> DEFINE Same == /\ ClientStage(s)' = ClientStage(s) /\ ClientUp(s)' = ClientUp(s)
                   /\ ClientSent(s)' = ClientSent(s) /\ ClientUnread(s)' = ClientUnread(s)
                   /\ ClientGot(s)' = ClientGot(s)
           Goal == UNCHANGED ClientAt(s)!clientVars \/ ClientAt(s)!Next
           over(p) == IF p \in {"destroyed", "done"} THEN "over" ELSE p
<1>0. Same => Goal
  BY DEF ClientAt!clientVars
<1>m. Shown /\ Shown'
  <2>1. Shown
    BY SessionsShown
  <2>2. Shown'
    BY SessionsShown, PTL
  <2>. QED  BY <2>1, <2>2
<1>g. /\ ClientGot(s) = {i \in received : origin[i] = s}
      /\ ClientGot(s)' = {i \in received' : origin'[i] = s}
  BY DEF ClientGot
<1>n. s # Null /\ s \in Session
  BY ConstantsOK
<1>u. /\ phase[s] \notin Established \/ systemId[s] \notin ClientId
            => {i \in Image : origin[i] = s} = {} /\ wire[s] = {}
  <2>1. ASSUME phase[s] \notin Established \/ systemId[s] \notin ClientId, NEW i \in Image
        PROVE  origin[i] # s
    BY <2>1, <1>n DEF SendersEstablished
  <2>2. wire[s] \subseteq Image /\ \A i \in wire[s] : origin[i] = s
    BY DEF ImagesInOnePlace, TypeOK
  <2>. QED  BY <2>1, <2>2
<1>v. /\ phase'[s] \notin Established \/ systemId'[s] \notin ClientId
            => {i \in Image : origin'[i] = s} = {} /\ wire'[s] = {}
  <2>1. ASSUME phase'[s] \notin Established \/ systemId'[s] \notin ClientId, NEW i \in Image
        PROVE  origin'[i] # s
    BY <2>1, <1>n DEF SendersEstablished
  <2>2. wire'[s] \subseteq Image /\ \A i \in wire'[s] : origin'[i] = s
    BY DEF ImagesInOnePlace, TypeOK
  <2>. QED  BY <2>1, <2>2
<1>w. received \subseteq Image /\ received' \subseteq Image
  BY DEF TypeOK
\* What is no client's stays so.
<1>1. CASE systemId[s] \notin ClientId /\ systemId'[s] \notin ClientId
  <2>1. ShownAs(s, "unused") /\ ShownAs(s, "unused")'
    BY <1>1, <1>m DEF Shown
  <2>2. ClientGot(s) = {} /\ ClientGot(s)' = {}
    BY <1>1, <1>g, <1>u, <1>v, <1>w
  <2>3. Same
    BY <2>1, <2>2 DEF ShownAs
  <2>. QED  BY <2>3, <1>0
<1>2. ASSUME NEW id \in ClientId, Dial(s, id)
      PROVE  Goal
  <2>1. /\ phase[s] = "unused" /\ phase'[s] = "dialed" /\ systemId'[s] = id /\ peerUp'[s] = TRUE
        /\ UNCHANGED <<pc, cur, received, origin>> /\ systemId[s] = Null
    BY <1>2 DEF Dial, TypeOK, thread, history, SessionsHaveIds
  <2>2. ~(pc = "crashed" /\ cur = s)
    BY <2>1, <1>n DEF CurInHandshake
  <2>3. ShownAs(s, "unused") /\ ShownAs(s, "dialed")'
    <3>1. systemId[s] \notin ClientId /\ ~(pc' = "crashed" /\ cur' = s) /\ systemId'[s] \in ClientId
      BY <2>1, <2>2, ConstantsOK
    <3>2. ShownAs(s, over(phase[s]))' /\ over(phase'[s]) = "dialed"
      BY <2>1, <3>1, <1>m, <1>n DEF Shown
    <3>. QED  BY <3>1, <3>2, <1>m, <1>n DEF Shown
  <2>4. ClientGot(s)' = ClientGot(s)
    BY <2>1, <1>g
  <2>5. ClientAt(s)!Dial
    <3>1. ClientSent(s) = {} /\ ClientUnread(s) = {}
      BY <2>3 DEF ShownAs
    <3>2. ClientSent(s)' = {} /\ ClientUnread(s)' = {} /\ ClientUp(s)'
      BY <2>1, <2>3, <1>v DEF ShownAs, Established
    <3>. QED  BY <2>3, <2>4, <3>1, <3>2 DEF ShownAs, ClientAt!Dial
  <2>. QED  BY <2>5 DEF ClientAt!Next
<1>3. CASE systemId[s] \in ClientId
  <2> DEFINE dead == pc = "crashed" /\ cur = s
  <2>1. /\ phase[s] # "unused" /\ systemId'[s] = systemId[s] /\ systemId[s] \notin OperatorId
        /\ desk[s] = <<>>
    BY <1>3, <1>n, SessionsAge, ConstantsOK DEF SessionsHaveIds, OnlyOperatorsOwe
  <2>2. /\ dead => ShownAs(s, "crashed") /\ phase[s] = "dialed" /\ ~peerUp[s]
        /\ ~dead => ShownAs(s, over(phase[s]))
        /\ dead' => ShownAs(s, "crashed")'
        /\ ~dead' => ShownAs(s, over(phase[s]))'
    BY <1>3, <1>n, <1>m, <2>1 DEF Shown, CurInHandshake
  <2>3. pc \in {"poll", "assign", "return"} => cur = Null /\ ~dead
    BY <1>n DEF CurInHandshake
  <2>p. phase[s] \in {"dialed", "identified", "open", "destroyed", "done"}
    BY <1>n, <2>1 DEF TypeOK
  \* What does not concern this session.
  <2>4. ASSUME phase'[s] = phase[s], peerUp'[s] = peerUp[s], wire'[s] = wire[s], origin' = origin,
               dead' <=> dead, ClientGot(s)' = ClientGot(s)
        PROVE  Goal
    <3>1. CASE dead
      <4>1. ShownAs(s, "crashed") /\ ShownAs(s, "crashed")'
        BY <3>1, <2>2, <2>4
      <4>. QED  BY <4>1, <2>4, <1>0 DEF ShownAs
    <3>2. CASE ~dead
      <4>1. ShownAs(s, over(phase[s])) /\ ShownAs(s, over(phase[s]))'
        BY <3>2, <2>2, <2>4
      <4>2. over(phase[s])' = over(phase[s])
        BY <2>4
      <4>. QED  BY <4>1, <4>2, <2>4, <1>0 DEF ShownAs
    <3>. QED  BY <3>1, <3>2
  <2>g. UNCHANGED <<received, origin>> => ClientGot(s)' = ClientGot(s)
    BY <1>g
  <2>5. ASSUME Identify(s) PROVE Goal
    <3>1. /\ phase[s] = "dialed" /\ peerUp[s] /\ phase'[s] = "identified"
          /\ UNCHANGED <<pc, cur, origin, received, peerUp, wire>>
      BY <2>5 DEF Identify, TypeOK, thread, peers, history
    <3>2. ShownAs(s, "dialed") /\ ShownAs(s, "identified")'
      <4>1. over(phase[s]) = "dialed" /\ over(phase'[s]) = "identified" /\ ~dead /\ ~dead'
        BY <3>1, <2>2
      <4>. QED  BY <4>1, <2>2
    <3>3. ClientAt(s)!Identify
      BY <3>1, <3>2, <2>g DEF ShownAs, ClientAt!Identify
    <3>. QED  BY <3>3 DEF ClientAt!Next
  <2>6. ASSUME LeavesEarly(s) PROVE Goal
    <3>1. /\ phase[s] \in {"dialed", "identified"} /\ ~peerUp'[s] /\ phase'[s] = "dialed"
          /\ UNCHANGED <<pc, cur, origin, received, wire>> /\ peerUp'[s] = FALSE
      BY <2>6 DEF LeavesEarly, TypeOK, thread, history
    <3>2. CASE dead
      <4>1. phase[s] = "dialed" /\ ~peerUp[s]
        BY <3>2, <2>2
      <4>2. peerUp'[s] = peerUp[s]
        BY <3>1, <4>1 DEF TypeOK
      <4>. QED  BY <3>1, <4>1, <4>2, <2>4, <2>g
    <3>3. CASE ~dead
      <4>1. over(phase[s]) = phase[s] /\ over(phase'[s]) = "dialed" /\ ~dead'
        BY <3>1, <3>3
      <4>2. ShownAs(s, phase[s]) /\ ShownAs(s, "dialed")'
        BY <3>3, <4>1, <2>2
      <4>3. ClientAt(s)!LeaveEarly
        BY <3>1, <4>2, <2>g DEF ShownAs, ClientAt!LeaveEarly
      <4>. QED  BY <4>3 DEF ClientAt!Next
    <3>. QED  BY <3>2, <3>3
  <2>7. ASSUME PeerDies(s) PROVE Goal
    <3>1. /\ phase[s] # "dialed" /\ peerUp'[s] = FALSE /\ phase'[s] = phase[s]
          /\ UNCHANGED <<pc, cur, origin, received>> /\ wire'[s] \in {wire[s], {}}
      BY <2>7 DEF PeerDies, TypeOK, thread, history
    <3>2. ~dead /\ ~dead' /\ over(phase[s])' = over(phase[s])
      BY <3>1, <2>2
    <3>3. ShownAs(s, over(phase[s])) /\ ShownAs(s, over(phase[s]))'
      BY <3>2, <2>2
    <3>4. CASE phase[s] \in {"identified", "open"}
      <4>1. over(phase[s]) = phase[s]
        BY <3>4
      <4>2. ClientAt(s)!Lose
        BY <3>1, <3>2, <3>3, <3>4, <4>1, <2>g DEF ShownAs, ClientAt!Lose
      <4>. QED  BY <4>2 DEF ClientAt!Next
    <3>5. CASE phase[s] \notin {"identified", "open"}
      <4>1. over(phase[s]) = "over"
        BY <3>1, <3>5, <2>p
      <4>. QED  BY <3>1, <3>2, <3>3, <4>1, <2>g, <1>0 DEF ShownAs
    <3>. QED  BY <3>4, <3>5
  <2>8. ASSUME NEW t \in Session, NEW i \in Image, ClientSends(t, i) PROVE Goal
    <3>1. /\ UNCHANGED <<pc, cur, phase, peerUp, received>> /\ origin[i] = Null
          /\ origin' = [origin EXCEPT ![i] = t] /\ wire' = [wire EXCEPT ![t] = @ \cup {i}]
      BY <2>8 DEF ClientSends, thread
    <3>2. i \notin received
      BY <3>1 DEF ImagesInOnePlace
    <3>3. ClientGot(s)' = ClientGot(s)
      BY <3>1, <3>2, <1>g, <1>w DEF TypeOK
    <3>4. CASE t # s
      <4>1. wire'[s] = wire[s]
        BY <3>1, <3>4 DEF TypeOK
      <4>2. {j \in Image : origin'[j] = s} = {j \in Image : origin[j] = s}
        BY <3>1, <3>4, <1>n DEF TypeOK
      <4>3. CASE dead
        <5>1. ShownAs(s, "crashed") /\ ShownAs(s, "crashed")'
          BY <3>1, <4>3, <2>2
        <5>. QED  BY <5>1, <3>3, <1>0 DEF ShownAs
      <4>4. CASE ~dead
        <5>1. over(phase[s])' = over(phase[s]) /\ ~dead'
          BY <3>1, <4>4
        <5>2. ShownAs(s, over(phase[s])) /\ ShownAs(s, over(phase[s]))'
          BY <4>4, <5>1, <2>2
        <5>. QED  BY <3>1, <3>3, <4>1, <4>2, <5>1, <5>2, <1>0 DEF ShownAs
      <4>. QED  BY <4>3, <4>4
    <3>5. CASE t = s
      <4>1. phase[s] = "open" /\ peerUp[s] /\ \A j \in Image : origin[j] = s => j < i
        BY <2>8, <3>5 DEF ClientSends
      <4>2. ~dead /\ ~dead' /\ over(phase[s]) = "open" /\ over(phase'[s]) = "open"
        BY <3>1, <4>1, <2>2
      <4>3. ShownAs(s, "open") /\ ShownAs(s, "open")'
        BY <4>2, <2>2
      <4>4. /\ wire'[s] = wire[s] \cup {i}
            /\ {j \in Image : origin'[j] = s} = {j \in Image : origin[j] = s} \cup {i}
        BY <3>1, <3>5, <1>n DEF TypeOK
      <4>5. ClientAt(s)!Send(i)
        BY <3>1, <3>3, <4>1, <4>3, <4>4 DEF ShownAs, ClientAt!Send
      <4>. QED  BY <4>5 DEF ClientAt!Next
    <3>. QED  BY <3>4, <3>5
  <2>9. ASSUME HandshakeAborts PROVE Goal
    <3>1. /\ phase[cur] = "dialed" /\ ~peerUp[cur] /\ pc = "handshake" /\ pc' = "crashed"
          /\ UNCHANGED <<cur, phase, peerUp, origin, received, wire>>
      BY <2>9 DEF HandshakeAborts, peers, history
    <3>2. CASE cur # s
      BY <3>1, <3>2, <2>4, <2>g
    <3>3. CASE cur = s
      <4>1. ~dead /\ dead' /\ over(phase[s]) = "dialed"
        BY <3>1, <3>3
      <4>2. ShownAs(s, "dialed") /\ ShownAs(s, "crashed")'
        BY <4>1, <2>2
      <4>3. peerUp[s] = FALSE /\ wire[s] = {} /\ {j \in Image : origin[j] = s} = {}
        BY <3>1, <3>3, <1>u, <1>n DEF TypeOK, Established
      <4>4. ClientAt(s)!EndServer
        BY <3>1, <4>2, <4>3, <2>g DEF ShownAs, ClientAt!EndServer
      <4>. QED  BY <4>4 DEF ClientAt!Next
    <3>. QED  BY <3>2, <3>3
  <2>10. ASSUME RegisterClient PROVE Goal
    <3>1. /\ phase[cur] = "identified" /\ pc = "handshake" /\ pc' = "poll" /\ cur \in Session
          /\ phase' = [phase EXCEPT ![cur] = "open"]
          /\ UNCHANGED <<peerUp, origin, received, wire>>
      BY <2>10 DEF RegisterClient, peers, history, SessionsHaveIds
    <3>2. CASE cur # s
      BY <3>1, <3>2, <2>4, <2>g DEF TypeOK
    <3>3. CASE cur = s
      <4>1. ~dead /\ ~dead' /\ over(phase[s]) = "identified" /\ over(phase'[s]) = "open"
        BY <3>1, <3>3 DEF TypeOK
      <4>2. ShownAs(s, "identified") /\ ShownAs(s, "open")'
        BY <4>1, <2>2
      <4>3. ClientAt(s)!Open
        BY <3>1, <4>2, <2>g DEF ShownAs, ClientAt!Open
      <4>. QED  BY <4>3 DEF ClientAt!Next
    <3>. QED  BY <3>2, <3>3
  <2>11. ASSUME NEW t \in Session, ReadImage(t) PROVE Goal
    <3>1. PICK i \in wire[t] :
             /\ \A j \in wire[t] : i <= j
             /\ wire' = [wire EXCEPT ![t] = @ \ {i}] /\ received' = received \cup {i}
             /\ pc = "poll" /\ pc' = "assign"
      BY <2>11 DEF ReadImage, handleImage
    <3>2. i \in Image /\ origin[i] = t /\ phase[t] = "open" /\ UNCHANGED <<cur, phase, peerUp, origin>>
      BY <2>11, <3>1 DEF ReadImage, ImagesInOnePlace, TypeOK
    <3>3. ~dead /\ ~dead'
      BY <3>1, <2>3
    <3>4. CASE t # s
      <4>1. ClientGot(s)' = ClientGot(s) /\ wire'[s] = wire[s]
        BY <3>1, <3>2, <3>4, <1>g DEF TypeOK
      <4>. QED  BY <3>2, <3>3, <4>1, <2>4
    <3>5. CASE t = s
      <4>1. over(phase[s]) = "open" /\ over(phase'[s]) = "open"
        BY <3>2, <3>5
      <4>2. ShownAs(s, "open") /\ ShownAs(s, "open")'
        BY <3>3, <4>1, <2>2
      <4>3. ClientGot(s)' = ClientGot(s) \cup {i} /\ wire'[s] = wire[s] \ {i}
        BY <3>1, <3>2, <3>5, <1>g DEF TypeOK
      <4>4. ClientAt(s)!Read(i)
        BY <3>1, <3>2, <3>5, <4>2, <4>3 DEF ShownAs, ClientAt!Read
      <4>. QED  BY <3>2, <4>4 DEF ClientAt!Next
    <3>. QED  BY <3>4, <3>5
  <2>12. ASSUME NEW t \in Session, ClientReadFails(t) PROVE Goal
    <3>1. /\ pc = "poll" /\ phase[t] = "open" /\ UNCHANGED <<cur, peerUp, origin, received, wire>>
          /\ UNCHANGED phase \/ phase' = Closed(t, clients_[systemId[t]])
      BY <2>12 DEF ClientReadFails, peers, history
    <3>2. ~dead /\ ~dead'
      BY <3>1, <2>3, <1>n
    <3>3. CASE phase'[s] = phase[s]
      BY <3>1, <3>2, <3>3, <2>4, <2>g
    <3>4. CASE phase'[s] # phase[s]
      <4>1. phase'[s] \in {"destroyed", "done"}
        BY <3>1, <3>4, <1>n DEF Closed, TypeOK
      <4>2. phase[s] \in Established
        <5>1. t = s \/ clients_[systemId[t]] = s
          BY <3>1, <3>4, <1>n DEF Closed, TypeOK
        <5>2. systemId[t] \in ClientId
          BY <2>12 DEF ClientReadFails
        <5>. QED  BY <3>1, <5>1, <5>2, <1>n DEF SessionsHaveIds, Established
      <4>3. over(phase[s]) \in {"open", "over"} /\ over(phase'[s]) = "over"
        BY <4>1, <4>2 DEF Established
      <4>4. ShownAs(s, over(phase[s])) /\ ShownAs(s, "over")'
        BY <3>2, <4>3, <2>2
      <4>5. CASE over(phase[s]) = "over"
        BY <3>1, <4>4, <4>5, <2>g, <1>0 DEF ShownAs
      <4>6. CASE over(phase[s]) = "open"
        <5>1. ClientAt(s)!Close
          BY <3>1, <4>4, <4>6, <2>g DEF ShownAs, ClientAt!Close
        <5>. QED  BY <5>1 DEF ClientAt!Next
      <4>. QED  BY <4>3, <4>5, <4>6
    <3>. QED  BY <3>3, <3>4
  <2>13. ASSUME NEW t \in Session, OperatorReadFails(t) PROVE Goal
    <3>1. /\ pc = "poll" /\ systemId[t] \in OperatorId
          /\ UNCHANGED <<cur, peerUp, origin, received, wire>>
          /\ \/ UNCHANGED phase
             \/ operators_[systemId[t]] # Null /\ phase' = Closed(t, operators_[systemId[t]])
      BY <2>13 DEF OperatorReadFails, peers, history
    <3>2. ~dead /\ ~dead'
      BY <3>1, <2>3, <1>n
    <3>3. t # s
      BY <3>1, <2>1
    <3>4. operators_[systemId[t]] # Null => operators_[systemId[t]] # s
      BY <3>1, <2>1 DEF SessionsHaveIds
    <3>5. phase'[s] = phase[s]
      BY <3>1, <3>3, <3>4, <1>n DEF Closed, TypeOK
    <3>. QED  BY <3>1, <3>2, <3>5, <2>4, <2>g
  <2>14. ASSUME phase'[s] = phase[s], peerUp'[s] = peerUp[s], wire'[s] = wire[s],
                UNCHANGED <<origin, received, pc, cur>>
         PROVE  Goal
    BY <2>14, <2>4, <2>g
  <2>15. CASE Environment
    <3>1. ASSUME NEW t \in Session, NEW id \in ClientId \cup OperatorId, Dial(t, id) PROVE Goal
      <4>1. t # s /\ UNCHANGED <<origin, received, pc, cur, wire>>
        BY <2>1, <3>1 DEF Dial, thread, history
      <4>. QED  BY <3>1, <4>1, <2>14 DEF Dial, TypeOK
    <3>2. ASSUME NEW t \in Session, Identify(t) \/ LeavesEarly(t) \/ PeerDies(t), t # s PROVE Goal
      BY <3>2, <2>14 DEF Identify, LeavesEarly, PeerDies, thread, history, peers, TypeOK
    <3>3. ASSUME NEW t \in Session, OperatorDecides(t) PROVE Goal
      BY <3>3, <2>14 DEF OperatorDecides, thread, history
    <3>4. ASSUME NEW t \in Session, OperatorChokes(t) PROVE Goal
      <4>1. t # s
        BY <2>1, <3>4 DEF OperatorChokes
      <4>. QED  BY <3>4, <4>1, <2>14 DEF OperatorChokes, thread, history, TypeOK
    <3>5. CASE ClockSet
      BY <3>5, <2>14 DEF ClockSet, thread, history, peers
    <3>. QED
      BY <2>5, <2>6, <2>7, <2>8, <2>15, <3>1, <3>2, <3>3, <3>4, <3>5 DEF Environment
  \* The thread goes on with what is not of this session.
  <2>16. ASSUME UNCHANGED <<cur, phase, origin, received, peerUp, wire>>,
                pc \in {"poll", "assign", "return"}
         PROVE  Goal
    <3>1. ~dead /\ ~dead'
      BY <2>16, <2>3, <1>n
    <3>. QED  BY <3>1, <2>16, <2>4, <2>g
  <2>17. CASE Continue
    <3>1. CASE RegisterOperator
      <4>1. cur # s /\ cur \in Session /\ pc = "handshake" /\ pc' # "crashed"
        BY <2>1, <3>1 DEF RegisterOperator, registerOperator, SessionsHaveIds
      <4>2. phase' = [phase EXCEPT ![cur] = "open"] /\ UNCHANGED <<origin, received, peerUp, wire>>
        BY <3>1 DEF RegisterOperator, registerOperator, history, peers
      <4>. QED  BY <4>1, <4>2, <2>4, <2>g DEF TypeOK
    <3>2. CASE AssignDone \/ AssignNobody \/ AssignAllBusy \/ AssignSpins \/ AssignReturns
      BY <3>2, <2>16 DEF AssignDone, AssignNobody, AssignAllBusy, AssignSpins, AssignReturns,
                         peers, history
    <3>3. ASSUME NEW o \in OperatorId, NEW img \in Image \cup {EmptyImage}, AssignTo(o, img)
          PROVE  Goal
      BY <3>3, <2>16 DEF AssignTo, AssignSends, AssignSendFails, AssignSpawnFails, AssignNoSession,
                         CatchFailure, Written, thread, peers, history
    <3>. QED  BY <2>9, <2>10, <2>17, <3>1, <3>2, <3>3 DEF Continue
  <2>18. ASSUME NEW t \in Session, Dispatch(t) PROVE Goal
    <3>1. CASE Accept(t)
      <4>1. pc = "poll" /\ pc' = "handshake" /\ UNCHANGED <<phase, origin, received, peerUp, wire>>
        BY <3>1 DEF Accept, peers, history
      <4>2. ~dead /\ ~dead'
        BY <4>1
      <4>. QED  BY <4>1, <4>2, <2>4, <2>g
    <3>2. CASE ReadDecision(t) \/ AbortedRead(t)
      BY <3>2, <2>16 DEF ReadDecision, AbortedRead, peers, history
    <3>. QED  BY <2>11, <2>12, <2>13, <2>18, <3>1, <3>2 DEF Dispatch
  <2>19. CASE UNCHANGED vars
    BY <2>19, <2>14 DEF vars, thread, peers, history
  <2>. QED  BY <2>15, <2>17, <2>18, <2>19 DEF Next
<1>4. systemId[s] \notin ClientId =>
         systemId'[s] \notin ClientId \/ \E id \in ClientId : Dial(s, id)
  <2>1. phase[s] # "unused" => systemId'[s] = systemId[s]
    BY <1>n, SessionsAge
  <2>2. systemId' = systemId \/ \E t \in Session, id \in ClientId \cup OperatorId : Dial(t, id)
    BY DEF Next, Environment, Continue, AssignTo, Dispatch, vars, Identify, ClientSends,
           OperatorDecides, OperatorChokes, PeerDies, LeavesEarly, ClockSet, HandshakeAborts,
           RegisterClient, RegisterOperator, registerOperator, AssignDone, AssignNobody,
           AssignAllBusy, AssignSpins,
           AssignReturns, AssignSends, AssignSendFails, AssignSpawnFails, AssignNoSession, Accept,
           ReadImage, handleImage, ReadDecision, ClientReadFails, OperatorReadFails, AbortedRead
  <2>3. ASSUME NEW t \in Session, NEW id \in ClientId \cup OperatorId, Dial(t, id)
        PROVE  systemId'[s] = systemId[s] \/ (t = s /\ systemId'[s] = id)
    BY <2>3, <1>n DEF Dial, TypeOK
  <2>. QED  BY <2>2, <2>3
<1>. QED  BY <1>1, <1>2, <1>3, <1>4

\* The operator's side of one session: one step of the contract, or none.
LEMMA OperatorAtStep ==
    ASSUME TypeOK, TypeOK', SessionsHaveIds, SessionsHaveIds', OnlyOperatorsOwe,
           [Next]_vars, NEW s \in Session
    PROVE  UNCHANGED OperatorAt(s)!peerVars \/ OperatorAt(s)!Next
<1> DEFINE Running == phase[s] = "unused" \/ peerUp[s]
           Goal    == UNCHANGED OperatorAt(s)!peerVars \/ OperatorAt(s)!Next
<1>n. s # Null
  BY ConstantsOK
<1>0. ASSUME Running' <=> Running, desk'[s] = desk[s], answers'[s] = answers[s] PROVE Goal
  <2>1. Running' = Running
    BY <1>0
  <2>. QED  BY <1>0, <2>1 DEF OperatorAt!peerVars
<1>1. ASSUME UNCHANGED systemId, peerUp'[s] = peerUp[s], desk'[s] = desk[s], answers'[s] = answers[s]
      PROVE  Goal
  BY <1>1, <1>0 DEF SessionsHaveIds
<1>2. phase[s] \notin Established => desk[s] = <<>> /\ answers[s] = <<>>
  BY DEF OnlyOperatorsOwe
<1>3. desk[s] # <<>> \/ answers[s] # <<>> => phase[s] # "unused" /\ Running = peerUp[s]
  BY DEF OnlyOperatorsOwe, Established, TypeOK
<1>4. ASSUME ~Running', desk'[s] = <<>>, answers'[s] \in {answers[s], <<>>}, ~Absent(LossFaults)
      PROVE  Goal
  <2>1. Running' = FALSE
    BY <1>4
  <2>2. OperatorAt(s)!Die
    BY <1>4, <2>1 DEF OperatorAt!Die
  <2>. QED  BY <2>2 DEF OperatorAt!Next
<1>5. ASSUME NEW t \in Session, NEW id \in ClientId \cup OperatorId, Dial(t, id) PROVE Goal
  <2>1. UNCHANGED <<desk, answers>>
    BY <1>5 DEF Dial
  <2>2. Running' <=> Running
    BY <1>5 DEF Dial, TypeOK
  <2>. QED  BY <2>1, <2>2, <1>0
<1>6. ASSUME NEW t \in Session, LeavesEarly(t) PROVE Goal
  <2>1. CASE t # s
    BY <1>6, <2>1, <1>1 DEF LeavesEarly, TypeOK
  <2>2. CASE t = s
    <3>1. ~Absent(LossFaults)
      BY <1>6 DEF LeavesEarly, Absent, LossFaults
    <3>2. phase[s] \notin Established /\ ~Running' /\ UNCHANGED <<desk, answers>>
      BY <1>6, <2>2 DEF LeavesEarly, Established, TypeOK
    <3>. QED  BY <3>1, <3>2, <1>2, <1>4
  <2>. QED  BY <2>1, <2>2
<1>7. ASSUME NEW t \in Session, PeerDies(t) PROVE Goal
  <2>1. CASE t # s
    BY <1>7, <2>1, <1>1 DEF PeerDies, TypeOK
  <2>2. CASE t = s
    <3>1. ~Absent(LossFaults)
      BY <1>7 DEF PeerDies, Absent, LossFaults
    <3>2. phase'[s] = phase[s] /\ phase[s] # "unused"
      BY <1>7, <2>2, ConstantsOK DEF PeerDies, SessionsHaveIds
    <3>3. peerUp'[s] = FALSE /\ desk'[s] = <<>> /\ answers'[s] \in {answers[s], <<>>}
      BY <1>7, <2>2 DEF PeerDies, TypeOK
    <3>. QED  BY <3>1, <3>2, <3>3, <1>4
  <2>. QED  BY <2>1, <2>2
<1>8. ASSUME NEW t \in Session, OperatorDecides(t) PROVE Goal
  <2>1. CASE t # s
    BY <1>8, <2>1, <1>1 DEF OperatorDecides, TypeOK
  <2>2. CASE t = s
    <3>1. /\ peerUp[s] /\ desk[s] # <<>> /\ Head(desk[s]) # EmptyImage
          /\ desk'[s] = Tail(desk[s]) /\ answers'[s] = Append(answers[s], Head(desk[s]))
          /\ UNCHANGED <<phase, peerUp>>
      BY <1>8, <2>2 DEF OperatorDecides, TypeOK
    <3>2. Running /\ Running' = Running
      BY <3>1
    <3>3. OperatorAt(s)!Decide
      BY <3>1, <3>2 DEF OperatorAt!Decide
    <3>. QED  BY <3>3 DEF OperatorAt!Next
  <2>. QED  BY <2>1, <2>2
<1>9. ASSUME NEW t \in Session, OperatorChokes(t) PROVE Goal
  <2>1. CASE t # s
    BY <1>9, <2>1, <1>1 DEF OperatorChokes, TypeOK
  <2>2. CASE t = s
    <3>1. /\ peerUp[s] /\ desk[s] # <<>> /\ Head(desk[s]) = EmptyImage
          /\ desk'[s] = <<>> /\ answers' = answers /\ peerUp'[s] = FALSE /\ phase' = phase
      BY <1>9, <2>2 DEF OperatorChokes, TypeOK
    <3>2. Running /\ Running' = FALSE
      BY <3>1, <1>3
    <3>3. OperatorAt(s)!Choke
      BY <3>1, <3>2 DEF OperatorAt!Choke
    <3>. QED  BY <3>3 DEF OperatorAt!Next
  <2>. QED  BY <2>1, <2>2
<1>10. ASSUME NEW t \in Session, ReadDecision(t) PROVE Goal
  <2>1. UNCHANGED <<phase, systemId, peerUp, desk>> /\ answers[t] # <<>>
        /\ answers' = [answers EXCEPT ![t] = Tail(@)]
    BY <1>10 DEF ReadDecision
  <2>2. CASE t # s
    BY <2>1, <2>2, <1>1 DEF TypeOK
  <2>3. CASE t = s
    <3>1. answers'[s] = Tail(answers[s]) /\ Running' = Running
      BY <2>1, <2>3 DEF TypeOK
    <3>2. OperatorAt(s)!Collect
      BY <2>1, <2>3, <3>1 DEF OperatorAt!Collect
    <3>. QED  BY <3>2 DEF OperatorAt!Next
  <2>. QED  BY <2>2, <2>3
<1>11. ASSUME NEW o \in OperatorId, NEW img \in Image \cup {EmptyImage}, AssignTo(o, img) PROVE Goal
  <2>1. CASE AssignSendFails(o, img) \/ AssignNoSession(o, img)
    BY <2>1, <1>1 DEF AssignSendFails, AssignNoSession, peers
  <2>2. CASE AssignSends(o, img) \/ AssignSpawnFails(o, img)
    <3>1. /\ UNCHANGED <<phase, systemId, peerUp, answers>>
          /\ desk' = [desk EXCEPT ![operators_[o]] = IF peerUp[operators_[o]] THEN Append(@, img) ELSE @]
      BY <2>2 DEF AssignSends, AssignSpawnFails, Written
    <3>2. CASE operators_[o] # s \/ ~peerUp[s]
      <4>1. desk'[s] = desk[s]
        BY <3>1, <3>2 DEF TypeOK
      <4>. QED  BY <3>1, <4>1, <1>1
    <3>3. CASE operators_[o] = s /\ peerUp[s]
      <4>1. desk'[s] = Append(desk[s], img) /\ Running /\ Running' = Running
        BY <3>1, <3>3 DEF TypeOK
      <4>2. OperatorAt(s)!Put(img)
        BY <3>1, <4>1 DEF OperatorAt!Put
      <4>. QED  BY <4>2 DEF OperatorAt!Next
    <3>. QED  BY <3>2, <3>3
  <2>. QED  BY <1>11, <2>1, <2>2 DEF AssignTo
<1>12. CASE UNCHANGED <<systemId, peerUp, desk, answers>>
  BY <1>12, <1>1
<1>. QED
  <2>1. CASE Environment
    BY <2>1, <1>5, <1>6, <1>7, <1>8, <1>9, <1>12
    DEF Environment, Identify, ClientSends, ClockSet, peers
  <2>2. CASE Continue
    BY <2>2, <1>11, <1>12
    DEF Continue, HandshakeAborts, RegisterClient, RegisterOperator, registerOperator, AssignDone,
        AssignNobody, AssignAllBusy, AssignSpins, AssignReturns, peers
  <2>3. ASSUME NEW t \in Session, Dispatch(t) PROVE Goal
    BY <2>3, <1>10, <1>12
    DEF Dispatch, Accept, ReadImage, handleImage, ClientReadFails, OperatorReadFails, AbortedRead, peers
  <2>4. CASE UNCHANGED vars
    BY <2>4, <1>12 DEF vars, peers
  <2>. QED  BY <2>1, <2>2, <2>3, <2>4 DEF Next

\* No peer in the model of the server, and no read or write of the server,
\* goes beyond the contracts, which the models of the client program and of
\* the operator program are proved to implement.
THEOREM PeersAsAssumedCorrect == Spec => PeersAsAssumed
<1> DEFINE Step == \A s \in Session :
                      /\ UNCHANGED ClientAt(s)!clientVars \/ ClientAt(s)!Next
                      /\ UNCHANGED OperatorAt(s)!peerVars \/ OperatorAt(s)!Next
           Inits == \A s \in Session : ClientAt(s)!Init /\ OperatorAt(s)!Init
<1>1. Init => Inits
  <2> SUFFICES ASSUME Init, NEW s \in Session PROVE ClientAt(s)!Init /\ OperatorAt(s)!Init
    OBVIOUS
  <2>1. ClientAt(s)!Init
    BY Zenon DEF Init, ClientAt!Init, ClientStage, ClientUp, IsLive, ClientSent, ClientUnread, ClientGot
  <2>2. OperatorAt(s)!Init
    BY Zenon DEF Init, OperatorAt!Init
  <2>. QED  BY <2>1, <2>2
<1>2. /\ TypeOK /\ TypeOK' /\ SessionsHaveIds /\ SessionsHaveIds' /\ OnlyOperatorsOwe
      /\ ImagesInOnePlace /\ ImagesInOnePlace' /\ CurInHandshake
      /\ SendersEstablished /\ SendersEstablished'
      => ([Next]_vars => Step)
  BY ClientAtStep, OperatorAtStep
<1>. QED
  BY <1>1, <1>2, TypeCorrect, SessionsHaveIdsCorrect, OnlyOperatorsOweCorrect,
     ImagesInOnePlaceCorrect, CurInHandshakeCorrect, SendersEstablishedCorrect, PTL
  DEF Spec, PeersAsAssumed
=============================================================================
