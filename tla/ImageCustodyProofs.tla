------------------------- MODULE ImageCustodyProofs -------------------------
(***************************************************************************)
(* Theorems about what becomes of an assigned image: what gets as far as   *)
(* an operator is handled once, and an operator is lost with one image at  *)
(* most.                                                                   *)
(***************************************************************************)
EXTENDS ImageCustody, ImageServerSessionProofs, SequenceTheorems

\* The server's variables change as in ImageServer, whatever is recorded.
LEMMA CustodyImplementsServer == SpecC => Spec
<1>1. InitC => Init
  BY DEF InitC
<1>2. [Next /\ Record]_varsC => [Next]_vars
  BY DEF varsC
<1>. QED  BY <1>1, <1>2, PTL DEF SpecC, Spec

\* The three ways in which assignImages() takes image img for operator o.
Takes(o, img) == AssignSends(o, img) \/ AssignSendFails(o, img) \/ AssignSpawnFails(o, img)

\* The top of a queue is one image.
LEMMA TopIsTop ==
    ASSUME TypeOK, NEW img, IsTop(img)
    PROVE  TopImage = img
<1>1. imageQueue_ \subseteq Nat
  BY ConstantsOK DEF TypeOK, EmptyImage
<1>2. \A i \in imageQueue_ : IsTop(i) => i = img
  BY <1>1 DEF IsTop
<1>. QED  BY <1>2 DEF TopImage, IsTop

(***************************************************************************)
(* What is recorded: an image is given when it is taken for an operator,   *)
(* and to that one; a decision is judged when it is read.                  *)
(***************************************************************************)
LEMMA TakenIsGiven ==
    ASSUME TypeOK, HistoryOK, Record, NEW o \in OperatorId, NEW img, Takes(o, img)
    PROVE  /\ operators_[o] \in Session
           /\ given' = [given EXCEPT ![operators_[o]] = Append(@, img)]
           /\ opState[o] = "AVAILABLE" /\ opState' = [opState EXCEPT ![o] = "BUSY"]
<1>1. IsTop(img) /\ MarkBusy(o) /\ operators_[o] # Null /\ opState[o] = "AVAILABLE"
  BY DEF Takes, AssignSends, AssignSendFails, AssignSpawnFails, IsMostIdle, Idle, Available
<1>2. operators_[o] \in Session /\ opState' = [opState EXCEPT ![o] = "BUSY"]
  BY <1>1 DEF MarkBusy, TypeOK
<1>3. \A p \in OperatorId : opState[p] = "AVAILABLE" /\ opState'[p] = "BUSY" <=> p = o
  BY <1>1, <1>2 DEF TypeOK
<1>4. \A s \in Session : Assigned(s) <=> s = operators_[o]
  BY <1>3 DEF Assigned
<1>5. TopImage = img
  BY <1>1, TopIsTop
<1>6. given' = [s \in Session |-> IF s = operators_[o] THEN Append(given[s], img) ELSE given[s]]
  BY <1>4, <1>5, Zenon DEF Record
<1>7. given' = [given EXCEPT ![operators_[o]] = Append(@, img)]
  BY <1>6 DEF HistoryOK
<1>. QED  BY <1>1, <1>2, <1>7

LEMMA GivenStep ==
    ASSUME TypeOK, HistoryOK, [Next]_vars, Record
    PROVE  \/ given' = given
           \/ \E o \in OperatorId, img \in Image \cup {EmptyImage} :
                 /\ Takes(o, img) /\ operators_[o] \in Session
                 /\ given' = [given EXCEPT ![operators_[o]] = Append(@, img)]
                 /\ opState[o] = "AVAILABLE" /\ opState' = [opState EXCEPT ![o] = "BUSY"]
<1>1. CASE \E o \in OperatorId, img \in Image \cup {EmptyImage} : Takes(o, img)
  BY <1>1, TakenIsGiven
<1>2. CASE ~\E o \in OperatorId, img \in Image \cup {EmptyImage} : Takes(o, img)
  <2>1. ASSUME NEW p \in OperatorId, opState[p] = "AVAILABLE", opState'[p] = "BUSY" PROVE FALSE
    <3>1. CASE UNCHANGED opState
      BY <2>1, <3>1
    <3>2. CASE RegisterOperator
      BY <2>1, <3>2 DEF RegisterOperator, registerOperator, TypeOK
    <3>3. ASSUME NEW s \in Session, ReadDecision(s) \/ OperatorReadFails(s) PROVE FALSE
      BY <2>1, <3>3 DEF ReadDecision, OperatorReadFails, TypeOK
    <3>. QED
      BY <1>2, <3>1, <3>2, <3>3
         DEF Next, Environment, Continue, Dispatch, Takes, AssignTo, vars, opMap, Dial, Identify,
             ClientSends, OperatorDecides, OperatorChokes, PeerDies, LeavesEarly, ClockSet,
             HandshakeAborts, RegisterClient, AssignDone, AssignNobody, AssignAllBusy, AssignSpins,
             AssignReturns, AssignNoSession, Accept, ReadImage, handleImage, ClientReadFails,
             AbortedRead
  <2>2. given' = given
    BY <2>1 DEF Record, Assigned, HistoryOK
  <2>. QED  BY <2>2
<1>. QED  BY <1>1, <1>2

\* The histories are sequences of images, as their definitions say.
LEMMA HistoryCorrect == SpecC => []HistoryOK
<1>1. InitC => HistoryOK
  <2>1. <<>> \in Seq(Image \cup {EmptyImage})
    OBVIOUS
  <2>. QED  BY <2>1 DEF InitC, HistoryOK
<1>2. TypeOK /\ HistoryOK /\ [Next /\ Record]_varsC => HistoryOK'
  <2> SUFFICES ASSUME TypeOK, HistoryOK, [Next /\ Record]_varsC PROVE HistoryOK'
    OBVIOUS
  <2>1. CASE UNCHANGED varsC
    BY <2>1 DEF varsC, HistoryOK
  <2>2. CASE Next /\ Record
    <3>0. [Next]_vars /\ Record
      BY <2>2
    <3>1. given' \in [Session -> Seq(Image \cup {EmptyImage})]
      <4>1. CASE given' = given
        BY <4>1 DEF HistoryOK
      <4>2. CASE given' # given
        <5>1. PICK o \in OperatorId, img \in Image \cup {EmptyImage} :
                 /\ operators_[o] \in Session
                 /\ given' = [given EXCEPT ![operators_[o]] = Append(@, img)]
          BY <3>0, <4>2, GivenStep
        <5>2. Append(given[operators_[o]], img) \in Seq(Image \cup {EmptyImage})
          BY <5>1 DEF HistoryOK
        <5>. QED  BY <5>1, <5>2 DEF HistoryOK
      <4>. QED  BY <4>1, <4>2
    <3>2. judged' \in [Session -> Seq(Image \cup {EmptyImage})]
      <4>1. ASSUME NEW s \in Session, ReadDecision(s)
            PROVE  Append(judged[s], Head(answers[s])) \in Seq(Image \cup {EmptyImage})
        BY <4>1 DEF ReadDecision, TypeOK, HistoryOK
      <4>. QED  BY <2>2, <4>1 DEF Record, HistoryOK
    <3>. QED  BY <3>1, <3>2 DEF HistoryOK
  <2>. QED  BY <2>1, <2>2
<1>. QED  BY <1>1, <1>2, CustodyImplementsServer, TypeCorrect, PTL DEF SpecC

-----------------------------------------------------------------------------
(***************************************************************************)
(* Every received image is queued or was assigned, and one that got as far *)
(* as an operator is handled once. Nothing is assumed of the faults.       *)
(*                                                                         *)
(* First, the sequence of the images an operator handles: a decision, or   *)
(* its reading, moves an image within it, a loss takes away its end, and   *)
(* only an image that is written to the operator is added.                 *)
(***************************************************************************)
LEMMA HeadMoves ==
    ASSUME NEW S, NEW p \in Seq(S), NEW q \in Seq(S), q # <<>>
    PROVE  Append(p, Head(q)) \o Tail(q) = p \o q
<1>1. Head(q) \in S /\ Tail(q) \in Seq(S) /\ <<Head(q)>> \in Seq(S)
  BY HeadTailProperties
<1>2. Append(p, Head(q)) = p \o <<Head(q)>>
  BY <1>1, AppendIsConcat
<1>3. <<Head(q)>> \o Tail(q) = q
  BY <1>1
<1>. QED  BY <1>1, <1>2, <1>3, ConcatAssociative

LEMMA EndGrows ==
    ASSUME NEW S, NEW p \in Seq(S), NEW q \in Seq(S), NEW i \in S
    PROVE  p \o Append(q, i) = Append(p \o q, i)
<1>1. Append(q, i) = q \o <<i>> /\ <<i>> \in Seq(S) /\ p \o q \in Seq(S)
  BY AppendIsConcat, ConcatProperties
<1>2. Append(p \o q, i) = (p \o q) \o <<i>>
  BY <1>1, AppendIsConcat
<1>. QED  BY <1>1, <1>2, ConcatAssociative

LEMMA HandledType ==
    ASSUME TypeOK, HistoryOK, NEW s \in Session
    PROVE  /\ judged[s] \in Seq(Image \cup {EmptyImage})
           /\ answers[s] \in Seq(Image \cup {EmptyImage})
           /\ desk[s] \in Seq(Image \cup {EmptyImage})
           /\ judged[s] \o answers[s] \in Seq(Image \cup {EmptyImage})
           /\ Handled(s) \in Seq(Image \cup {EmptyImage})
<1>1. /\ judged[s] \in Seq(Image \cup {EmptyImage}) /\ answers[s] \in Seq(Image \cup {EmptyImage})
      /\ desk[s] \in Seq(Image \cup {EmptyImage})
  BY DEF TypeOK, HistoryOK
<1>2. judged[s] \o answers[s] \in Seq(Image \cup {EmptyImage})
  BY <1>1, ConcatProperties
<1>. QED  BY <1>1, <1>2, ConcatProperties DEF Handled

\* The step leaves of Handled(s) a beginning.
Shortens(s) ==
    /\ Len(Handled(s)') \in 0 .. Len(Handled(s))
    /\ \A n \in 1 .. Len(Handled(s)') : Handled(s)'[n] = Handled(s)[n]

\* What a peer does to its desk and its answers: nothing, it goes, it decides.
PeerActs(s) ==
    \/ desk'[s] = desk[s] /\ answers'[s] = answers[s]
    \/ desk'[s] = <<>> /\ answers'[s] \in {answers[s], <<>>}
    \/ /\ desk[s] # <<>> /\ desk'[s] = Tail(desk[s])
       /\ answers'[s] = Append(answers[s], Head(desk[s]))

LEMMA HandledKept ==
    ASSUME TypeOK, HistoryOK, Record, NEW s \in Session, ReadDecision(s) \/ PeerActs(s)
    PROVE  Shortens(s)
<1> DEFINE Shown == Image \cup {EmptyImage}
<1>t. /\ judged[s] \in Seq(Shown) /\ answers[s] \in Seq(Shown) /\ desk[s] \in Seq(Shown)
      /\ judged[s] \o answers[s] \in Seq(Shown) /\ Handled(s) \in Seq(Shown)
  BY HandledType
<1>1. ASSUME Handled(s)' = Handled(s) PROVE Shortens(s)
  BY <1>t, <1>1 DEF Shortens
<1>2. ASSUME NEW p \in Seq(Shown), NEW q \in Seq(Shown), Handled(s)' = p, Handled(s) = p \o q
      PROVE  Shortens(s)
  BY <1>2, ConcatProperties DEF Shortens
<1>3. CASE ReadDecision(s)
  <2>1. /\ answers[s] # <<>> /\ answers'[s] = Tail(answers[s]) /\ desk'[s] = desk[s]
        /\ judged'[s] = Append(judged[s], Head(answers[s]))
    BY <1>3 DEF ReadDecision, Record, TypeOK
  <2>2. judged'[s] \o answers'[s] = judged[s] \o answers[s]
    BY <1>t, <2>1, HeadMoves
  <2>. QED  BY <1>1, <2>1, <2>2 DEF Handled
<1>4. CASE ~ReadDecision(s)
  <2>1. judged'[s] = judged[s]
    BY <1>4 DEF Record
  <2>2. CASE desk'[s] = desk[s] /\ answers'[s] = answers[s]
    BY <1>1, <2>1, <2>2 DEF Handled
  <2>3. CASE desk'[s] = <<>> /\ answers'[s] = answers[s]
    <3>1. Handled(s)' = judged[s] \o answers[s]
      BY <1>t, <2>1, <2>3, ConcatEmptySeq DEF Handled
    <3>. QED  BY <1>t, <1>2, <3>1 DEF Handled
  <2>4. CASE desk'[s] = <<>> /\ answers'[s] = <<>>
    <3>1. Handled(s)' = judged[s]
      BY <1>t, <2>1, <2>4, ConcatEmptySeq DEF Handled
    <3>2. \A p, q, r \in Seq(Shown) : (p \o q) \o r = p \o (q \o r) /\ q \o r \in Seq(Shown)
      BY ConcatAssociative, ConcatProperties
    <3>3. Handled(s) = judged[s] \o (answers[s] \o desk[s]) /\ answers[s] \o desk[s] \in Seq(Shown)
      <4>1. PICK p \in Seq(Shown), q \in Seq(Shown), r \in Seq(Shown) :
               p = judged[s] /\ q = answers[s] /\ r = desk[s]
        BY <1>t
      <4>2. (p \o q) \o r = p \o (q \o r) /\ q \o r \in Seq(Shown)
        BY <3>2
      <4>. QED  BY <4>1, <4>2 DEF Handled
    <3>. QED  BY <1>t, <1>2, <3>1, <3>3
  <2>5. CASE /\ desk[s] # <<>> /\ desk'[s] = Tail(desk[s])
             /\ answers'[s] = Append(answers[s], Head(desk[s]))
    <3>1. Head(desk[s]) \in Shown
      BY <1>t, <2>5, HeadTailProperties
    <3>2. \A p, q \in Seq(Shown), i \in Shown : p \o Append(q, i) = Append(p \o q, i)
      BY EndGrows
    <3>3. judged'[s] \o answers'[s] = Append(judged[s] \o answers[s], Head(desk[s]))
      <4>1. PICK p \in Seq(Shown), q \in Seq(Shown), i \in Shown :
               p = judged[s] /\ q = answers[s] /\ i = Head(desk[s])
        BY <1>t, <3>1
      <4>2. p \o Append(q, i) = Append(p \o q, i)
        BY <3>2
      <4>. QED  BY <2>1, <2>5, <4>1, <4>2
    <3>4. Handled(s)' = Handled(s)
      BY <1>t, <2>5, <3>3, HeadMoves DEF Handled
    <3>. QED  BY <1>1, <3>4
  <2>. QED  BY <1>4, <2>2, <2>3, <2>4, <2>5 DEF PeerActs
<1>. QED  BY <1>3, <1>4

\* A step adds to what an operator handles only the image that it is sent.
LEMMA HandledStep ==
    ASSUME TypeOK, HistoryOK, [Next]_vars, Record
    PROVE  \/ \A s \in Session : Shortens(s)
           \/ \E o \in OperatorId, img \in Image \cup {EmptyImage}, d \in Session :
                 /\ Takes(o, img) /\ Written(o, img) /\ operators_[o] = d
                 /\ Handled(d)' = Append(Handled(d), img)
                 /\ \A s \in Session \ {d} : Shortens(s)
<1> DEFINE Shown == Image \cup {EmptyImage}
<1>1. ASSUME NEW o \in OperatorId, NEW img \in Shown, Takes(o, img)
      PROVE  \/ \A s \in Session : Shortens(s)
             \/ \E d \in Session :
                   /\ Written(o, img) /\ operators_[o] = d
                   /\ Handled(d)' = Append(Handled(d), img)
                   /\ \A s \in Session \ {d} : Shortens(s)
  <2>1. PICK d \in Session : d = operators_[o]
    BY <1>1, TakenIsGiven
  <2>2. /\ Written(o, img) /\ peerUp[d]
        \/ UNCHANGED <<desk, answers>>
    BY <1>1, <2>1 DEF Takes, AssignSends, AssignSendFails, AssignSpawnFails, Written, peers, TypeOK
  <2>3. CASE UNCHANGED <<desk, answers>>
    BY <2>3, HandledKept DEF PeerActs
  <2>4. CASE Written(o, img) /\ peerUp[d]
    <3>1. /\ answers' = answers /\ desk'[d] = Append(desk[d], img)
          /\ \A s \in Session \ {d} : desk'[s] = desk[s]
      BY <2>1, <2>4 DEF Written, TypeOK
    <3>2. judged'[d] = judged[d]
      BY <1>1 DEF Takes, AssignSends, AssignSendFails, AssignSpawnFails, ReadDecision, Record
    <3>3. Handled(d)' = Append(Handled(d), img)
      <4>1. \A p, q \in Seq(Shown), i \in Shown : p \o Append(q, i) = Append(p \o q, i)
        BY EndGrows
      <4>2. /\ judged[d] \o answers[d] \in Seq(Shown) /\ desk[d] \in Seq(Shown)
            /\ Handled(d)' = (judged[d] \o answers[d]) \o Append(desk[d], img)
        BY <3>1, <3>2, HandledType DEF Handled
      <4>. QED  BY <4>1, <4>2 DEF Handled
    <3>4. ASSUME NEW s \in Session \ {d} PROVE Shortens(s)
      <4>1. PeerActs(s)
        BY <3>1 DEF PeerActs
      <4>. QED  BY <4>1, HandledKept
    <3>. QED  BY <2>1, <2>4, <3>3, <3>4
  <2>. QED  BY <2>2, <2>3, <2>4
<1>2. ASSUME NEW s \in Session, ~\E o \in OperatorId, img \in Shown : Takes(o, img)
      PROVE  ReadDecision(s) \/ PeerActs(s)
  <2>1. ASSUME NEW t \in Session,
               OperatorDecides(t) \/ OperatorChokes(t) \/ PeerDies(t) \/ ReadDecision(t)
        PROVE  ReadDecision(s) \/ PeerActs(s)
    BY <2>1 DEF OperatorDecides, OperatorChokes, PeerDies, ReadDecision, PeerActs, TypeOK
  <2>2. \/ \E t \in Session :
              OperatorDecides(t) \/ OperatorChokes(t) \/ PeerDies(t) \/ ReadDecision(t)
        \/ UNCHANGED <<desk, answers>>
    BY <1>2
       DEF Next, Environment, Continue, Dispatch, Takes, AssignTo, peers, Dial, Identify,
           ClientSends, LeavesEarly, ClockSet, HandshakeAborts, RegisterClient, RegisterOperator,
           AssignDone, AssignNobody, AssignAllBusy, AssignSpins, AssignReturns, AssignNoSession,
           Accept, ReadImage, handleImage, ClientReadFails, OperatorReadFails, AbortedRead, vars
  <2>. QED  BY <2>1, <2>2 DEF PeerActs
<1>. QED  BY <1>1, <1>2, HandledKept

\* What a step may do to the queue: an image leaves it by being taken, comes in
\* off a client socket, and a delivered one does not come back.
LEMMA QueueStep ==
    ASSUME TypeOK, ImagesInOnePlace, [Next]_vars
    PROVE  /\ delivered \ imageQueue_ \subseteq delivered' \ imageQueue_'
           /\ \A o \in OperatorId, img \in Image \cup {EmptyImage} : Takes(o, img) =>
                 /\ received' = received /\ imageQueue_ \ {img} \subseteq imageQueue_'
                 /\ Written(o, img) =>
                       /\ img \in imageQueue_
                       /\ img \in {EmptyImage} \cup (delivered' \ imageQueue_')
           /\ \/ \E o \in OperatorId, img \in Image \cup {EmptyImage} : Takes(o, img)
              \/ imageQueue_ \subseteq imageQueue_' /\ received' \ received \subseteq imageQueue_'
<1>t. /\ delivered \cap imageQueue_ = {} /\ delivered \subseteq received
      /\ EmptyImage \notin received /\ imageQueue_ \subseteq received \cup {EmptyImage}
  <2>1. EmptyImage \notin Image
    BY ConstantsOK
  <2>2. received \subseteq Image
    BY DEF TypeOK
  <2>3. delivered \subseteq received \ imageQueue_ /\ imageQueue_ \subseteq received \cup {EmptyImage}
    BY DEF ImagesInOnePlace
  <2>. QED  BY <2>1, <2>2, <2>3
<1>1. ASSUME NEW o \in OperatorId, NEW img \in Image \cup {EmptyImage}, Takes(o, img)
      PROVE  /\ received' = received /\ img \in imageQueue_
             /\ imageQueue_' \in {imageQueue_ \ {img}, (imageQueue_ \ {img}) \cup {EmptyImage}}
             /\ delivered' \in {delivered, (delivered \cup {img}) \ {EmptyImage}}
  BY <1>1 DEF Takes, AssignSends, AssignSendFails, AssignSpawnFails, CatchFailure, Written, IsTop,
              history
<1>2. ASSUME NEW o \in OperatorId, NEW img \in Image \cup {EmptyImage}, Takes(o, img), Written(o, img)
      PROVE  img \in {EmptyImage} \cup (delivered' \ imageQueue_')
  BY <1>1, <1>2 DEF Written
<1>3. CASE \E o \in OperatorId, img \in Image \cup {EmptyImage} : Takes(o, img)
  BY <1>t, <1>1, <1>2, <1>3
<1>4. CASE ~\E o \in OperatorId, img \in Image \cup {EmptyImage} : Takes(o, img)
  <2>1. ASSUME NEW s \in Session, ReadImage(s)
        PROVE  \E i \in Image : /\ i \notin received /\ delivered' = delivered
                                /\ imageQueue_' = imageQueue_ \cup {i} /\ received' = received \cup {i}
    BY <2>1 DEF ReadImage, handleImage, ImagesInOnePlace, TypeOK
  <2>2. (\E s \in Session : ReadImage(s)) \/ UNCHANGED <<received, imageQueue_, delivered>>
    BY <1>4
       DEF Next, Environment, Continue, Dispatch, Takes, AssignTo, history, vars, Dial, Identify,
           ClientSends, OperatorDecides, OperatorChokes, PeerDies, LeavesEarly, ClockSet,
           HandshakeAborts, RegisterClient, RegisterOperator, AssignDone, AssignNobody,
           AssignAllBusy, AssignSpins, AssignReturns, AssignNoSession, Accept, ReadDecision,
           ClientReadFails, OperatorReadFails, AbortedRead
  <2>. QED  BY <1>t, <1>4, <2>1, <2>2
<1>. QED  BY <1>3, <1>4

THEOREM HandledOnceCorrect == SpecC => []HandledOnce
<1> DEFINE Shown == Image \cup {EmptyImage}
<1>1. InitC => HandledOnce
  <2>1. ASSUME InitC, NEW s \in Session PROVE Handled(s) = <<>>
    <3>1. judged[s] = <<>> /\ answers[s] = <<>> /\ desk[s] = <<>> /\ <<>> \o <<>> = <<>>
      BY <2>1 DEF InitC, Init
    <3>. QED  BY <3>1 DEF Handled
  <2>2. ASSUME InitC, NEW s \in Session PROVE 1 .. Len(Handled(s)) = {}
    <3>1. Len(Handled(s)) = 0
      BY <2>1, <2>2
    <3>. QED  BY <3>1
  <2>. QED  BY <2>2 DEF InitC, Init, HandledOnce
<1>2. TypeOK /\ HistoryOK /\ ImagesInOnePlace /\ HandledOnce /\ [Next /\ Record]_varsC
      => HandledOnce'
  <2> SUFFICES ASSUME TypeOK, HistoryOK, ImagesInOnePlace, HandledOnce, [Next /\ Record]_varsC
               PROVE  HandledOnce'
    OBVIOUS
  <2>1. CASE UNCHANGED varsC
    <3>1. UNCHANGED <<received, imageQueue_, delivered, given, judged, answers, desk>>
      BY <2>1 DEF varsC, vars, history, peers
    <3>2. \A s \in Session : Handled(s)' = Handled(s) /\ GivenTo(s)' = GivenTo(s)
      BY <3>1 DEF Handled, GivenTo
    <3>. QED  BY <3>1, <3>2 DEF HandledOnce
  <2>2. CASE Next /\ Record
    <3>0. [Next]_vars /\ Record
      BY <2>2
    <3>t. \A s \in Session : given[s] \in Seq(Shown) /\ Handled(s) \in Seq(Shown)
      BY HandledType DEF HistoryOK
    <3>1. \A i \in received' : i \in imageQueue_' \/ \E s \in Session : i \in GivenTo(s)'
      <4>1. ASSUME NEW o \in OperatorId, NEW img \in Shown, Takes(o, img)
            PROVE  /\ \A s \in Session : GivenTo(s) \subseteq GivenTo(s)'
                   /\ \E s \in Session : img \in GivenTo(s)'
        <5>1. PICK d \in Session : /\ d = operators_[o]
                                   /\ given' = [given EXCEPT ![d] = Append(@, img)]
          BY <3>0, <4>1, TakenIsGiven
        <5>2. /\ \A s \in Session \ {d} : given'[s] = given[s]
              /\ given'[d] = Append(given[d], img)
          BY <5>1 DEF HistoryOK
        <5>3. /\ Len(given'[d]) = Len(given[d]) + 1 /\ Len(given[d]) \in Nat
              /\ given'[d][Len(given[d]) + 1] = img
              /\ \A n \in 1 .. Len(given[d]) : given'[d][n] = given[d][n]
          BY <3>t, <5>2, AppendProperties
        <5>4. GivenTo(d) \subseteq GivenTo(d)' /\ img \in GivenTo(d)'
          BY <5>3 DEF GivenTo
        <5>. QED  BY <5>2, <5>4 DEF GivenTo
      <4>2. CASE \E o \in OperatorId, img \in Shown : Takes(o, img)
        BY <3>0, <4>1, <4>2, QueueStep DEF HandledOnce
      <4>3. CASE ~\E o \in OperatorId, img \in Shown : Takes(o, img)
        <5>1. given' = given
          BY <3>0, <4>3, GivenStep, Zenon
        <5>. QED  BY <3>0, <4>3, <5>1, QueueStep DEF HandledOnce, GivenTo
      <4>. QED  BY <4>2, <4>3
    <3>2. \A s, t \in Session : \A m \in 1 .. Len(Handled(s)), n \in 1 .. Len(Handled(t)) :
             Handled(s)[m] = Handled(t)[n] /\ Handled(s)[m] # EmptyImage => s = t /\ m = n
      BY DEF HandledOnce
    <3>3. \A s \in Session : \A n \in 1 .. Len(Handled(s)) :
             Handled(s)[n] \in {EmptyImage} \cup (delivered \ imageQueue_)
      BY DEF HandledOnce
    <3>4. delivered \ imageQueue_ \subseteq delivered' \ imageQueue_'
      BY <3>0, QueueStep
    <3>5. CASE \A s \in Session : Shortens(s)
      <4>1. \A s \in Session : \A n \in 1 .. Len(Handled(s)') :
               n \in 1 .. Len(Handled(s)) /\ Handled(s)'[n] = Handled(s)[n]
        BY <3>t, <3>5 DEF Shortens
      <4>. QED  BY <3>1, <3>2, <3>3, <3>4, <4>1 DEF HandledOnce
    <3>6. ASSUME NEW o \in OperatorId, NEW img \in Shown, NEW d \in Session,
                 Takes(o, img), Written(o, img), Handled(d)' = Append(Handled(d), img),
                 \A s \in Session \ {d} : Shortens(s)
          PROVE  HandledOnce'
      <4> DEFINE New(u, k) == u = d /\ k = Len(Handled(d)) + 1 /\ Handled(u)'[k] = img
                 Old(u, k) == k \in 1 .. Len(Handled(u)) /\ Handled(u)'[k] = Handled(u)[k]
      <4>1. ASSUME NEW u \in Session, NEW k \in 1 .. Len(Handled(u)') PROVE New(u, k) \/ Old(u, k)
        <5>1. CASE u # d
          BY <3>t, <3>6, <5>1 DEF Shortens
        <5>2. CASE u = d
          <6>1. /\ Len(Handled(d)') = Len(Handled(d)) + 1 /\ Len(Handled(d)) \in Nat
                /\ Handled(d)'[Len(Handled(d)) + 1] = img
                /\ \A n \in 1 .. Len(Handled(d)) : Handled(d)'[n] = Handled(d)[n]
            BY <3>t, <3>6, AppendProperties
          <6>. QED  BY <5>2, <6>1
        <5>. QED  BY <5>1, <5>2
      <4>2. /\ img \in imageQueue_
            /\ img \in {EmptyImage} \cup (delivered' \ imageQueue_')
        BY <3>0, <3>6, QueueStep
      <4>3. ASSUME NEW u \in Session, NEW k, Old(u, k) PROVE Handled(u)'[k] # img \/ img = EmptyImage
        BY <3>3, <4>2, <4>3
      <4>4. \A u \in Session : \A k \in 1 .. Len(Handled(u)') :
               Handled(u)'[k] \in {EmptyImage} \cup (delivered' \ imageQueue_')
        BY <3>3, <3>4, <4>1, <4>2
      <4>5. ASSUME NEW s \in Session, NEW t \in Session,
                   NEW m \in 1 .. Len(Handled(s)'), NEW n \in 1 .. Len(Handled(t)'),
                   Handled(s)'[m] = Handled(t)'[n], Handled(s)'[m] # EmptyImage
            PROVE  s = t /\ m = n
        <5>1. (New(s, m) \/ Old(s, m)) /\ (New(t, n) \/ Old(t, n))
          BY <4>1
        <5>2. CASE New(s, m) /\ New(t, n)
          BY <5>2
        <5>3. CASE New(s, m) /\ Old(t, n)
          BY <4>3, <4>5, <5>3
        <5>4. CASE Old(s, m) /\ New(t, n)
          BY <4>3, <4>5, <5>4
        <5>5. CASE Old(s, m) /\ Old(t, n)
          <6>1. /\ m \in 1 .. Len(Handled(s)) /\ n \in 1 .. Len(Handled(t))
                /\ Handled(s)[m] = Handled(t)[n] /\ Handled(s)[m] # EmptyImage
            BY <4>5, <5>5, Zenon
          <6>. QED  BY <3>2, <6>1
        <5>. QED  BY <5>1, <5>2, <5>3, <5>4, <5>5
      <4>. QED  BY <3>1, <4>4, <4>5 DEF HandledOnce
    <3>. QED  BY <3>0, <3>5, <3>6, HandledStep
  <2>. QED  BY <2>1, <2>2
<1>. QED
  BY <1>1, <1>2, CustodyImplementsServer, TypeCorrect, HistoryCorrect, ImagesInOnePlaceCorrect, PTL
     DEF SpecC

-----------------------------------------------------------------------------
(***************************************************************************)
(* The image an operator was assigned last is on its desk, its answer on   *)
(* the way, decided, or lost with a send or with the operator; all earlier *)
(* ones are decided. It needs no lengths: an operator that is AVAILABLE    *)
(* has decided all it was assigned, so nothing of it is on the way.        *)
(***************************************************************************)
LEMMA AppendDiffers ==
    ASSUME NEW S, NEW q \in Seq(S), NEW i \in S
    PROVE  Append(q, i) # q
<1>1. Len(Append(q, i)) = Len(q) + 1 /\ Len(q) \in Nat
  OBVIOUS
<1>. QED  BY <1>1

\* Nothing is on its way to or from a session that has decided all.
LEMMA NothingOnItsWay ==
    ASSUME HistoryOK, NEW s \in Session, LastOnItsWay(s), given[s] = judged[s]
    PROVE  desk[s] = <<>> /\ answers[s] = <<>>
<1>1. judged[s] \in Seq(Image \cup {EmptyImage})
  BY DEF HistoryOK
<1>2. ~\E i \in Image \cup {EmptyImage} : given[s] = Append(judged[s], i)
  BY <1>1, AppendDiffers
<1>. QED  BY <1>2 DEF LastOnItsWay

\* What is on the way stays so when the histories do and the peer, at most,
\* decides or goes.
LEMMA PeerKeepsLast ==
    ASSUME NEW s \in Session, LastOnItsWay(s), given'[s] = given[s], judged'[s] = judged[s],
           \/ desk'[s] = desk[s] /\ answers'[s] = answers[s]
           \/ desk'[s] = <<>> /\ answers'[s] \in {answers[s], <<>>}
           \/ /\ desk[s] # <<>> /\ desk'[s] = Tail(desk[s])
              /\ answers'[s] = Append(answers[s], Head(desk[s]))
    PROVE  LastOnItsWay(s)'
<1>1. CASE given[s] = judged[s] /\ desk[s] = <<>> /\ answers[s] = <<>>
  BY <1>1 DEF LastOnItsWay
<1>2. CASE ~(given[s] = judged[s] /\ desk[s] = <<>> /\ answers[s] = <<>>)
  <2>1. PICK i \in Image \cup {EmptyImage} :
           /\ given[s] = Append(judged[s], i)
           /\ \/ desk[s] = <<>> /\ answers[s] \in {<<>>, <<i>>}
              \/ desk[s] = <<i>> /\ answers[s] = <<>>
    BY <1>2 DEF LastOnItsWay
  <2>2. Tail(<<i>>) = <<>> /\ Append(<<>>, i) = <<i>> /\ Head(<<i>>) = i
    OBVIOUS
  <2>3. \/ desk'[s] = <<>> /\ answers'[s] \in {<<>>, <<i>>}
        \/ desk'[s] = <<i>> /\ answers'[s] = <<>>
    BY <2>1, <2>2
  <2>. QED  BY <2>1, <2>3 DEF LastOnItsWay
<1>. QED  BY <1>1, <1>2

THEOREM AtMostOneUndecidedCorrect == SpecC => []AtMostOneUndecided
<1>1. InitC => CustodyInv
  BY DEF InitC, Init, CustodyInv, LastOnItsWay, Available, Operators
<1>2. /\ TypeOK /\ HistoryOK /\ SessionsHaveIds /\ MapsHoldOpenSessions /\ MapsAgree
      /\ OnlyOperatorsOwe /\ CustodyInv /\ [Next /\ Record]_varsC
      => CustodyInv'
  <2>1. CASE ~Absent({"overlap"})
    BY <2>1 DEF CustodyInv
  <2> SUFFICES ASSUME TypeOK, HistoryOK, SessionsHaveIds, MapsHoldOpenSessions, MapsAgree,
                      OnlyOperatorsOwe, CustodyInv, [Next /\ Record]_varsC, Absent({"overlap"})
               PROVE  /\ \A s \in Session : LastOnItsWay(s)'
                      /\ \A s \in Session : phase'[s] \notin Established => given'[s] = judged'[s]
                      /\ \A o \in Available' : given'[operators_'[o]] = judged'[operators_'[o]]
    BY <2>1 DEF CustodyInv
  <2>t. /\ \A s \in Session : LastOnItsWay(s)
        /\ \A s \in Session : phase[s] \notin Established => given[s] = judged[s]
        /\ \A o \in Available : given[operators_[o]] = judged[operators_[o]]
        /\ \A o \in OperatorId : operators_[o] # Null => operators_[o] \in Session
        /\ Available = {o \in OperatorId : opState[o] = "AVAILABLE"}
        /\ Available' = {o \in OperatorId : opState'[o] = "AVAILABLE"}
    BY DEF CustodyInv, TypeOK, Available, Operators
  <2>o. \A o \in OperatorId : opState[o] # "absent" =>
           operators_[o] \in Session /\ systemId[operators_[o]] = o /\ phase[operators_[o]] = "open"
    BY <2>t DEF MapsAgree, MapsHoldOpenSessions, SessionsHaveIds
  <2> DEFINE Shown == Image \cup {EmptyImage}
  <2>2. CASE UNCHANGED varsC
    <3>1. UNCHANGED <<given, judged, desk, answers, phase, opState, operators_>>
      BY <2>2 DEF varsC, vars, peers, opMap
    <3>2. \A s \in Session : LastOnItsWay(s)'
      BY <2>t, <3>1 DEF LastOnItsWay
    <3>. QED  BY <2>t, <3>1, <3>2
  <2>3. CASE Next /\ Record
    <3>0. [Next]_vars /\ Record /\ Next
      BY <2>3
    <3>1. \A s \in Session :
             judged'[s] = IF ReadDecision(s) THEN Append(judged[s], Head(answers[s])) ELSE judged[s]
      BY <2>3 DEF Record
    <3>2. ASSUME NEW s \in Session, given'[s] # given[s]
          PROVE  \E o \in OperatorId, img \in Shown :
                    /\ Takes(o, img) /\ operators_[o] = s /\ given'[s] = Append(given[s], img)
                    /\ opState[o] = "AVAILABLE" /\ opState'[o] = "BUSY"
      <4>1. PICK o \in OperatorId, img \in Shown :
               /\ Takes(o, img) /\ operators_[o] \in Session
               /\ given' = [given EXCEPT ![operators_[o]] = Append(@, img)]
               /\ opState[o] = "AVAILABLE" /\ opState' = [opState EXCEPT ![o] = "BUSY"]
        BY <3>0, <3>2, GivenStep
      <4>2. operators_[o] = s
        BY <3>2, <4>1 DEF HistoryOK
      <4>. QED  BY <4>1, <4>2 DEF HistoryOK, TypeOK
    <3>3. ASSUME NEW s \in Session, phase[s] # "open"
          PROVE  given'[s] = given[s] /\ judged'[s] = judged[s]
      <4>1. ~ReadDecision(s)
        BY <3>3 DEF ReadDecision
      <4>2. given'[s] = given[s]
        BY <2>o, <3>2, <3>3
      <4>. QED  BY <3>1, <4>1, <4>2
    <3>4. ASSUME NEW s \in Session, ReadDecision(s)
          PROVE  LastOnItsWay(s)' /\ given'[s] = judged'[s]
      <4>1. /\ answers[s] # <<>> /\ pc = "poll" /\ desk' = desk
            /\ answers' = [answers EXCEPT ![s] = Tail(@)]
        BY <3>4 DEF ReadDecision
      <4>2. given'[s] = given[s]
        BY <3>2, <4>1 DEF Takes, AssignSends, AssignSendFails, AssignSpawnFails
      <4>3. PICK i \in Shown : given[s] = Append(judged[s], i) /\ desk[s] = <<>> /\ answers[s] = <<i>>
        BY <2>t, <4>1 DEF LastOnItsWay
      <4>4. Head(<<i>>) = i /\ Tail(<<i>>) = <<>>
        OBVIOUS
      <4>5. judged'[s] = given'[s]
        BY <3>1, <3>4, <4>2, <4>3, <4>4
      <4>6. answers'[s] = <<>> /\ desk'[s] = <<>>
        BY <4>1, <4>3, <4>4 DEF TypeOK
      <4>. QED  BY <4>5, <4>6 DEF LastOnItsWay
    <3>5. ASSUME NEW s \in Session, ~ReadDecision(s), given'[s] # given[s] PROVE LastOnItsWay(s)'
      <4>1. PICK o \in OperatorId, img \in Shown :
               /\ Takes(o, img) /\ operators_[o] = s /\ given'[s] = Append(given[s], img)
               /\ opState[o] = "AVAILABLE"
        BY <3>2, <3>5
      <4>2. given[s] = judged[s]
        BY <2>t, <4>1
      <4>3. desk[s] = <<>> /\ answers[s] = <<>>
        BY <2>t, <4>2, NothingOnItsWay
      <4>4. answers' = answers /\ (desk'[s] = desk[s] \/ desk'[s] = Append(desk[s], img))
        BY <4>1 DEF Takes, AssignSends, AssignSendFails, AssignSpawnFails, Written, peers, TypeOK
      <4>5. Append(<<>>, img) = <<img>>
        OBVIOUS
      <4>6. given'[s] = Append(judged'[s], img)
        BY <3>1, <3>5, <4>1, <4>2
      <4>. QED  BY <4>3, <4>4, <4>5, <4>6 DEF LastOnItsWay
    <3>6. ASSUME NEW s \in Session, ~ReadDecision(s), given'[s] = given[s] PROVE LastOnItsWay(s)'
      <4> DEFINE Kept ==
                   \/ desk'[s] = desk[s] /\ answers'[s] = answers[s]
                   \/ desk'[s] = <<>> /\ answers'[s] \in {answers[s], <<>>}
                   \/ /\ desk[s] # <<>> /\ desk'[s] = Tail(desk[s])
                      /\ answers'[s] = Append(answers[s], Head(desk[s]))
      <4>1. ASSUME NEW t \in Session,
                   OperatorDecides(t) \/ OperatorChokes(t) \/ PeerDies(t) \/ ReadDecision(t)
            PROVE  Kept
        BY <3>6, <4>1 DEF OperatorDecides, OperatorChokes, PeerDies, ReadDecision, TypeOK
      <4>2. ASSUME NEW o \in OperatorId, NEW img \in Shown, Takes(o, img) PROVE Kept
        <5>1. operators_[o] # s
          <6>1. operators_[o] = s => given'[s] = Append(given[s], img)
            BY <3>0, <4>2, TakenIsGiven DEF HistoryOK
          <6>. QED  BY <3>6, <6>1, AppendDiffers DEF HistoryOK
        <5>. QED
          BY <4>2, <5>1 DEF Takes, AssignSends, AssignSendFails, AssignSpawnFails, Written, peers, TypeOK
      <4>3. \/ \E t \in Session :
                  OperatorDecides(t) \/ OperatorChokes(t) \/ PeerDies(t) \/ ReadDecision(t)
            \/ \E o \in OperatorId, img \in Shown : Takes(o, img)
            \/ UNCHANGED <<desk, answers>>
        BY <3>0
           DEF Next, Environment, Continue, Dispatch, Takes, AssignTo, peers, Dial, Identify,
               ClientSends, LeavesEarly, ClockSet, HandshakeAborts, RegisterClient,
               RegisterOperator, registerOperator,
               AssignDone, AssignNobody, AssignAllBusy, AssignSpins, AssignReturns, AssignNoSession,
               Accept, ReadImage, handleImage, ClientReadFails, OperatorReadFails, AbortedRead
      <4>4. Kept
        BY <4>1, <4>2, <4>3
      <4>. QED  BY <2>t, <3>1, <3>6, <4>4, PeerKeepsLast
    <3>7. \A s \in Session : LastOnItsWay(s)'
      BY <3>4, <3>5, <3>6
    <3>8. ASSUME NEW s \in Session, phase'[s] \notin Established PROVE given'[s] = judged'[s]
      <4>1. phase[s] \notin Established
        BY <3>0, <3>8, SessionsAge DEF Established
      <4>. QED  BY <2>t, <3>3, <4>1 DEF Established
    <3>9. ASSUME NEW o \in OperatorId, opState'[o] = "AVAILABLE"
          PROVE  given'[operators_'[o]] = judged'[operators_'[o]]
      <4>1. ASSUME NEW s \in Session, ReadDecision(s), systemId[s] = o
            PROVE  given'[operators_'[o]] = judged'[operators_'[o]]
        <5>1. operators_'[o] = s
          BY <4>1 DEF ReadDecision, MapsHoldOpenSessions
        <5>. QED  BY <3>4, <4>1, <5>1
      <4>2. CASE RegisterOperator /\ systemId[cur] = o
        <5>1. operators_'[o] = cur /\ phase[cur] = "identified" /\ cur \in Session
          BY <4>2 DEF RegisterOperator, registerOperator, SessionsHaveIds, TypeOK
        <5>. QED  BY <2>t, <3>3, <5>1 DEF Established
      <4>3. CASE /\ ~(RegisterOperator /\ systemId[cur] = o)
                 /\ \A s \in Session : ReadDecision(s) => systemId[s] # o
        <5>1. opState[o] = "AVAILABLE" /\ operators_'[o] = operators_[o]
          <6> DEFINE Same == opState[o] = "AVAILABLE" /\ operators_'[o] = operators_[o]
          <6>1. CASE UNCHANGED <<opState, operators_>>
            BY <3>9, <6>1
          <6>2. CASE RegisterOperator
            <7>1. systemId[cur] # o
              BY <4>3, <6>2
            <7>. QED  BY <3>9, <6>2, <7>1 DEF RegisterOperator, registerOperator, TypeOK
          <6>3. ASSUME NEW t \in Session, ReadDecision(t) PROVE Same
            <7>1. systemId[t] # o
              BY <4>3, <6>3
            <7>. QED  BY <3>9, <6>3, <7>1 DEF ReadDecision, TypeOK
          <6>4. ASSUME NEW t \in Session, OperatorReadFails(t) PROVE Same
            BY <3>9, <6>4 DEF OperatorReadFails, TypeOK
          <6>5. ASSUME NEW p \in OperatorId, NEW img \in Shown, AssignTo(p, img) PROVE Same
            BY <3>9, <6>5 DEF AssignTo, AssignSends, AssignSendFails, AssignSpawnFails,
                              AssignNoSession, MarkBusy, opMap, TypeOK
          <6>. QED
            BY <3>0, <6>1, <6>2, <6>3, <6>4, <6>5
               DEF Next, Environment, Continue, Dispatch, opMap, Dial, Identify, ClientSends,
                   OperatorDecides, OperatorChokes, PeerDies, LeavesEarly, ClockSet,
                   HandshakeAborts, RegisterClient, AssignDone, AssignNobody, AssignAllBusy,
                   AssignSpins, AssignReturns, Accept, ReadImage, handleImage, ClientReadFails,
                   AbortedRead
        <5>2. PICK s \in Session : s = operators_[o]
          BY <2>o, <5>1
        <5>3. ~ReadDecision(s)
          BY <2>o, <4>3, <5>1, <5>2
        <5>4. given'[s] = given[s]
          <6> SUFFICES ASSUME given'[s] # given[s] PROVE FALSE
            OBVIOUS
          <6>1. PICK p \in OperatorId : operators_[p] = s /\ opState[p] = "AVAILABLE" /\ opState'[p] = "BUSY"
            BY <3>2
          <6>2. systemId[operators_[p]] = p /\ systemId[operators_[o]] = o
            BY <2>o, <5>1, <6>1
          <6>. QED  BY <3>9, <5>2, <6>1, <6>2
        <5>. QED  BY <2>t, <3>1, <5>1, <5>2, <5>3, <5>4
      <4>. QED  BY <4>1, <4>2, <4>3
    <3>. QED  BY <2>t, <3>7, <3>8, <3>9
  <2>. QED  BY <2>2, <2>3
<1>3. HistoryOK /\ CustodyInv => AtMostOneUndecided
  <2> SUFFICES ASSUME HistoryOK, CustodyInv, Absent({"overlap"}), NEW s \in Session,
                      given[s] # judged[s]
               PROVE  \E i \in GivenTo(s) : given[s] = Append(judged[s], i)
    BY DEF CustodyInv, AtMostOneUndecided
  <2>1. PICK i \in Image \cup {EmptyImage} : given[s] = Append(judged[s], i)
    BY DEF CustodyInv, LastOnItsWay
  <2>2. judged[s] \in Seq(Image \cup {EmptyImage})
    BY DEF HistoryOK
  <2>3. Len(given[s]) \in 1 .. Len(given[s]) /\ given[s][Len(given[s])] = i
    BY <2>1, <2>2
  <2>4. i \in GivenTo(s)
    BY <2>3 DEF GivenTo
  <2>. QED  BY <2>1, <2>4
<1>. QED
  BY <1>1, <1>2, <1>3, CustodyImplementsServer, TypeCorrect, HistoryCorrect,
     SessionsHaveIdsCorrect, MapsCorrect, OnlyOperatorsOweCorrect, PTL DEF SpecC
=============================================================================
