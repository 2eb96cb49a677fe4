------------------------- MODULE ClientSessionProofs -------------------------
(***************************************************************************)
(* Proofs about ClientSession, for every number of images and commands,    *)
(* every over-read of the handshake and every choice of odd images.        *)
(*                                                                         *)
(* Placed says where the cells are: the client writes whole frames, so     *)
(* that its bound is met exactly, and nothing happens before it connects.  *)
(* HandedOn, Kept and Follows strengthen the three properties that are not *)
(* inductive: an image is handed on when its last cell is consumed, the    *)
(* read loop of a regular session stands where its state says, and the     *)
(* last command on its way is the last one that was told.                  *)
(***************************************************************************)
EXTENDS ClientSession, SequenceTheorems, TLAPS

WholeFrames == written = 0 \/ \E k \in 0..MaxImages : written = EndOf(k)

Placed ==
    /\ WholeFrames
    /\ pc \in {"connect", "identify"} => written = 0
    /\ link = "up" /\ pc \in {"check", "rest", "wait"} => written # 0
    /\ session = "none" <=> pc = "connect"
    /\ link = "none" <=> pc = "connect"

HandedOn == \A i \in DOMAIN received : EndOf(received[i]) <= consumed

\* Until its handshake ends, a session has no name.
Nameless == session \in {"none", "handshake"} => systemId = "none"

\* Where a regular session stands.
Kept ==
    /\ session \in {"none", "handshake"} => written <= Identity
    /\ session = "length" => \E k \in 0..MaxImages : consumed = EndOf(k)
    /\ session = "body" => \E k \in 0..MaxImages : consumed = EndOf(k) + 1
    /\ session # "lost"

Follows ==
    /\ pc = "connect" => ~paused /\ told = "nothing" /\ cmds = <<>>
    /\ link = "up" /\ sbKeepConnection =>
         IF cmds = <<>> THEN paused <=> told = "PAUSE" ELSE cmds[Len(cmds)] = told

-----------------------------------------------------------------------------

\* Where an image ends, in a form that the provers take.
LEMMA EndOfType ==
    \A k \in Nat : EndOf(k) \in Nat /\ EndOf(k) = 4 + 3 * k
BY DEF EndOf, Identity, Frame

LEMMA ClientInitType == Init => TypeOK
<1> USE ClientAssumption DEF Images, Reading
<1>1. EndOf(MaxImages) \in Nat
  BY EndOfType
<1>2. Init => /\ consumed \in 0..written /\ written \in 0..EndOf(MaxImages)
              /\ cmds \in Seq({"PAUSE", "RESUME"}) /\ Len(cmds) <= MaxCommands
              /\ received \in Seq(Images)
  BY <1>1 DEF Init
<1>3. Init => newline \in BOOLEAN /\ late \in BOOLEAN
  BY Zenon DEF Init
<1>4. Init => sincePause \in 0..2
  BY DEF Init
<1>. QED  BY <1>2, <1>3, <1>4 DEF Init, TypeOK

\* Every state is of its type; the cells written are whole frames.
THEOREM ClientTypeCorrect == Spec => [](TypeOK /\ Placed)
<1> USE ClientAssumption DEF Images, Reading, Frame, Identity, WholeFrames
<1>1. Init => TypeOK /\ Placed
  <2>1. Init => TypeOK
    BY ClientInitType
  <2>. QED  BY <2>1 DEF Init, Placed
<1>2. TypeOK /\ Placed /\ [Next]_vars => TypeOK' /\ Placed'
  <2> SUFFICES ASSUME TypeOK, Placed, [Next]_vars
               PROVE  TypeOK' /\ Placed'
    OBVIOUS
  <2> USE DEF TypeOK, Placed
  <2>0. EndOf(MaxImages) \in Nat /\ EndOf(MaxImages) = 4 + 3 * MaxImages /\ EndOf(0) = 4
    BY EndOfType
  <2>1. CASE Connect
    BY <2>1 DEF Connect, flags, down, history
  <2>2. CASE NoFolder
    BY <2>2 DEF NoFolder, flags, down, server, history
  <2>3. CASE Identify
    BY <2>3, <2>0 DEF Identify, flags, down, server, history
  <2>4. CASE Check
    BY <2>4 DEF Check, flags, down, server, history
  <2>5. CASE Rest
    BY <2>5 DEF Rest, flags, down, server, history
  <2>6. CASE Send
    <3>1. CASE link = "up"
      <4>1. PICK k \in 0..MaxImages : written = EndOf(k)
        BY <2>6, <3>1 DEF Send
      <4>0. k \in Nat /\ k + 1 \in Nat
        OBVIOUS
      <4>a. EndOf(k) = 4 + 3 * k /\ EndOf(k + 1) = 4 + 3 * (k + 1)
        BY ONLY <4>0, EndOfType
      <4>b. EndOf(k) < EndOf(MaxImages) /\ written' = EndOf(k) + 3
        BY <2>6, <3>1, <4>1 DEF Send
      <4>2. written' = EndOf(k + 1) /\ k + 1 \in 0..MaxImages /\ EndOf(k + 1) <= EndOf(MaxImages)
        BY <4>a, <4>b, <2>0
      <4>3. written' \in 0..EndOf(MaxImages) /\ consumed' \in 0..written' /\ written' # 0
        BY <2>6, <3>1, <4>2, <2>0 DEF Send, server
      <4>. QED  BY <2>6, <3>1, <4>2, <4>3 DEF Send, flags, down, server, history
    <3>2. CASE link # "up"
      BY <2>6, <3>2 DEF Send, flags, down, server, history
    <3>. QED  BY <3>1, <3>2
  <2>7. CASE StopSending
    BY <2>7 DEF StopSending, down, server, history
  <2>8. CASE ReceiveCommands
    <3>1. CASE ReceiveLine
      <4>1. /\ Head(cmds) \in {"PAUSE", "RESUME"} /\ Tail(cmds) \in Seq({"PAUSE", "RESUME"})
            /\ Len(Tail(cmds)) <= MaxCommands
        BY <3>1 DEF ReceiveLine
      <4>. QED  BY <3>1, <4>1 DEF ReceiveLine, Receiving, server
    <3>2. CASE ReceiveNull
      BY <3>2 DEF ReceiveNull, Receiving, flags, down, server, history
    <3>3. CASE ReceiveFails
      BY <3>3 DEF ReceiveFails, Receiving, flags, down, server, history
    <3>. QED  BY <2>8, <3>1, <3>2, <3>3 DEF ReceiveCommands
  <2>9. ASSUME NEW n \in 1..EndOf(MaxImages), Handshake(n)
        PROVE  TypeOK' /\ Placed'
    <3>1. /\ session' \in {"handshake", "length", "lost"} /\ systemId' \in {"none", "own", "garbled"}
          /\ consumed' \in 0..written
      BY <2>9, <2>0 DEF Handshake
    <3>a. <<"PAUSE">> \in Seq({"PAUSE", "RESUME"}) /\ Len(<<"PAUSE">>) = 1
      OBVIOUS
    <3>b. \/ cmds' = cmds /\ told' = told
          \/ MaxCommands > 0 /\ cmds' = <<"PAUSE">> /\ told' = "PAUSE"
      BY <2>9 DEF Handshake, down
    <3>2. cmds' \in Seq({"PAUSE", "RESUME"}) /\ Len(cmds') <= MaxCommands
          /\ told' \in {"nothing", "PAUSE", "RESUME"}
      <4>1. CASE cmds' = cmds /\ told' = told
        BY <4>1
      <4>2. CASE MaxCommands > 0 /\ cmds' = <<"PAUSE">> /\ told' = "PAUSE"
        BY <4>2, <3>a
      <4>. QED  BY <3>b, <4>1, <4>2
    <3>. QED  BY <2>9, <3>1, <3>2 DEF Handshake, flags, history
  <2>10. CASE HandshakeThrows
    BY <2>10 DEF HandshakeThrows, NothingComes, flags, down, history
  <2>11. CASE ReadLength
    BY <2>11, <2>0 DEF ReadLength, flags, down, history
  <2>12. CASE ReadBody
    <3>a. consumed' \in 0..written
      BY <2>12 DEF ReadBody
    <3>b. PICK k \in Images : received' \in {received, Append(received, k)}
      BY <2>12 DEF ReadBody
    <3>c. ASSUME NEW s \in Seq(Images), NEW i \in Images PROVE Append(s, i) \in Seq(Images)
      BY ONLY <3>c
    <3>1. received' \in Seq(Images) /\ consumed' \in 0..written
      BY <3>a, <3>b, <3>c
    <3>. QED  BY <2>12, <3>1 DEF ReadBody, flags, down, history
  <2>13. CASE ReadGarbage
    <3>1. consumed' \in 0..written /\ session' \in {"lost", "length", "crashed"}
      BY <2>13, <2>0 DEF ReadGarbage
    <3>. QED  BY <2>13, <3>1 DEF ReadGarbage, flags, down, history
  <2>14. CASE ReadFails
    BY <2>14 DEF ReadFails, flags, down, history
  <2>15. ASSUME NEW c \in {"PAUSE", "RESUME"}, Command(c)
         PROVE  TypeOK' /\ Placed'
    <3>1. cmds' \in Seq({"PAUSE", "RESUME"}) /\ Len(cmds') <= MaxCommands
      BY <2>15 DEF Command
    <3>. QED  BY <2>15, <3>1 DEF Command, flags, server, history
  <2>16. CASE ServerCloses
    BY <2>16 DEF ServerCloses, flags, down, history
  <2>17. CASE ConnectionBreaks
    BY <2>17 DEF ConnectionBreaks, flags, down, server, history
  <2>18. CASE UNCHANGED vars
    BY <2>18 DEF vars, flags, down, server, history
  <2>. QED
    BY <2>1, <2>2, <2>3, <2>4, <2>5, <2>6, <2>7, <2>8, <2>9, <2>10, <2>11, <2>12, <2>13,
       <2>14, <2>15, <2>16, <2>17, <2>18
    DEF Next, StartSendingImages, WriteFails, NoImage, ReadClientMachine
<1>. QED  BY <1>1, <1>2, PTL DEF Spec

-----------------------------------------------------------------------------
(* The images handed on.                                                    *)

\* Only these steps change what HandedOn and Kept are about.
LEMMA OtherSteps ==
    ASSUME [Next]_vars, ~Connect, ~Identify, ~Send,
           ~(\E n \in 1..EndOf(MaxImages) : Handshake(n)),
           ~HandshakeThrows, ~ReadLength, ~ReadBody, ~ReadGarbage, ~ReadFails, ~ServerCloses
    PROVE  UNCHANGED <<written, session, systemId, received, consumed, newline, late>>
<1> USE DEF flags, down, server, history
<1>1. CASE NoFolder
  BY <1>1 DEF NoFolder
<1>2. CASE StartSendingImages
  BY <1>2 DEF StartSendingImages, Check, Rest, WriteFails, NoImage, StopSending
<1>3. CASE ReceiveCommands
  BY <1>3 DEF ReceiveCommands, ReceiveLine, ReceiveNull, ReceiveFails
<1>4. ASSUME NEW c \in {"PAUSE", "RESUME"}, Command(c)
      PROVE  UNCHANGED <<written, session, systemId, received, consumed, newline, late>>
  BY <1>4 DEF Command
<1>5. CASE ConnectionBreaks
  BY <1>5 DEF ConnectionBreaks
<1>6. CASE UNCHANGED vars
  BY <1>6 DEF vars
<1>. QED  BY <1>1, <1>2, <1>3, <1>4, <1>5, <1>6 DEF Next, ReadClientMachine

\* A session that is regular has always been.
LEMMA RegularBefore ==
    ASSUME [Next]_vars, Regular'
    PROVE  Regular
<1>1. CASE Connect \/ Identify
  BY <1>1 DEF Connect, Identify, history, Regular
<1>2. CASE Send
  <2>1. newline' = newline
    BY <1>2 DEF Send
  <2>2. late => late'
    BY <1>2, Zenon DEF Send, history
  <2>. QED  BY <2>1, <2>2 DEF Regular
<1>3. ASSUME NEW n \in 1..EndOf(MaxImages), Handshake(n) PROVE Regular
  BY <1>3 DEF Handshake, history, Regular
<1>4. CASE HandshakeThrows \/ ReadLength \/ ReadBody \/ ReadGarbage \/ ReadFails \/ ServerCloses
  BY <1>4 DEF HandshakeThrows, ReadLength, ReadBody, ReadGarbage, ReadFails, ServerCloses,
              history, Regular
<1>. QED  BY <1>1, <1>2, <1>3, <1>4, OtherSteps DEF Regular

\* An image that is read to its end lies behind every image handed on before:
\* no image is handed on twice, and none before an earlier one.
THEOREM ClientInOrder == Spec => []InOrder
<1>1. Init => InOrder /\ HandedOn
  BY DEF Init, InOrder, HandedOn
<1>2. /\ TypeOK /\ Placed /\ TypeOK'
      /\ InOrder /\ HandedOn /\ [Next]_vars
      => InOrder' /\ HandedOn'
  <2> SUFFICES ASSUME TypeOK, Placed, TypeOK', InOrder, HandedOn, [Next]_vars
               PROVE  InOrder' /\ HandedOn'
    OBVIOUS
  <2>t. /\ consumed \in Nat /\ consumed' \in Nat
        /\ received \in Seq(Images) /\ received' \in Seq(Images)
        /\ \A i \in DOMAIN received : received[i] \in Nat /\ EndOf(received[i]) \in Nat
    <3>1. EndOf(MaxImages) \in Nat /\ Images \subseteq Nat
      BY EndOfType, ClientAssumption DEF Images
    <3>2. written \in Nat /\ written' \in Nat /\ received \in Seq(Images) /\ received' \in Seq(Images)
      BY <3>1 DEF TypeOK
    <3>3. consumed \in Nat /\ consumed' \in Nat
      BY <3>2 DEF TypeOK
    <3>4. ASSUME NEW i \in DOMAIN received PROVE received[i] \in Nat
      <4>1. received[i] \in Images
        BY <3>2
      <4>. QED  BY <3>1, <4>1
    <3>. QED  BY <3>2, <3>3, <3>4, EndOfType
  <2>1. CASE received' = received /\ consumed <= consumed'
    BY <2>1, <2>t DEF InOrder, HandedOn, EndOf
  <2>2. CASE ReadBody
    <3>1. PICK k \in Images : consumed' = EndOf(k) /\ received' \in {received, Append(received, k)}
      BY <2>2 DEF ReadBody
    <3>2. consumed < EndOf(k) /\ session' = "length"
      BY <2>2, <3>1, <2>t DEF ReadBody, Frame
    <3>3. k \in Nat
      BY ClientAssumption DEF Images
    <3>4. \A i \in DOMAIN received : received[i] < k
      BY <3>2, <3>3, <2>t DEF HandedOn, EndOf, Identity, Frame
    <3>5. CASE received' = received
      BY <3>1, <3>2, <3>3, <3>5, <2>t DEF InOrder, HandedOn
    <3>6. CASE received' = Append(received, k)
      BY <3>1, <3>2, <3>3, <3>4, <3>6, <2>t DEF InOrder, HandedOn
    <3>. QED  BY <3>1, <3>5, <3>6
  <2>3. CASE Connect
    BY <2>3, <2>1, <2>t DEF Connect, Placed
  <2>4. CASE Identify
    BY <2>4, <2>1, <2>t DEF Identify, server
  <2>5. CASE Send
    BY <2>5, <2>1, <2>t DEF Send, server
  <2>6. ASSUME NEW n \in 1..EndOf(MaxImages), Handshake(n) PROVE InOrder' /\ HandedOn'
    BY <2>6, <2>1, <2>t DEF Handshake
  <2>7. CASE HandshakeThrows \/ ReadLength \/ ReadGarbage \/ ReadFails \/ ServerCloses
    BY <2>7, <2>1, <2>t DEF HandshakeThrows, ReadLength, ReadGarbage, ReadFails, ServerCloses
  <2>. QED
    BY <2>1, <2>2, <2>3, <2>4, <2>5, <2>6, <2>7, <2>t, OtherSteps
<1>. QED  BY <1>1, <1>2, ClientTypeCorrect, PTL DEF Spec

\* A regular session stands where its state says, and so every image it has
\* consumed was handed on when its last cell was.
LEMMA ClientKept == Spec => [](NoneSkipped /\ (Regular => Kept))
<1> USE DEF Kept, Regular
<1>1. Init => NoneSkipped /\ (Regular => Kept)
  <2>1. \A k \in Images : ~(EndOf(k) <= 0)
    BY EndOfType, ClientAssumption DEF Images
  <2>. QED  BY <2>1 DEF Init, NoneSkipped, Identity
<1>2. /\ TypeOK /\ Placed /\ TypeOK'
      /\ NoneSkipped /\ (Regular => Kept) /\ [Next]_vars
      => NoneSkipped' /\ (Regular => Kept)'
  <2> SUFFICES ASSUME TypeOK, Placed, TypeOK', NoneSkipped, Regular => Kept, [Next]_vars, Regular'
               PROVE  NoneSkipped' /\ Kept'
    BY DEF NoneSkipped
  <2>1. Regular
    BY RegularBefore
  <2> USE <2>1
  <2>t. consumed \in Nat /\ consumed' \in Nat /\ written \in Nat /\ consumed <= written
    BY EndOfType, ClientAssumption DEF TypeOK
  <2>i. \A k \in Images : k \in Nat /\ EndOf(k) = 4 + 3 * k
    BY EndOfType, ClientAssumption DEF Images
  <2>k. \A k \in 0..MaxImages : k \in Nat /\ EndOf(k) = 4 + 3 * k
    BY EndOfType, ClientAssumption
  \* A step that consumes no last cell of an image skips none.
  <2>2. ASSUME received' = received, session' # "lost",
               \A k \in Images : EndOf(k) <= consumed' => EndOf(k) <= consumed
        PROVE  NoneSkipped'
    BY <2>2 DEF NoneSkipped
  <2>3. CASE UNCHANGED <<written, session, received, consumed>>
    BY <2>3, <2>2
  <2>4. CASE Connect
    BY <2>4, <2>2 DEF Connect, Placed, Identity
  <2>5. CASE Identify
    BY <2>5, <2>2 DEF Identify, Placed, Identity, server
  <2>6. CASE Send
    BY <2>6, <2>2 DEF Send, Placed, history, server
  <2>7. ASSUME NEW n \in 1..EndOf(MaxImages), Handshake(n) PROVE NoneSkipped' /\ Kept'
    <3>1. n \in Nat /\ n <= 4 /\ received' = received /\ consumed' = n /\ written' = written
      BY <2>7, <2>t, EndOfType DEF Handshake, Identity
    <3>2. \A k \in Images : ~(EndOf(k) <= consumed')
      BY <3>1, <2>i DEF Images
    <3>3. CASE n = 4
      <4>1. EndOf(0) = 4 /\ 0 \in 0..MaxImages
        BY EndOfType, ClientAssumption
      <4>2. AtPrefix(n)
        BY <4>1, <3>3 DEF AtPrefix
      <4>3. session' = "length"
        BY <2>7, <3>3, <4>2 DEF Handshake, Identity
      <4>. QED  BY <3>1, <3>2, <3>3, <4>1, <4>3, <2>2
    <3>4. CASE n < 4
      <4>1. session' = "handshake" /\ session = "handshake"
        BY <2>7, <3>1, <3>4 DEF Handshake, Identity
      <4>. QED  BY <3>1, <3>2, <4>1, <2>2
    <3>. QED  BY <3>1, <3>3, <3>4
  <2>8. CASE ReadLength
    <3>1. PICK k \in 0..MaxImages : consumed = EndOf(k)
      BY <2>8 DEF ReadLength
    <3>2. consumed' = EndOf(k) + 1 /\ session' = "body" /\ received' = received
      BY <2>8, <3>1 DEF ReadLength
    <3>3. \A j \in Images : EndOf(j) <= consumed' => EndOf(j) <= consumed
      BY <3>1, <3>2, <2>i, <2>k
    <3>. QED  BY <3>2, <3>3, <2>2
  <2>9. CASE ReadBody
    <3>1. PICK k \in Images : /\ consumed' = EndOf(k) /\ session' = "length"
                              /\ received' = IF k \in OddImages THEN received ELSE Append(received, k)
      BY <2>9 DEF ReadBody
    <3>2. PICK j \in 0..MaxImages : consumed = EndOf(j) + 1
      BY <2>9 DEF ReadBody
    <3>3. k = j + 1
      BY <2>9, <3>1, <3>2, <2>i, <2>k DEF ReadBody, Frame
    <3>4. ASSUME NEW m \in Images \ OddImages, EndOf(m) <= consumed'
          PROVE  \E i \in DOMAIN received' : received'[i] = m
      <4>1. received \in Seq(Images)
        BY DEF TypeOK
      <4>2. CASE m = k
        <5>1. received' = Append(received, k)
          BY <4>2, <3>1
        <5>. QED  BY <4>1, <4>2, <5>1
      <4>3. CASE m # k
        <5>1. EndOf(m) <= consumed
          BY <4>3, <3>1, <3>2, <3>3, <3>4, <2>i, <2>k
        <5>2. PICK i \in DOMAIN received : received[i] = m
          BY <5>1 DEF NoneSkipped
        <5>. QED  BY <3>1, <4>1, <5>2
      <4>. QED  BY <4>2, <4>3
    <3>5. k \in 0..MaxImages
      BY ClientAssumption DEF Images
    <3>. QED  BY <3>1, <3>4, <3>5 DEF NoneSkipped
  <2>10. CASE HandshakeThrows \/ ReadFails \/ ServerCloses
    <3>1. /\ received' = received /\ consumed' = consumed /\ session' \in {"ended", "crashed"}
      BY <2>10 DEF HandshakeThrows, ReadFails, ServerCloses
    <3>. QED  BY <3>1, <2>2
  <2>11. CASE ReadGarbage
    BY <2>11 DEF ReadGarbage
  <2>. QED
    BY <2>3, <2>4, <2>5, <2>6, <2>7, <2>8, <2>9, <2>10, <2>11, OtherSteps
<1>. QED  BY <1>1, <1>2, ClientTypeCorrect, PTL DEF Spec

\* A regular session hands on all it has consumed.
THEOREM ClientNoneSkipped == Spec => []NoneSkipped
<1>. QED  BY ClientKept, PTL

-----------------------------------------------------------------------------
(* The server's end, and the commands.                                      *)

\* A regular session is never lost in the stream, so that only its handshake
\* can end the server; and until the handshake ends, no name is known.
THEOREM ClientCrashedByLeavers == Spec => []CrashedByLeavers
<1>1. Init => CrashedByLeavers /\ Nameless
  BY DEF Init, CrashedByLeavers, Nameless
<1>2. /\ TypeOK /\ Placed /\ NoneSkipped
      /\ CrashedByLeavers /\ Nameless /\ [Next]_vars
      => CrashedByLeavers' /\ Nameless'
  <2> SUFFICES ASSUME Placed, NoneSkipped, CrashedByLeavers, Nameless, [Next]_vars
               PROVE  CrashedByLeavers' /\ Nameless'
    OBVIOUS
  <2>1. Regular' => Regular
    BY RegularBefore
  <2>2. CASE UNCHANGED <<session, systemId>>
    BY <2>1, <2>2 DEF CrashedByLeavers, Nameless
  <2>3. CASE Connect
    BY <2>3 DEF Connect, Placed, CrashedByLeavers, Nameless
  <2>4. CASE Identify \/ Send
    BY <2>2, <2>4 DEF Identify, Send, server
  <2>5. ASSUME NEW n \in 1..EndOf(MaxImages), Handshake(n) PROVE CrashedByLeavers' /\ Nameless'
    <3>1. session' \in {"handshake", "length", "lost"}
      BY <2>5 DEF Handshake
    <3>2. session' = "handshake" => systemId' = systemId
      BY <2>5 DEF Handshake
    <3>. QED  BY <2>5, <3>1, <3>2 DEF Handshake, CrashedByLeavers, Nameless
  <2>6. CASE HandshakeThrows
    BY <2>6 DEF HandshakeThrows, CrashedByLeavers, Nameless
  <2>7. CASE ReadLength \/ ReadBody \/ ReadFails \/ ServerCloses
    <3>1. session' \in {"length", "body", "ended"}
      BY <2>7 DEF ReadLength, ReadBody, ReadFails, ServerCloses
    <3>. QED  BY <3>1 DEF CrashedByLeavers, Nameless
  <2>8. CASE ReadGarbage
    <3>1. ~Regular'
      BY <2>8, <2>1 DEF ReadGarbage, NoneSkipped
    <3>2. session' \in {"lost", "length", "crashed"}
      BY <2>8 DEF ReadGarbage
    <3>. QED  BY <3>1, <3>2 DEF CrashedByLeavers, Nameless
  <2>. QED
    BY <2>2, <2>3, <2>4, <2>5, <2>6, <2>7, <2>8, OtherSteps
<1>. QED  BY <1>1, <1>2, ClientTypeCorrect, ClientNoneSkipped, PTL DEF Spec

\* The last command on its way to the client is the last one told.
THEOREM ClientPausedAsTold == Spec => []PausedAsTold
<1> USE DEF Follows
<1>1. Init => Follows
  BY DEF Init
<1>2. TypeOK /\ Placed /\ Follows /\ [Next]_vars => Follows'
  <2> SUFFICES ASSUME TypeOK, Placed, Follows, [Next]_vars
               PROVE  Follows'
    OBVIOUS
  <2>t. cmds \in Seq({"PAUSE", "RESUME"}) /\ paused \in BOOLEAN
    BY DEF TypeOK
  <2>1. CASE UNCHANGED <<pc, paused, sbKeepConnection, link, cmds, told>>
    BY <2>1
  <2>2. CASE Connect
    BY <2>2 DEF Connect, flags, down
  <2>3. CASE NoFolder \/ Identify \/ Rest \/ Send \/ ConnectionBreaks
    BY <2>3 DEF NoFolder, Identify, Rest, Send, ConnectionBreaks, flags, down
  <2>4. CASE Check
    BY <2>4 DEF Check, flags, down
  <2>5. CASE StopSending
    BY <2>5 DEF StopSending, down
  <2>6. CASE ReceiveLine
    <3>1. pc' # "connect"
      BY <2>6 DEF ReceiveLine, Receiving, Placed
    <3>2. ASSUME link = "up", sbKeepConnection
          PROVE  IF cmds' = <<>> THEN paused' <=> told' = "PAUSE" ELSE cmds'[Len(cmds')] = told'
      <4>1. /\ cmds # <<>> /\ cmds[Len(cmds)] = told
            /\ cmds' = Tail(cmds) /\ told' = told /\ paused' = (Head(cmds) = "PAUSE")
        BY <2>6, <3>2 DEF ReceiveLine
      <4>2. CASE Len(cmds) = 1
        <5>1. cmds' = <<>> /\ Head(cmds) = told
          BY <2>t, <4>1, <4>2
        <5>. QED  BY <4>1, <5>1
      <4>3. CASE Len(cmds) # 1
        <5>1. cmds' # <<>> /\ cmds'[Len(cmds')] = cmds[Len(cmds)]
          <6>1. Len(cmds) \in Nat /\ Len(cmds) > 1
            <7>1. Len(cmds) # 0
              BY <2>t, <4>1, EmptySeq
            <7>2. Len(cmds) \in Nat
              BY <2>t, LenProperties
            <7>. QED  BY <4>3, <7>1, <7>2
          <6>2. /\ Len(cmds') = Len(cmds) - 1
                /\ \A i \in 1..Len(cmds) - 1 : cmds'[i] = cmds[i + 1]
            BY <2>t, <4>1
          <6>3. Len(cmds') \in 1..Len(cmds) - 1 /\ Len(cmds') + 1 = Len(cmds)
            BY <6>1, <6>2
          <6>4. cmds' # <<>>
            BY <6>3
          <6>. QED  BY <6>2, <6>3, <6>4
        <5>. QED  BY <4>1, <5>1
      <4>. QED  BY <4>2, <4>3
    <3>. QED  BY <2>6, <3>1, <3>2 DEF ReceiveLine
  <2>7. CASE ReceiveNull \/ ReceiveFails
    BY <2>7 DEF ReceiveNull, ReceiveFails, Receiving, flags, down
  <2>8. ASSUME NEW n \in 1..EndOf(MaxImages), Handshake(n) PROVE Follows'
    <3>1. pc' # "connect" /\ UNCHANGED <<paused, sbKeepConnection, link>>
      BY <2>8 DEF Handshake, flags, Placed
    <3>2. CASE UNCHANGED down
      BY <2>8, <3>1, <3>2 DEF Handshake, down, Placed
    <3>3. CASE cmds' = <<"PAUSE">> /\ told' = "PAUSE"
      <4>1. cmds' # <<>> /\ cmds'[Len(cmds')] = told'
        BY <3>3
      <4>. QED  BY <3>1, <4>1
    <3>. QED  BY <2>8, <3>2, <3>3 DEF Handshake
  <2>9. CASE HandshakeThrows \/ ReadLength \/ ReadBody \/ ReadGarbage \/ ReadFails \/ ServerCloses
    BY <2>9 DEF HandshakeThrows, ReadLength, ReadBody, ReadGarbage, ReadFails, ServerCloses,
                flags, down
  <2>10. ASSUME NEW c \in {"PAUSE", "RESUME"}, Command(c) PROVE Follows'
    <3>1. cmds' # <<>> /\ cmds'[Len(cmds')] = told'
      BY <2>10, <2>t DEF Command
    <3>2. pc' # "connect"
      BY <2>10 DEF Command, Reading, Placed
    <3>. QED  BY <3>1, <3>2
  <2>11. CASE UNCHANGED vars
    BY <2>1, <2>11 DEF vars, flags, down
  <2>. QED
    BY <2>2, <2>3, <2>4, <2>5, <2>6, <2>7, <2>8, <2>9, <2>10, <2>11
    DEF Next, StartSendingImages, WriteFails, NoImage, ReceiveCommands, ReadClientMachine
<1>3. Follows => PausedAsTold
  BY DEF PausedAsTold
<1>. QED  BY <1>1, <1>2, <1>3, ClientTypeCorrect, PTL DEF Spec

-----------------------------------------------------------------------------
(***************************************************************************)
(* The client implements ClientPeer, until it goes astray: a handshake     *)
(* that is not over has read less than an identity, and handed on nothing. *)
(***************************************************************************)
Shaking ==
    /\ session = "handshake" => consumed < Identity
    /\ session \in {"none", "handshake"} => received = <<>>
    /\ session = "none" => written = 0 /\ consumed = 0

LEMMA ClientShaking == Spec => []Shaking
<1> USE DEF Shaking
<1>1. Init => Shaking
  BY DEF Init
<1>2. TypeOK /\ Placed /\ Shaking /\ [Next]_vars => Shaking'
  <2> SUFFICES ASSUME TypeOK, Placed, Shaking, [Next]_vars PROVE Shaking'
    OBVIOUS
  <2>1. CASE UNCHANGED <<written, session, received, consumed>>
    BY <2>1
  <2>2. CASE Connect
    BY <2>2 DEF Connect, Placed, Identity
  <2>3. CASE Identify \/ Send
    BY <2>3 DEF Identify, Send, Placed, server
  <2>4. ASSUME NEW n \in 1..EndOf(MaxImages), Handshake(n) PROVE Shaking'
    <3>1. n \in Nat /\ consumed' = n /\ received' = received /\ session = "handshake"
      BY <2>4, EndOfType, ClientAssumption DEF Handshake
    <3>2. IF n >= Identity THEN session' \in {"length", "lost"} ELSE session' \in {"handshake", "length", "lost"}
      BY <2>4 DEF Handshake
    <3>. QED  BY <3>1, <3>2 DEF Identity
  <2>5. CASE HandshakeThrows \/ ReadLength \/ ReadBody \/ ReadGarbage \/ ReadFails \/ ServerCloses
    <3>1. session' \notin {"none", "handshake"}
      BY <2>5 DEF HandshakeThrows, ReadLength, ReadBody, ReadGarbage, ReadFails, ServerCloses
    <3>. QED  BY <3>1
  <2>. QED  BY <2>1, <2>2, <2>3, <2>4, <2>5, OtherSteps
<1>. QED  BY <1>1, <1>2, ClientTypeCorrect, PTL DEF Spec

\* What the five parts of the refinement mapping are, said of a regular session.
Mapped ==
    /\ Regular => /\ session = "none" => Stage = "unused"
                  /\ session = "handshake" =>
                        Stage = IF written > 0 /\ link # "reset" THEN "identified" ELSE "dialed"
                  /\ session \in Reading => Stage = "open"
                  /\ session = "ended" => Stage = "over"
                  /\ session = "crashed" => Stage = "crashed"
                  /\ Got = {received[n] : n \in DOMAIN received}
    /\ ~Regular => Stage = "stray" /\ Got = {}
    /\ PeerUp \in BOOLEAN
    /\ ~Live => ~PeerUp /\ Sent = {} /\ Unread = {}
    /\ written <= Identity => Sent = {} /\ Unread = {}
    /\ link = "reset" => ~PeerUp /\ Unread = {}
    /\ Live <=> Regular /\ session \in Reading \cup {"handshake"}

LEMMA MappingIs == TypeOK => Mapped
<1> SUFFICES ASSUME TypeOK PROVE Mapped
  OBVIOUS
<1>1. /\ Regular => /\ session = "none" => Stage = "unused"
                    /\ session = "handshake" =>
                        Stage = IF written > 0 /\ link # "reset" THEN "identified" ELSE "dialed"
                    /\ session \in Reading => Stage = "open"
                    /\ session = "ended" => Stage = "over"
                    /\ session = "crashed" => Stage = "crashed"
      /\ ~Regular => Stage = "stray"
  BY Zenon DEF Stage, Reading
<1>2. Live <=> Regular /\ session \in Reading \cup {"handshake"}
  BY <1>1 DEF Live, TypeOK
<1>3. PeerUp \in BOOLEAN /\ (~Live => ~PeerUp /\ Sent = {} /\ Unread = {})
  BY DEF PeerUp, Sent, Unread, Live
<1>4. written <= Identity => Sent = {} /\ Unread = {}
  <2>1. \A k \in Images : EndOf(k) \in Nat /\ EndOf(k) > 4
    BY EndOfType, ClientAssumption DEF Images
  <2>2. written \in Nat
    BY EndOfType, ClientAssumption DEF TypeOK
  <2>. QED  BY <2>1, <2>2 DEF Sent, Unread, Identity
<1>5. link = "reset" => ~PeerUp /\ Unread = {}
  BY DEF PeerUp, Unread
<1>6. /\ Regular => Got = {received[n] : n \in DOMAIN received}
      /\ ~Regular => Got = {}
  BY DEF Got
<1>. QED  BY <1>1, <1>2, <1>3, <1>4, <1>5, <1>6 DEF Mapped

\* One step of the program is one step of the contract, or none.
LEMMA ClientStep ==
    ASSUME TypeOK, TypeOK', Placed, Placed', NoneSkipped, Regular => Kept, Regular' => Kept', Shaking,
           [Next]_vars
    PROVE  [Peer!Next]_(Peer!clientVars)
<1> DEFINE Same == UNCHANGED <<Stage, PeerUp, Sent, Unread, Got>>
<1>0. Same => [Peer!Next]_(Peer!clientVars)
  BY DEF Peer!clientVars
<1>m. Mapped /\ Mapped'
  <2>1. Mapped
    BY MappingIs
  <2>2. Mapped'
    BY MappingIs, PTL
  <2>. QED  BY <2>1, <2>2
<1>t. /\ consumed \in Nat /\ consumed' \in Nat /\ written \in Nat /\ written' \in Nat
      /\ consumed <= written /\ consumed' <= written'
  <2>1. EndOf(MaxImages) \in Nat
    BY EndOfType, ClientAssumption
  <2>. QED  BY <2>1 DEF TypeOK
<1>k. \A k \in 0..MaxImages : k \in Nat /\ EndOf(k) \in Nat /\ EndOf(k) = 4 + 3 * k
  BY EndOfType, ClientAssumption
<1>i. \A k \in Images : k \in 0..MaxImages /\ k \in Nat /\ EndOf(k) \in Nat /\ EndOf(k) = 4 + 3 * k
  BY <1>k, ClientAssumption DEF Images
<1>r. Regular' => Regular
  BY RegularBefore
<1>e. Regular /\ session = "handshake" => Sent = {} /\ Unread = {} /\ Got = {}
  BY <1>m, <1>r DEF Mapped, Kept, Shaking
<1>1. CASE ~Regular
  BY <1>0, <1>1, <1>m, <1>r DEF Mapped
<1>2. CASE Regular /\ ~Regular'
  <2> USE <1>2
  <2>1. Send /\ link = "up" /\ session = "handshake"
    <3>1. CASE Connect \/ Identify
      BY <3>1 DEF Connect, Identify, history, Regular
    <3>2. ASSUME NEW n \in 1..EndOf(MaxImages), Handshake(n) PROVE FALSE
      BY <3>2 DEF Handshake, history, Regular
    <3>3. CASE HandshakeThrows \/ ReadLength \/ ReadBody \/ ReadGarbage \/ ReadFails \/ ServerCloses
      BY <3>3 DEF HandshakeThrows, ReadLength, ReadBody, ReadGarbage, ReadFails, ServerCloses,
                  history, Regular
    <3>4. Send
      BY <3>1, <3>2, <3>3, OtherSteps DEF Regular
    <3>5. link = "up" /\ late' = (late \/ session = "handshake") /\ newline' = newline
      BY <3>4 DEF Send, history, Regular
    <3>6. session = "handshake"
      BY <3>5, Zenon DEF Regular
    <3>. QED  BY <3>4, <3>5, <3>6
  <2>2. written > 0 /\ Stage = "identified"
    BY <2>1, <1>m, <1>t DEF Send, Placed, Mapped
  <2>3. Stage' = "stray" /\ ~PeerUp' /\ Sent' = {} /\ Unread' = {} /\ Got' = {} /\ PeerUp' \in BOOLEAN
    BY <1>m DEF Mapped, Live
  <2>4. Peer!Stray
    BY <2>1, <2>2, <2>3, <1>e DEF Peer!Stray
  <2>. QED  BY <2>4 DEF Peer!Next
<1>3. CASE Regular /\ Regular'
  <2> USE <1>3
  <2>g. received' = received => Got' = Got
    BY DEF Got
  <2>n. written' = written /\ (Live <=> Live') => Sent' = Sent
    BY DEF Sent
  \* What leaves the session's reads alone leaves the mapping alone.
  <2>0. ASSUME UNCHANGED <<session, received, consumed, written>>, link' = link, PeerUp' = PeerUp
        PROVE  Same
    <3>1. Stage' = Stage /\ Live' = Live
      BY <2>0 DEF Stage, Live
    <3>2. Sent' = Sent
      BY <2>0, <3>1, <2>n
    <3>3. Unread' = Unread
      BY <2>0, <3>2 DEF Unread
    <3>. QED  BY <2>0, <3>1, <3>2, <3>3, <2>g
  \* The program ends, or the connection breaks.
  <2>a. ASSUME UNCHANGED <<session, received, consumed, written>>, link' \in {link, "reset"}, ~PeerUp'
        PROVE  [Peer!Next]_(Peer!clientVars)
    <3>l. Live' <=> Live
      BY <2>a, <1>m DEF Mapped
    <3>s. Sent' = Sent /\ Got' = Got
      BY <2>a, <3>l, <2>n, <2>g
    <3>1. CASE ~Live
      <4>1. Stage' = Stage
        BY <2>a, <3>1, <3>l, <1>m DEF Mapped, TypeOK
      <4>. QED  BY <2>a, <3>1, <3>l, <3>s, <4>1, <1>m, <1>0 DEF Mapped
    <3>2. CASE session = "handshake"
      <4>1. Stage \in {"dialed", "identified"} /\ Stage' \in {"dialed", "identified"}
        BY <2>a, <3>2, <1>m DEF Mapped
      <4>2. Stage' = "identified" => Stage = "identified"
        BY <2>a, <3>2, <1>m DEF Mapped
      <4>3. Unread = {} /\ Unread' = {}
        BY <3>2, <3>s, <1>e DEF Unread
      <4>4. CASE Stage' = "dialed"
        <5>1. Peer!LeaveEarly
          BY <2>a, <3>s, <4>1, <4>3, <4>4, <1>m DEF Peer!LeaveEarly, Mapped
        <5>. QED  BY <5>1 DEF Peer!Next
      <4>5. CASE Stage' = "identified"
        <5>1. Peer!Lose
          BY <2>a, <3>s, <4>2, <4>3, <4>5, <1>m DEF Peer!Lose, Mapped
        <5>. QED  BY <5>1 DEF Peer!Next
      <4>. QED  BY <4>1, <4>4, <4>5
    <3>3. CASE session \in Reading
      <4>1. Stage = "open" /\ Stage' = "open"
        BY <2>a, <3>3, <1>m DEF Mapped
      <4>2. Unread' \in {Unread, {}}
        BY <2>a, <3>s DEF Unread
      <4>3. Peer!Lose
        BY <2>a, <3>s, <4>1, <4>2, <1>m DEF Peer!Lose, Mapped
      <4>. QED  BY <4>3 DEF Peer!Next
    <3>. QED  BY <3>1, <3>2, <3>3, <1>m DEF Mapped
  <2>1. CASE Connect
    <3>1. /\ session = "none" /\ session' = "handshake" /\ written' = written /\ written = 0
          /\ consumed' = consumed /\ received' = received
      BY <2>1 DEF Connect, Placed
    <3>2. Stage = "unused" /\ Stage' = "dialed"
      BY <2>1, <3>1, <1>m DEF Connect, Mapped
    <3>3. PeerUp'
      BY <2>1, <3>2 DEF PeerUp, Live, Connect
    <3>4. Sent = {} /\ Unread = {} /\ Sent' = {} /\ Unread' = {}
      BY <3>1, <1>m DEF Mapped, Identity
    <3>5. Peer!Dial
      BY <3>2, <3>3, <3>4, <3>1, <2>g, <1>m DEF Peer!Dial, Mapped
    <3>. QED  BY <3>5 DEF Peer!Next
  <2>2. CASE NoFolder
    BY <2>2, <2>a DEF NoFolder, server, PeerUp
  <2>3. CASE Identify
    <3>1. UNCHANGED <<session, received, consumed, link>>
      BY <2>3 DEF Identify, server
    <3>2. CASE link # "up" \/ session # "handshake"
      <4>1. CASE link = "reset"
        BY <2>3, <3>1, <4>1, <2>a, <1>m DEF Identify, Mapped
      <4>2. CASE link # "reset" /\ link # "up"
        <5>1. written' = written /\ PeerUp' = PeerUp
          BY <2>3, <3>1, <4>2 DEF Identify, PeerUp
        <5>. QED  BY <3>1, <5>1, <2>0, <1>0
      <4>3. CASE link = "up" /\ session \in Reading
        BY <2>3, <4>3, <1>k, <1>t DEF Placed, Kept, Reading, Identify
      <4>4. CASE session \notin Reading \cup {"handshake"}
        <5>1. Stage' = Stage /\ ~Live /\ ~Live' /\ Got' = Got
          BY <3>1, <4>4, <1>m, <2>g DEF Mapped, TypeOK
        <5>. QED  BY <5>1, <1>m, <1>0 DEF Mapped
      <4>. QED  BY <3>2, <4>1, <4>2, <4>3, <4>4
    <3>3. CASE link = "up" /\ session = "handshake"
      <4>1. written = 0 /\ written' = Identity /\ pc' = "check" /\ pc = "identify"
        BY <2>3, <3>3 DEF Identify, Placed
      <4>2. Stage = "dialed" /\ Stage' = "identified" /\ Live /\ Live'
        BY <3>1, <3>3, <4>1, <1>m DEF Mapped, Identity
      <4>3. PeerUp /\ PeerUp'
        BY <3>1, <3>3, <4>1, <4>2 DEF PeerUp
      <4>4. Sent = {} /\ Unread = {} /\ Sent' = {} /\ Unread' = {} /\ Got' = Got
        BY <3>1, <4>1, <1>m, <2>g DEF Mapped, Identity
      <4>5. Peer!Identify
        BY <4>2, <4>3, <4>4, <1>m DEF Peer!Identify, Mapped
      <4>. QED  BY <4>5 DEF Peer!Next
    <3>. QED  BY <3>2, <3>3
  <2>4. CASE Check
    <3>1. UNCHANGED <<session, received, consumed, written>> /\ link' \in {link, "reset"}
      BY <2>4 DEF Check, server
    <3>2. CASE pc' = "exited"
      BY <3>1, <3>2, <2>a DEF PeerUp
    <3>3. CASE pc' # "exited"
      <4>1. PeerUp' = PeerUp /\ link' = link
        <5>1. link' = link /\ pc # "exited" /\ Live' = Live
          BY <2>4, <3>1, <3>3 DEF Check, Live, Stage
        <5>. QED  BY <3>3, <5>1 DEF PeerUp
      <4>. QED  BY <3>1, <4>1, <2>0, <1>0
    <3>. QED  BY <3>2, <3>3
  <2>5. CASE Rest \/ StopSending \/ ReceiveCommands
    <3>1. UNCHANGED <<session, received, consumed, written, link>> /\ (pc = "exited" <=> pc' = "exited")
      BY <2>5 DEF Rest, StopSending, ReceiveCommands, ReceiveLine, ReceiveNull, ReceiveFails,
                  server, flags
    <3>2. Live' = Live
      BY <3>1 DEF Live, Stage
    <3>3. PeerUp' = PeerUp
      BY <3>1, <3>2 DEF PeerUp
    <3>. QED  BY <3>1, <3>3, <2>0, <1>0
  <2>6. CASE Send
    <3>1. UNCHANGED <<session, received, consumed>> /\ pc = "wait" /\ pc' = "check"
      BY <2>6 DEF Send, server
    <3>2. CASE link # "up"
      <4>1. written' = written /\ link' = "reset"
        BY <2>6, <3>2 DEF Send
      <4>. QED  BY <3>1, <4>1, <2>a, <1>m DEF Mapped
    <3>3. CASE link = "up" /\ session \notin Reading
      <4>1. session # "handshake"
        <5>1. late' = (late \/ session = "handshake")
          BY <2>6, <3>3 DEF Send
        <5>. QED  BY <5>1, Zenon DEF Regular
      <4>2. Stage' = Stage /\ ~Live /\ ~Live' /\ Got' = Got
        BY <3>1, <3>3, <4>1, <1>m, <2>g DEF Mapped, TypeOK
      <4>. QED  BY <4>2, <1>m, <1>0 DEF Mapped
    <3>4. CASE link = "up" /\ session \in Reading
      <4>1. /\ Stage = "open" /\ Stage' = "open" /\ Live /\ Live' /\ Got' = Got
        BY <3>1, <3>4, <1>m, <2>g DEF Mapped
      <4>2. written < EndOf(MaxImages) /\ written' = written + 3 /\ link' = "up"
        BY <2>6, <3>4 DEF Send, Frame
      <4>3. PeerUp /\ PeerUp'
        BY <3>1, <3>4, <4>1, <4>2 DEF PeerUp
      <4>4. PICK j \in 0..MaxImages : written = EndOf(j)
        BY <3>1, <3>4 DEF Placed, WholeFrames
      <4>5. j + 1 \in Images /\ written' = EndOf(j + 1) /\ written < EndOf(j + 1)
        <5>1. j < MaxImages
          BY <4>2, <4>4, <1>k, ClientAssumption
        <5>2. j + 1 \in Images
          BY <5>1, ClientAssumption DEF Images
        <5>3. EndOf(j + 1) = 4 + 3 * (j + 1)
          BY <5>2, <1>i
        <5>. QED  BY <4>2, <4>4, <5>2, <5>3, <1>k
      <4>6. PICK k \in Images : k = j + 1
        BY <4>5
      <4>7. \A m \in Images :
               /\ EndOf(m) <= written' <=> EndOf(m) <= written \/ m = k
               /\ EndOf(m) <= written => m < k
        BY <4>2, <4>4, <4>5, <4>6, <1>k, <1>i
      <4>8. CASE k \in OddImages
        <5>1. Sent' = Sent
          BY <4>1, <4>7, <4>8 DEF Sent
        <5>2. Unread' = Unread
          BY <3>1, <3>4, <4>2, <5>1 DEF Unread
        <5>. QED  BY <4>1, <4>3, <5>1, <5>2, <1>m, <1>0 DEF Mapped
      <4>9. CASE k \notin OddImages
        <5>1. Sent' = Sent \cup {k} /\ \A m \in Sent : m < k
          BY <4>1, <4>7, <4>9 DEF Sent
        <5>2. consumed < EndOf(k)
          BY <4>4, <4>5, <4>6, <1>k, <1>i, <1>t
        <5>3. Unread' = Unread \cup {k}
          BY <3>1, <3>4, <4>2, <5>1, <5>2 DEF Unread
        <5>4. Peer!Send(k)
          BY <4>1, <4>3, <5>1, <5>3, <1>m DEF Peer!Send, Mapped
        <5>. QED  BY <4>9, <5>4 DEF Peer!Next
      <4>. QED  BY <4>8, <4>9
    <3>. QED  BY <3>2, <3>3, <3>4
  <2>7. ASSUME NEW n \in 1..EndOf(MaxImages), Handshake(n) PROVE [Peer!Next]_(Peer!clientVars)
    <3>1. /\ session = "handshake" /\ link' = link /\ link # "reset" /\ written' = written
          /\ received' = received /\ pc' = pc /\ written <= 4 /\ n <= 4 /\ n \in Nat /\ written > 0
      BY <2>7, <1>t, EndOfType, ClientAssumption DEF Handshake, Kept, Identity
    <3>2. Sent = {} /\ Unread = {} /\ Sent' = {} /\ Unread' = {} /\ Got' = Got
      BY <3>1, <1>m, <2>g DEF Mapped, Identity
    <3>3. Stage = "identified" /\ Live
      BY <3>1, <1>m DEF Mapped
    <3>4. CASE session' = "handshake"
      <4>1. Stage' = "identified" /\ Live'
        BY <3>1, <3>4, <1>m DEF Mapped
      <4>2. PeerUp' = PeerUp
        BY <3>1, <3>3, <4>1 DEF PeerUp
      <4>. QED  BY <3>2, <3>3, <4>1, <4>2, <1>0
    <3>5. CASE session' # "handshake"
      <4>1. session' = "length"
        BY <2>7, <3>5 DEF Handshake, Kept
      <4>2. Stage' = "open" /\ Live'
        BY <4>1, <1>m DEF Mapped, Reading
      <4>3. PeerUp' = PeerUp
        BY <3>1, <3>3, <4>2 DEF PeerUp
      <4>4. Peer!Open
        BY <3>2, <3>3, <4>2, <4>3 DEF Peer!Open
      <4>. QED  BY <4>4 DEF Peer!Next
    <3>. QED  BY <3>4, <3>5
  <2>8. CASE HandshakeThrows
    <3>1. /\ session = "handshake" /\ session' = "crashed" /\ link' = "reset" /\ written' = written
          /\ received' = received
      BY <2>8 DEF HandshakeThrows
    <3>2. written = 0 \/ link = "reset"
      <4>1. written = 0 \/ consumed < written
        <5>1. consumed < 4
          BY <3>1 DEF Shaking, Identity
        <5>. QED  BY <5>1, <1>k, <1>t DEF Placed, WholeFrames
      <4>2. link = "reset" \/ consumed = written
        BY <2>8 DEF HandshakeThrows, NothingComes
      <4>. QED  BY <4>1, <4>2, <1>t
    <3>3. ~PeerUp /\ Stage = "dialed"
      <4>1. link = "reset" \/ pc = "exited"
        BY <2>8 DEF HandshakeThrows, NothingComes
      <4>. QED  BY <3>1, <3>2, <4>1, <1>m, <1>t DEF Mapped, PeerUp
    <3>4. Stage' = "crashed" /\ ~PeerUp' /\ Sent' = {} /\ Unread' = {} /\ Got' = Got
      BY <3>1, <1>m, <2>g DEF Mapped, Reading
    <3>5. Peer!EndServer
      BY <3>1, <3>3, <3>4, <1>e, <1>m DEF Peer!EndServer, Mapped
    <3>. QED  BY <3>5 DEF Peer!Next
  <2>9. CASE ReadLength
    <3>1. /\ session = "length" /\ session' = "body" /\ link' = link /\ written' = written
          /\ received' = received /\ pc' = pc /\ consumed' = consumed + 1
      BY <2>9 DEF ReadLength
    <3>2. Stage = "open" /\ Stage' = "open" /\ Live /\ Live'
      BY <3>1, <1>m DEF Mapped, Reading
    <3>3. PeerUp' = PeerUp /\ Sent' = Sent /\ Got' = Got
      BY <3>1, <3>2, <2>n, <2>g DEF PeerUp
    <3>4. \A k \in Images : consumed < EndOf(k) <=> consumed' < EndOf(k)
      <4>1. PICK j \in 0..MaxImages : consumed = EndOf(j)
        BY <3>1 DEF Kept
      <4>. QED  BY <3>1, <4>1, <1>k, <1>i
    <3>5. Unread' = Unread
      <4>1. Sent \subseteq Images
        BY DEF Sent
      <4>. QED  BY <3>1, <3>3, <3>4, <4>1 DEF Unread
    <3>. QED  BY <3>2, <3>3, <3>5, <1>0
  <2>10. CASE ReadBody
    <3>1. PICK k \in Images :
             /\ consumed' = EndOf(k)
             /\ received' = IF k \in OddImages THEN received ELSE Append(received, k)
      BY <2>10 DEF ReadBody
    <3>2. /\ session = "body" /\ session' = "length" /\ link' = link /\ link # "reset"
          /\ written' = written /\ pc' = pc /\ consumed' = consumed + 2 /\ consumed' <= written
      BY <2>10, <1>t DEF ReadBody, Frame
    <3>3. Stage = "open" /\ Stage' = "open" /\ Live /\ Live'
      BY <3>2, <1>m DEF Mapped, Reading
    <3>4. PeerUp' = PeerUp /\ Sent' = Sent
      BY <3>2, <3>3, <2>n DEF PeerUp
    <3>5. \A m \in Images :
             /\ consumed < EndOf(m) => k <= m
             /\ consumed' < EndOf(m) <=> consumed < EndOf(m) /\ m # k
      <4>1. PICK j \in 0..MaxImages : consumed = EndOf(j) + 1
        BY <3>2 DEF Kept
      <4>2. k = j + 1
        <5>1. EndOf(j) = 4 + 3 * j /\ j \in Nat /\ EndOf(k) = 4 + 3 * k /\ k \in Nat
          BY <1>k, <1>i
        <5>2. EndOf(k) = EndOf(j) + 3
          BY <3>1, <3>2, <4>1, <1>k, <1>i
        <5>. QED  BY <5>1, <5>2
      <4>. QED  BY <3>1, <3>2, <4>1, <4>2, <1>k, <1>i
    <3>6. Sent \subseteq Images \ OddImages
      BY DEF Sent
    <3>7. Unread' = Unread \ {k} /\ \A m \in Unread : k <= m
      BY <3>2, <3>4, <3>5, <3>6 DEF Unread
    <3>8. CASE k \in OddImages
      <4>1. Got' = Got
        BY <3>1, <3>8, <2>g
      <4>2. k \notin Unread
        BY <3>6, <3>8 DEF Unread
      <4>. QED  BY <3>3, <3>4, <3>7, <4>1, <4>2, <1>0
    <3>9. CASE k \notin OddImages
      <4>1. k \in Unread
        <5>1. k \in Sent
          BY <3>1, <3>2, <3>3, <3>9 DEF Sent
        <5>2. consumed < EndOf(k)
          BY <3>1, <3>2, <1>t
        <5>. QED  BY <3>2, <5>1, <5>2 DEF Unread
      <4>2. Got' = Got \cup {k}
        <5>1. received \in Seq(Images) /\ received' = Append(received, k)
          BY <3>1, <3>9 DEF TypeOK
        <5>2. Got = {received[n] : n \in DOMAIN received} /\ Got' = {received'[n] : n \in DOMAIN received'}
          BY <1>m DEF Mapped
        <5>3. /\ DOMAIN received' = DOMAIN received \cup {Len(received) + 1}
              /\ \A n \in DOMAIN received : received'[n] = received[n]
              /\ received'[Len(received) + 1] = k
          BY <5>1
        <5>. QED  BY <5>2, <5>3
      <4>3. Peer!Read(k)
        BY <3>3, <3>4, <3>7, <4>1, <4>2 DEF Peer!Read
      <4>. QED  BY <3>9, <4>3 DEF Peer!Next
    <3>. QED  BY <3>8, <3>9
  <2>11. CASE ReadGarbage
    BY <2>11 DEF ReadGarbage, Kept
  <2>12. CASE ReadFails \/ ServerCloses
    <3>1. /\ session \in Reading \cup {"handshake"} /\ session' = "ended" /\ received' = received
      BY <2>12 DEF ReadFails, ServerCloses
    <3>2. Stage \in {"dialed", "identified", "open"} /\ Stage' = "over"
      BY <3>1, <1>m DEF Mapped
    <3>3. ~PeerUp' /\ Sent' = {} /\ Unread' = {} /\ Got' = Got
      BY <3>1, <1>m, <2>g DEF Mapped, Reading
    <3>4. Peer!Close
      BY <3>2, <3>3, <1>m DEF Peer!Close, Mapped
    <3>. QED  BY <3>4 DEF Peer!Next
  <2>13. ASSUME NEW c \in {"PAUSE", "RESUME"}, Command(c) PROVE [Peer!Next]_(Peer!clientVars)
    <3>1. UNCHANGED <<session, received, consumed, written, link, pc>>
      BY <2>13 DEF Command, server
    <3>2. PeerUp' = PeerUp
      BY <3>1, <1>m DEF PeerUp, Mapped
    <3>. QED  BY <3>1, <3>2, <2>0, <1>0
  <2>14. CASE ConnectionBreaks
    BY <2>14, <2>a, <1>m DEF ConnectionBreaks, Mapped, server
  <2>15. CASE UNCHANGED vars
    <3>1. UNCHANGED <<session, received, consumed, written, link, pc>>
      BY <2>15 DEF vars, server
    <3>2. PeerUp' = PeerUp
      BY <3>1, <1>m DEF PeerUp, Mapped
    <3>. QED  BY <3>1, <3>2, <2>0, <1>0
  <2>. QED
    BY <2>1, <2>2, <2>3, <2>4, <2>5, <2>6, <2>7, <2>8, <2>9, <2>10, <2>11, <2>12, <2>13,
       <2>14, <2>15
    DEF Next, StartSendingImages, WriteFails, NoImage, ReadClientMachine
<1>. QED  BY <1>1, <1>2, <1>3

\* A client machine as ClientMachine.cs writes it is one that ImageServer
\* reckons with: it is gone before it has identified itself, or sends its
\* images in the order of their scans, and the session reads each of them.
THEOREM ClientImplementsPeer == Spec => ImplementsPeer
<1>1. Init => Peer!Init
  <2> SUFFICES ASSUME Init PROVE Peer!Init
    OBVIOUS
  <2>1. TypeOK
    BY ClientInitType
  <2>2. Mapped
    BY <2>1, MappingIs
  <2>3. Got = {}
    BY <2>2 DEF Init, Mapped
  <2>. QED  BY <2>2, <2>3 DEF Init, Mapped, Reading, Peer!Init
<1>2. /\ TypeOK /\ TypeOK' /\ Placed /\ Placed' /\ NoneSkipped
      /\ (Regular => Kept) /\ (Regular => Kept)' /\ Shaking
      => ([Next]_vars => [Peer!Next]_(Peer!clientVars))
  <2> SUFFICES ASSUME TypeOK, TypeOK', Placed, Placed', NoneSkipped, Regular => Kept,
                      (Regular => Kept)', Shaking, [Next]_vars
               PROVE  [Peer!Next]_(Peer!clientVars)
    OBVIOUS
  <2>. QED  BY ClientStep
<1>. QED
  BY <1>1, <1>2, ClientTypeCorrect, ClientKept, ClientShaking, PTL DEF Spec, ImplementsPeer, Peer!Spec
=============================================================================
