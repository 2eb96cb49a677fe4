------------------------ MODULE OperatorStationProofs ------------------------
(***************************************************************************)
(* Proofs about OperatorStation, for any width of the integers, any unit   *)
(* of time within ScanTimeAssumption, any images and any number of keys.   *)
(***************************************************************************)
EXTENDS OperatorStation, FiniteSetTheorems, SequenceTheorems, TLAPS

-----------------------------------------------------------------------------
(* The arithmetic of scan times.                                            *)

\* Division with remainder,
LEMMA DivMod ==
    ASSUME NEW x \in Int, NEW m \in Int, m > 0
    PROVE  /\ x \div m \in Int /\ x % m \in 0..m - 1
           /\ x = m * (x \div m) + (x % m)
OBVIOUS

\* which is unique.
LEMMA DivUnique ==
    ASSUME NEW q \in Int, NEW m \in Int, m > 0, NEW r \in 0..m - 1
    PROVE  (m * q + r) \div m = q /\ (m * q + r) % m = r
OBVIOUS

\* The sizes, in a form that the provers take.
LEMMA Scale ==
    /\ Quarter \in Nat /\ Quarter > 0 /\ TicksPerMs \in Nat /\ TicksPerMs > 0
    /\ Modulus \in Int /\ Modulus > 0 /\ Modulus = 4 * Quarter
BY ScanTimeAssumption DEF Modulus

\* Wrap(x) is in the range of a signed integer and differs from x by multiples
\* of the modulus.
LEMMA WrapRange ==
    ASSUME NEW x \in Int
    PROVE  /\ Wrap(x) \in -(2 * Quarter) .. 2 * Quarter - 1
           /\ \E q \in Int : x = Modulus * q + Wrap(x)
<1>1. x % Modulus \in 0..Modulus - 1 /\ x \div Modulus \in Int
      /\ x = Modulus * (x \div Modulus) + (x % Modulus)
  BY DivMod, Scale
<1>2. CASE x % Modulus < 2 * Quarter
  <2>1. Wrap(x) = x % Modulus
    BY <1>2 DEF Wrap
  <2>2. Wrap(x) \in -(2 * Quarter) .. 2 * Quarter - 1
    BY <2>1, <1>1, <1>2, Scale
  <2>. QED  BY <1>1, <2>1, <2>2
<1>3. CASE ~(x % Modulus < 2 * Quarter)
  <2>1. ASSUME NEW m \in Int, NEW a \in Int, NEW b \in Int
        PROVE  m * a + b = m * (a + 1) + (b - m)
    OBVIOUS
  <2>2. x = Modulus * (x \div Modulus + 1) + ((x % Modulus) - Modulus)
    BY <1>1, <2>1, Scale
  <2>3. Wrap(x) = (x % Modulus) - Modulus
    BY <1>3 DEF Wrap
  <2>4. Wrap(x) \in -(2 * Quarter) .. 2 * Quarter - 1
    BY <2>3, <1>1, <1>3, Scale
  <2>. QED  BY <1>1, <2>2, <2>3, <2>4
<1>. QED  BY <1>2, <1>3

\* The key is the product of the ticks and TicksPerMs less the eras that have
\* gone by: the wraps of ToBinary() and its flag drop out.
LEMMA KeyInEra ==
    ASSUME NEW t \in Nat
    PROVE  /\ Key(t) \in -(2 * Quarter) .. 2 * Quarter - 1
           /\ Era(t) \in Int
           /\ Key(t) = t * TicksPerMs - Modulus * Era(t)
<1>a. t + Quarter \in Int
  BY Scale
<1>1. PICK p \in Int : t + Quarter = Modulus * p + ToBinary(t)
  BY <1>a, WrapRange DEF ToBinary
<1>2. ToBinary(t) \in Int
  BY <1>a, WrapRange, Scale DEF ToBinary
<1>b. ToBinary(t) * TicksPerMs \in Int
  BY <1>2, Scale
<1>3. PICK q \in Int : ToBinary(t) * TicksPerMs = Modulus * q + Key(t)
  BY <1>b, WrapRange DEF Key, TimePoint
<1>4. Key(t) \in -(2 * Quarter) .. 2 * Quarter - 1
  BY <1>b, WrapRange DEF Key, TimePoint
<1>5. PICK f \in Int : TicksPerMs = 4 * f
  BY ScanTimeAssumption
\* The flag falls out of the product.
<1>6. t * TicksPerMs = Modulus * (p * TicksPerMs + q - f) + Key(t)
  <2>1. ToBinary(t) = t + Quarter - Modulus * p
    BY <1>1, <1>2, Scale
  <2>2. (t + Quarter - Modulus * p) * TicksPerMs = Modulus * q + Key(t)
    BY <2>1, <1>3
  <2>3. (t + Quarter - Modulus * p) * TicksPerMs
          = t * TicksPerMs + Quarter * TicksPerMs - Modulus * (p * TicksPerMs)
    BY Scale
  <2>4. Quarter * TicksPerMs = Modulus * f
    BY <1>5, Scale
  <2>5. t * TicksPerMs = Modulus * q + Key(t) - Modulus * f + Modulus * (p * TicksPerMs)
    BY <2>2, <2>3, <2>4, <1>4, Scale
  <2>. QED  BY <2>5, <1>4, Scale
<1>7. Era(t) = p * TicksPerMs + q - f
  <2> DEFINE e == p * TicksPerMs + q - f
  <2>1. e \in Int /\ t * TicksPerMs \in Int
    BY <1>5, Scale
  <2>2. t * TicksPerMs + 2 * Quarter = Modulus * e + (Key(t) + 2 * Quarter)
    BY <1>6, <1>4, <2>1, Scale
  <2>3. Key(t) + 2 * Quarter \in 0..Modulus - 1
    BY <1>4, Scale
  <2> HIDE DEF e
  <2>4. Era(t) = e
    BY <2>1, <2>2, <2>3, DivUnique, Scale DEF Era
  <2>. QED  BY <2>4 DEF e
<1>8. Era(t) \in Int
  BY <1>7, <1>5, Scale
<1>9. Key(t) = t * TicksPerMs - Modulus * Era(t)
  BY <1>6, <1>7, <1>4, <1>8, Scale
<1>. QED  BY <1>4, <1>8, <1>9

\* Within an era a later scan has the greater key.
LEMMA KeyMonotone ==
    ASSUME NEW s \in Nat, NEW t \in Nat, Era(s) = Era(t), Key(s) <= Key(t)
    PROVE  s <= t
<1>1. s * TicksPerMs <= t * TicksPerMs
  <2>1. Modulus * Era(t) \in Int /\ s * TicksPerMs \in Int /\ t * TicksPerMs \in Int
    BY KeyInEra, Scale
  <2>2. Key(s) = s * TicksPerMs - Modulus * Era(t) /\ Key(t) = t * TicksPerMs - Modulus * Era(t)
    BY KeyInEra
  <2>. QED  BY <2>1, <2>2
<1>2. s > t => s * TicksPerMs > t * TicksPerMs
  BY Scale
<1>. QED  BY <1>1, <1>2, Scale

\* What is left of a key is a date for the operator, unless the key lies a day
\* or more before the epoch.
LEMMA DateUnlessEarly ==
    ASSUME NEW key \in -(2 * Quarter) .. 2 * Quarter - 1
    PROVE  FromBinary(Milliseconds(key)) <=> key > -(TicksPerDay * TicksPerMs)
<1> DEFINE b == Milliseconds(key)
<1>0. /\ MaxTicks \in Nat /\ TicksPerDay \in Nat /\ TicksPerDay > 0
      /\ 2 * Quarter <= TicksPerMs * MaxTicks /\ MaxTicks + TicksPerDay < Quarter
      /\ 2 * Quarter < TicksPerMs * (Quarter - MaxTicks)
  BY ScanTimeAssumption
<1>k. key \in Int /\ -(TicksPerDay * TicksPerMs) \in Int
  BY <1>0, Scale
<1>1. CASE key >= 0
  <2>1. b \in Int /\ b = key \div TicksPerMs /\ TicksPerMs * b <= key /\ b >= 0
    BY <1>1, DivMod, Scale DEF Milliseconds
  <2>2. b < MaxTicks
    BY <2>1, <1>0, Scale
  <2>3. b % Quarter = b
    BY <2>1, <2>2, <1>0, Scale
  <2>4. FromBinary(b)
    BY <2>1, <2>2, <2>3, <1>0 DEF FromBinary
  <2>5. key > -(TicksPerDay * TicksPerMs)
    BY <1>0, <1>1, Scale
  <2>. QED  BY <2>4, <2>5
<1>2. CASE key < 0
  <2> DEFINE d == (-key) \div TicksPerMs
             r == (-key) % TicksPerMs
  <2>1. d \in Int /\ r \in 0..TicksPerMs - 1 /\ -key = TicksPerMs * d + r
    BY <1>2, DivMod, Scale
  <2>2. b \in Int /\ b + d = 0
    BY <2>1, <1>2 DEF Milliseconds
  <2> HIDE DEF b, d, r
  <2>3. d >= 0 /\ d < Quarter - MaxTicks
    BY <2>1, <1>0, <1>2, Scale
  <2>4. CASE d < TicksPerDay
    <3>1. -key < TicksPerDay * TicksPerMs
      BY <2>1, <2>4, <1>0, Scale
    <3>2. FromBinary(b)
      <4>1. CASE d = 0
        <5>1. b = 0
          BY <2>2, <4>1
        <5>2. 0 % Quarter = 0
          BY Scale
        <5>. QED  BY <5>1, <5>2, <1>0 DEF FromBinary
      <4>2. CASE d > 0
        <5>1. b = Quarter * (-1) + (Quarter - d) /\ Quarter - d \in 0..Quarter - 1
          BY <2>1, <2>2, <2>3, <4>2, <1>0, Scale
        <5>2. b % Quarter = Quarter - d
          BY <5>1, DivUnique, Scale
        <5>. QED  BY <5>2, <2>1, <2>2, <2>4, <4>2, <1>0, Scale DEF FromBinary
      <4>. QED  BY <2>1, <2>3, <4>1, <4>2
    <3>. QED  BY <3>1, <3>2, <2>2, Scale, <1>0, <1>k DEF b
  <2>5. CASE d >= TicksPerDay
    <3>1. -key >= TicksPerDay * TicksPerMs
      BY <2>1, <2>5, <1>0, Scale
    <3>2. ~FromBinary(b)
      <4>1. b = Quarter * (-1) + (Quarter - d) /\ Quarter - d \in 0..Quarter - 1
        BY <2>1, <2>2, <2>3, <2>5, <1>0, Scale
      <4>2. b % Quarter = Quarter - d
        BY <4>1, DivUnique, Scale
      <4>. QED  BY <4>2, <2>1, <2>2, <2>3, <2>5, <1>0, Scale DEF FromBinary
    <3>. QED  BY <3>1, <3>2, <2>2, Scale, <1>0, <1>k DEF b
  <2>. QED  BY <2>1, <2>4, <2>5, <1>0
<1>. QED  BY <1>1, <1>2

-----------------------------------------------------------------------------
(* The station.                                                             *)

\* The image on the screen can be shown; a link that is down went down.
OnScreen ==
    /\ pc \in {"decide", "answer"} => image \in Shown /\ Readable(image)
    /\ link # "up" => faulted

\* An image is readable exactly if ImageServer need not reckon with a choke.
LEMMA ReadableImage ==
    ASSUME NEW i \in Shown
    PROVE  Readable(i) <=> i \notin Unreadable
<1>1. CASE i = EmptyImage
  BY <1>1 DEF Readable, Unreadable
<1>2. CASE i # EmptyImage
  <2>1. i \in Image /\ i \in Nat
    BY <1>2, StationAssumption DEF Shown
  <2>2. /\ Key(i) \in -(2 * Quarter) .. 2 * Quarter - 1
        /\ TicksPerDay * TicksPerMs \in Int
    BY <2>1, KeyInEra, Scale, ScanTimeAssumption
  <2>3. FromBinary(Forwarded(i)) <=> Key(i) > -(TicksPerDay * TicksPerMs)
    BY <2>2, DateUnlessEarly DEF Forwarded
  <2>4. i \in Unreadable <=> Key(i) <= -(TicksPerDay * TicksPerMs)
    BY <1>2, <2>1 DEF Unreadable
  <2>. QED  BY <1>2, <2>2, <2>3, <2>4, Scale DEF Readable
<1>. QED  BY <1>1, <1>2

\* Every variable keeps its type.
THEOREM StationTypeCorrect == Spec => [](TypeOK /\ OnScreen)
<1> USE StationAssumption DEF server, loop, keyboard, outcome, history, Decisions, Keys
<1>1. Init => TypeOK /\ OnScreen
  <2>1. Init => /\ arrived \subseteq Shown /\ sent \subseteq arrived /\ wire \in Seq(Shown)
                /\ keys \in Seq([key : Keys, at : Shown \cup {Null}])
                /\ answers \in Seq(Shown) /\ image \in Shown \cup {Null}
    BY DEF Init
  <2>2. Init => /\ reader \in [Shown -> {"none", "polling", "reading"} \cup Decisions]
                /\ decided \in [Shown -> Decisions \cup {"none"}]
    BY DEF Init
  <2>3. Init => pressed \in 0..MaxKeys /\ timedOut \subseteq Shown /\ mistaken \in Nat
    BY DEF Init
  <2>4. Init => busy \in BOOLEAN /\ faulted \in BOOLEAN
    BY DEF Init
  <2>. QED  BY <2>1, <2>2, <2>3, <2>4 DEF Init, TypeOK, OnScreen
<1>2. TypeOK /\ OnScreen /\ [Next]_vars => TypeOK' /\ OnScreen'
  <2> SUFFICES ASSUME TypeOK, OnScreen, [Next]_vars
               PROVE  TypeOK' /\ OnScreen'
    OBVIOUS
  <2> USE DEF TypeOK, OnScreen
  <2>1. ASSUME NEW i \in Shown, Arrives(i) PROVE TypeOK' /\ OnScreen'
    BY <2>1 DEF Arrives
  <2>2. ASSUME NEW i \in Shown, ServerSends(i) PROVE TypeOK' /\ OnScreen'
    BY <2>2 DEF ServerSends, imageQueue_
  <2>3. ASSUME NEW i \in Shown, KeyTask(i) PROVE TypeOK' /\ OnScreen'
    <3>1. CASE SeesKey(i)
      BY <3>1 DEF SeesKey
    <3>2. CASE TakesKey(i)
      <4>1. Tail(keys) \in Seq([key : Keys, at : Shown \cup {Null}])
        BY <3>2 DEF TakesKey
      <4>2. DecidesOn(Head(keys).key) \in {"Accepted", "Rejected", "polling"}
        BY DEF DecidesOn
      <4>3. mistaken' \in Nat
        BY <3>2 DEF TakesKey
      <4>. QED  BY <3>2, <4>1, <4>2, <4>3 DEF TakesKey
    <3>. QED  BY <2>3, <3>1, <3>2 DEF KeyTask
  <2>4. CASE ServerReads
    <3>1. Tail(answers) \in Seq(Shown)
      BY <2>4 DEF ServerReads
    <3>. QED  BY <2>4, <3>1 DEF ServerReads
  <2>5. CASE LinkLost
    <3>1. answers' \in Seq(Shown) /\ wire' \in Seq(Shown)
      <4>1. /\ answers' = answers \/ answers' = <<>>
            /\ wire' = wire \/ wire' = <<>>
        BY <2>5 DEF LinkLost
      <4>2. answers \in Seq(Shown) /\ wire \in Seq(Shown) /\ <<>> \in Seq(Shown)
        OBVIOUS
      <4>. QED  BY ONLY <4>1, <4>2
    <3>. QED  BY <2>5, <3>1 DEF LinkLost
  <2>6. CASE Show
    BY <2>6 DEF Show
  <2>7. CASE ShowFails
    BY <2>7 DEF ShowFails
  <2>8. CASE ReadFails
    BY <2>8 DEF ReadFails, End
  <2>9. CASE KeyDecides
    BY <2>9 DEF KeyDecides
  <2>10. CASE TimesOut
    BY <2>10 DEF TimesOut
  <2>11. CASE Answer
    <3>1. answers' \in Seq(Shown) /\ decided' \in [Shown -> Decisions \cup {"none"}]
      <4>1. CASE UNCHANGED outcome
        BY <4>1
      <4>2. CASE /\ decided' = [decided EXCEPT ![image] = decision]
                 /\ answers' = Append(answers, image)
        <5>1. image \in Shown
          BY <2>11 DEF Answer
        <5>2. Append(answers, image) \in Seq(Shown)
          BY <5>1
        <5>. QED  BY <4>2, <5>1, <5>2
      <4>. QED  BY <2>11, <4>1, <4>2 DEF Answer
    <3>2. pc' \in {"read", "ended"} /\ link' \in {"up", "reset"} /\ (link' # "up" => link # "up")
      BY <2>11 DEF Answer
    <3>. QED  BY <2>11, <3>1, <3>2 DEF Answer
  <2>12. CASE ShowBreaks
    BY <2>12 DEF ShowBreaks
  <2>13. ASSUME NEW k \in Keys, PressKey(k) PROVE TypeOK' /\ OnScreen'
    BY <2>13 DEF PressKey
  <2>14. CASE UNCHANGED vars
    BY <2>14 DEF vars
  <2>. QED
    BY <2>1, <2>2, <2>3, <2>4, <2>5, <2>6, <2>7, <2>8, <2>9, <2>10, <2>11, <2>12, <2>13, <2>14
    DEF Next, MainLoop
<1>. QED  BY <1>1, <1>2, PTL DEF Spec

\* Unless something failed around it, the station ended by the image it could
\* not read.
THEOREM StationEndsForCause == Spec => []EndsForCause
<1> USE DEF EndsForCause, OnScreen, server, loop, keyboard, outcome, history
<1>1. Init => EndsForCause
  BY DEF Init
<1>2. TypeOK /\ OnScreen /\ EndsForCause /\ [Next]_vars => EndsForCause'
  <2> SUFFICES ASSUME TypeOK, OnScreen, EndsForCause, [Next]_vars
               PROVE  EndsForCause'
    OBVIOUS
  <2>1. CASE UNCHANGED <<pc, image, faulted>>
    BY <2>1 DEF Unreadable
  <2>2. ASSUME NEW i \in Shown, Arrives(i) \/ ServerSends(i) \/ KeyTask(i) PROVE EndsForCause'
    BY <2>1, <2>2 DEF Arrives, ServerSends, KeyTask, SeesKey, TakesKey
  <2>3. CASE ServerReads
    BY <2>1, <2>3 DEF ServerReads
  <2>4. CASE LinkLost \/ ShowBreaks
    BY <2>4 DEF LinkLost, ShowBreaks
  <2>5. CASE Show \/ KeyDecides \/ TimesOut
    BY <2>5 DEF Show, KeyDecides, TimesOut
  <2>6. CASE ShowFails
    <3>1. Head(wire) \in Shown
      BY <2>6 DEF ShowFails, TypeOK
    <3>. QED  BY <2>6, <3>1, ReadableImage DEF ShowFails, Unreadable
  <2>7. CASE ReadFails
    BY <2>7 DEF ReadFails, End
  <2>8. CASE Answer
    BY <2>8 DEF Answer
  <2>9. ASSUME NEW k \in Keys, PressKey(k) PROVE EndsForCause'
    BY <2>1, <2>9 DEF PressKey
  <2>10. CASE UNCHANGED vars
    BY <2>1, <2>10 DEF vars
  <2>. QED
    BY <2>2, <2>3, <2>4, <2>5, <2>6, <2>7, <2>8, <2>9, <2>10 DEF Next, MainLoop
<1>. QED  BY <1>1, <1>2, StationTypeCorrect, PTL DEF Spec

\* The queue takes the smallest key, and keys grow with time within an era.
THEOREM StationInEraOrder == Spec => InEraOrder
<1>1. TypeOK /\ [Next]_vars
      => [\A i \in sent' \ sent, j \in imageQueue_ :
             EmptyImage \notin {i, j} /\ Era(i) = Era(j) => i <= j]_vars
  <2> SUFFICES ASSUME TypeOK, Next,
                      NEW i \in sent' \ sent, NEW j \in imageQueue_,
                      EmptyImage \notin {i, j}, Era(i) = Era(j)
               PROVE  i <= j
    BY DEF vars
  <2>1. ServerSends(i)
    <3>1. CASE \E s \in Shown : ServerSends(s)
      BY <3>1 DEF ServerSends
    <3>2. CASE ~\E s \in Shown : ServerSends(s)
      <4>1. sent' = sent
        BY <3>2 DEF Next, MainLoop, KeyTask, Arrives, SeesKey, TakesKey, ServerReads, LinkLost, Show,
                    ShowFails, ReadFails, KeyDecides, TimesOut, Answer, ShowBreaks, PressKey, server
      <4>. QED  BY <4>1
    <3>. QED  BY <3>1, <3>2
  <2>2. QueueKey(i) <= QueueKey(j)
    BY <2>1 DEF ServerSends
  <2>3. i \in Nat /\ j \in Nat /\ i # EmptyImage /\ j # EmptyImage
    BY <2>1, StationAssumption DEF ServerSends, imageQueue_, TypeOK, Shown, EmptyImage
  <2>4. Key(i) <= Key(j)
    BY <2>2, <2>3 DEF QueueKey
  <2>. QED  BY <2>3, <2>4, KeyMonotone
<1>. QED  BY <1>1, StationTypeCorrect, PTL DEF Spec, InEraOrder

-----------------------------------------------------------------------------
(* The station is the operator of ImageServer.                              *)

\* The images on the operator's desk, as it is instantiated.
Desk ==
    IF pc = "ended" \/ link # "up" THEN <<>>
    ELSE IF pc = "read" THEN wire ELSE <<image>> \o wire

\* A step is one of the abstract operator, or none of its variables changes.
THEOREM StationImplementsPeer == Spec => ImplementsPeer
<1> USE DEF server, loop, keyboard, outcome, history, EmptyImage
<1>1. Init => Peer!Init
  BY DEF Init, Peer!Init
<1>2. TypeOK /\ OnScreen /\ TypeOK' /\ [Next]_vars => [Peer!Next]_(Peer!peerVars)
  <2> SUFFICES ASSUME TypeOK, OnScreen, [Next]_vars
               PROVE  [Peer!Next]_(Peer!peerVars)
    OBVIOUS
  <2> USE DEF OnScreen
  \* No step of the peer: where the station is, and its desk, stay.
  <2>0. ASSUME UNCHANGED <<answers, faulted>>,
               (pc' # "ended" /\ link' = "up") <=> (pc # "ended" /\ link = "up"),
               Desk' = Desk
        PROVE  UNCHANGED Peer!peerVars
    BY <2>0 DEF Peer!peerVars, Desk
  <2>1. CASE UNCHANGED <<answers, faulted, pc, link, wire, image>>
    BY <2>0, <2>1 DEF Desk
  <2>2. ASSUME NEW i \in Shown, Arrives(i) \/ KeyTask(i) PROVE [Peer!Next]_(Peer!peerVars)
    BY <2>1, <2>2 DEF Arrives, KeyTask, SeesKey, TakesKey
  <2>3. ASSUME NEW i \in Shown, ServerSends(i) PROVE Peer!Next
    <3>1. Desk' = Append(Desk, i)
      <4>1. pc' = pc /\ link' = link /\ image' = image /\ wire' = Append(wire, i) /\ link = "up" /\ pc # "ended"
        BY <2>3 DEF ServerSends
      <4>2. CASE pc = "read"
        BY <4>1, <4>2 DEF Desk
      <4>3. CASE pc # "read"
        <5>1. image \in Shown /\ wire \in Seq(Shown)
          BY <4>1, <4>3 DEF TypeOK
        <5>2. <<image>> \o Append(wire, i) = Append(<<image>> \o wire, i)
          BY <5>1
        <5>. QED  BY <4>1, <4>3, <5>2 DEF Desk
      <4>. QED  BY <4>2, <4>3
    <3>2. Peer!Put(i)
      BY <2>3, <3>1 DEF ServerSends, Peer!Put, Desk
    <3>. QED  BY <3>2 DEF Peer!Next
  <2>4. CASE ServerReads
    <3>1. Desk' = Desk
      BY <2>4 DEF ServerReads, Desk
    <3>2. Peer!Collect
      BY <2>4, <3>1 DEF ServerReads, Peer!Collect, Desk
    <3>. QED  BY <3>2 DEF Peer!Next
  <2>5. CASE LinkLost
    <3>1. Peer!Die
      BY <2>5 DEF LinkLost, Peer!Die
    <3>. QED  BY <3>1 DEF Peer!Next
  <2>6. CASE Show
    <3>1. CASE link # "up"
      BY <2>0, <2>6, <3>1 DEF Show, Desk
    <3>2. CASE link = "up"
      <4>1. wire \in Seq(Shown) /\ wire # <<>>
        BY <2>6 DEF Show, TypeOK
      <4>2. <<Head(wire)>> \o Tail(wire) = wire
        BY <4>1
      <4>. QED  BY <2>0, <2>6, <3>2, <4>2 DEF Show, Desk
    <3>. QED  BY <3>1, <3>2
  <2>7. CASE ShowFails
    <3>1. CASE link # "up"
      BY <2>0, <2>7, <3>1 DEF ShowFails, Desk
    <3>2. CASE link = "up"
      <4>1. Head(wire) \in Shown
        BY <2>7 DEF ShowFails, TypeOK
      <4>2. Head(wire) \in Unreadable
        BY <2>7, <4>1, ReadableImage DEF ShowFails
      <4>3. Peer!Choke
        BY <2>7, <3>2, <4>2 DEF ShowFails, Peer!Choke
      <4>. QED  BY <4>3 DEF Peer!Next
    <3>. QED  BY <3>1, <3>2
  <2>8. CASE ReadFails
    BY <2>0, <2>8 DEF ReadFails, End, Desk
  <2>9. CASE KeyDecides \/ TimesOut
    BY <2>0, <2>9 DEF KeyDecides, TimesOut, Desk
  <2>10. CASE Answer
    <3>1. CASE link # "up"
      BY <2>0, <2>10, <3>1 DEF Answer, Desk
    <3>2. CASE link = "up"
      <4>1. image \in Shown /\ image \notin Unreadable
        BY <2>10, ReadableImage DEF Answer
      <4>2. Desk = <<image>> \o wire /\ Desk' = wire
        BY <2>10, <3>2 DEF Answer, Desk
      <4>3. Desk # <<>> /\ Head(Desk) = image /\ Tail(Desk) = wire
        <5>1. wire \in Seq(Shown)
          BY DEF TypeOK
        <5>. QED  BY <4>1, <4>2, <5>1
      <4>4. Peer!Decide
        BY <2>10, <3>2, <4>1, <4>2, <4>3 DEF Answer, Peer!Decide, Desk
      <4>. QED  BY <4>4 DEF Peer!Next
    <3>. QED  BY <3>1, <3>2
  <2>11. CASE ShowBreaks
    <3>1. CASE link # "up"
      BY <2>0, <2>11, <3>1 DEF ShowBreaks, Desk
    <3>2. CASE link = "up"
      <4>1. Peer!Die
        BY <2>11, <3>2 DEF ShowBreaks, Peer!Die
      <4>. QED  BY <4>1 DEF Peer!Next
    <3>. QED  BY <3>1, <3>2
  <2>12. ASSUME NEW k \in Keys, PressKey(k) PROVE [Peer!Next]_(Peer!peerVars)
    BY <2>1, <2>12 DEF PressKey
  <2>13. CASE UNCHANGED vars
    BY <2>1, <2>13 DEF vars
  <2>. QED
    BY <2>2, <2>3, <2>4, <2>5, <2>6, <2>7, <2>8, <2>9, <2>10, <2>11, <2>12, <2>13
    DEF Next, MainLoop
<1>. QED  BY <1>1, <1>2, StationTypeCorrect, PTL DEF Spec, ImplementsPeer, Peer!Spec

-----------------------------------------------------------------------------
(* Keys and decisions.                                                      *)

\* An image is sent once, and has no key task before it is shown.
OnWire ==
    /\ \A a \in DOMAIN wire : wire[a] \in sent /\ reader[wire[a]] = "none"
    /\ \A a, b \in DOMAIN wire : a # b => wire[a] # wire[b]
    /\ \A i \in Shown : i \notin sent => reader[i] = "none"

\* What is sent is what the key task said, or a rejection.
Keyed ==
    /\ \A i \in Shown : decided[i] = "Accepted" => reader[i] = "Accepted"
    /\ pc = "answer" /\ decision = "Accepted" => reader[image] = "Accepted"

DecidedByKey == {i \in Shown : reader[i] \in Decisions}

Spent == Cardinality(DecidedByKey) + Len(keys) <= pressed

\* A key task without a key is the one of the image shown, or one that its
\* image's time-out left behind; and such a task takes one decisive key.
Left ==
    \A i \in Shown :
        reader[i] \in {"polling", "reading"} => i \in timedOut \/ (pc = "decide" /\ i = image)

LateKeys == {i \in timedOut : reader[i] \in Decisions}

Misled == mistaken <= Cardinality(LateKeys)

\* An image on its way to the station has not been shown, and is there once.
LEMMA StationSendsOnce == Spec => []OnWire
<1> USE DEF OnWire, server, loop, keyboard, outcome, history
<1>1. Init => OnWire
  BY DEF Init
<1>2. TypeOK /\ OnWire /\ [Next]_vars => OnWire'
  <2> SUFFICES ASSUME TypeOK, OnWire, [Next]_vars
               PROVE  OnWire'
    OBVIOUS
  <2>t. wire \in Seq(Shown) /\ \A a \in DOMAIN wire : wire[a] \in Shown
    BY DEF TypeOK
  <2>r. reader \in [Shown -> {"none", "polling", "reading"} \cup Decisions]
    BY DEF TypeOK
  <2>1. CASE UNCHANGED <<wire, sent, reader>>
    BY <2>1
  <2>2. ASSUME NEW i \in Shown, ServerSends(i) PROVE OnWire'
    <3>1. i \notin sent /\ sent' = sent \cup {i} /\ wire' = Append(wire, i) /\ reader' = reader
      BY <2>2 DEF ServerSends, imageQueue_
    <3>2. /\ DOMAIN wire = 1..Len(wire) /\ DOMAIN wire' = 1..Len(wire) + 1 /\ Len(wire) \in Nat
          /\ wire'[Len(wire) + 1] = i /\ \A a \in DOMAIN wire : wire'[a] = wire[a]
      BY <2>t, <3>1
    <3>3. \A a \in DOMAIN wire : wire'[a] \in sent /\ wire'[a] # i
      BY <3>1, <3>2
    <3>. QED  BY <3>1, <3>2, <3>3
  <2>3. ASSUME NEW i \in Shown, KeyTask(i) PROVE OnWire'
    <3>1. wire' = wire /\ sent' = sent /\ reader[i] # "none"
      BY <2>3 DEF KeyTask, SeesKey, TakesKey
    <3>2. \A j \in Shown : reader[j] = "none" => reader'[j] = "none"
      BY <2>3, <2>r, <3>1 DEF KeyTask, SeesKey, TakesKey
    <3>. QED  BY <3>1, <3>2, <2>t
  <2>4. CASE LinkLost
    BY <2>4 DEF LinkLost
  <2>5. ASSUME wire # <<>>, wire' = Tail(wire), sent' = sent,
               \A j \in Shown : j # Head(wire) => reader'[j] = reader[j]
        PROVE  OnWire'
    <3>1. /\ Len(wire) \in Nat /\ DOMAIN wire = 1..Len(wire) /\ DOMAIN wire' = 1..Len(wire) - 1
          /\ \A a \in DOMAIN wire' : wire'[a] = wire[a + 1] /\ a + 1 \in DOMAIN wire
          /\ 1 \in DOMAIN wire /\ Head(wire) = wire[1]
      BY <2>t, <2>5
    <3>2. Head(wire) \in sent
      BY <3>1
    <3>3. \A a \in DOMAIN wire' : wire'[a] # Head(wire)
      BY <3>1
    <3>4. \A a, b \in DOMAIN wire' : a # b => wire'[a] # wire'[b]
      BY <3>1
    <3>. QED  BY <2>5, <2>t, <3>1, <3>2, <3>3, <3>4
  <2>6. CASE Show
    <3>1. \A j \in Shown : j # Head(wire) => reader'[j] = reader[j]
      BY <2>6, <2>r DEF Show
    <3>. QED  BY <2>5, <2>6, <3>1 DEF Show
  <2>7. CASE ShowFails \/ ShowBreaks
    BY <2>5, <2>7 DEF ShowFails, ShowBreaks
  <2>8. ASSUME NEW i \in Shown, Arrives(i) PROVE OnWire'
    BY <2>1, <2>8 DEF Arrives
  <2>9. CASE ServerReads \/ ReadFails \/ KeyDecides \/ TimesOut \/ Answer
    BY <2>1, <2>9 DEF ServerReads, ReadFails, End, KeyDecides, TimesOut, Answer
  <2>10. ASSUME NEW k \in Keys, PressKey(k) PROVE OnWire'
    BY <2>1, <2>10 DEF PressKey
  <2>11. CASE UNCHANGED vars
    BY <2>1, <2>11 DEF vars
  <2>. QED
    BY <2>2, <2>3, <2>4, <2>6, <2>7, <2>8, <2>9, <2>10, <2>11 DEF Next, MainLoop
<1>. QED  BY <1>1, <1>2, StationTypeCorrect, PTL DEF Spec

\* There are finitely many images to show.
LEMMA ShownFinite ==
    /\ IsFiniteSet(Shown)
    /\ \A S \in SUBSET Shown : IsFiniteSet(S) /\ Cardinality(S) \in Nat
<1>1. IsFiniteSet(Shown)
  <2>1. IsFiniteSet({EmptyImage})
    BY FS_Singleton
  <2>. QED  BY <2>1, StationAssumption, FS_Union DEF Shown
<1>. QED  BY <1>1, FS_Subset, FS_CardinalityType

\* A key task decides once, and a key is taken by one task: the acceptances
\* are decisions of the image's own task, and the keys suffice for them all.
THEOREM StationAcceptedByKey == Spec => []AcceptedByKey
<1> USE DEF server, loop, keyboard, outcome, history, Decisions
<1>1. Init => Keyed /\ Spent
  <2>1. Init => DecidedByKey = {}
    BY DEF Init, DecidedByKey
  <2>. QED  BY <2>1, FS_EmptySet DEF Init, Keyed, Spent
<1>2. TypeOK /\ OnScreen /\ OnWire /\ Keyed /\ Spent /\ [Next]_vars => Keyed' /\ Spent'
  <2> SUFFICES ASSUME TypeOK, OnScreen, OnWire, Keyed, Spent, [Next]_vars
               PROVE  Keyed' /\ Spent'
    OBVIOUS
  <2>r. /\ reader \in [Shown -> {"none", "polling", "reading", "Accepted", "Rejected"}]
        /\ decided \in [Shown -> {"none", "Accepted", "Rejected"}]
    BY DEF TypeOK
  <2>s. /\ keys \in Seq([key : Keys, at : Shown \cup {Null}]) /\ Len(keys) \in Nat
        /\ pressed \in Nat /\ Cardinality(DecidedByKey) \in Nat
    <3>1. DecidedByKey \subseteq Shown
      BY DEF DecidedByKey
    <3>. QED  BY <3>1, ShownFinite, StationAssumption DEF TypeOK
  <2>1. CASE UNCHANGED <<pc, decided, decision, image, reader, keys, pressed>>
    BY <2>1 DEF Keyed, Spent, DecidedByKey
  <2>2. ASSUME NEW i \in Shown, Arrives(i) \/ ServerSends(i) PROVE Keyed' /\ Spent'
    BY <2>1, <2>2 DEF Arrives, ServerSends
  <2>3. CASE ServerReads \/ LinkLost
    BY <2>1, <2>3 DEF ServerReads, LinkLost
  \* The main loop does not touch the keys.
  <2>4. ASSUME UNCHANGED <<keys, pressed>>, DecidedByKey' = DecidedByKey
        PROVE  Spent'
    BY <2>4 DEF Spent
  <2>5. CASE Show
    <3>1. Head(wire) \in Shown /\ reader[Head(wire)] = "none"
      BY <2>5 DEF Show, TypeOK, OnWire
    <3>2. reader' = [reader EXCEPT ![Head(wire)] = "polling"] /\ decided' = decided /\ pc' = "decide"
      BY <2>5 DEF Show
    <3>3. Keyed'
      BY <2>r, <3>1, <3>2 DEF Keyed
    <3>4. DecidedByKey' = DecidedByKey
      BY <2>r, <3>1, <3>2 DEF DecidedByKey
    <3>. QED  BY <2>4, <2>5, <3>3, <3>4 DEF Show
  <2>6. CASE ShowFails \/ ShowBreaks \/ ReadFails
    <3>1. UNCHANGED <<decided, reader, keys, pressed>> /\ pc' = "ended"
      BY <2>6 DEF ShowFails, ShowBreaks, ReadFails, End
    <3>. QED  BY <2>4, <3>1 DEF Keyed, DecidedByKey
  <2>7. CASE KeyDecides
    BY <2>4, <2>7 DEF KeyDecides, Keyed, DecidedByKey
  <2>8. CASE TimesOut
    BY <2>4, <2>8 DEF TimesOut, Keyed, DecidedByKey
  <2>9. CASE Answer
    <3>1. UNCHANGED <<reader, keys, pressed>> /\ pc = "answer" /\ pc' \in {"read", "ended"} /\ image \in Shown
      BY <2>9 DEF Answer, OnScreen
    <3>2. decided' = decided \/ decided' = [decided EXCEPT ![image] = decision]
      BY <2>9 DEF Answer
    <3>3. Keyed'
      BY <2>r, <3>1, <3>2 DEF Keyed
    <3>. QED  BY <2>4, <3>1, <3>3 DEF DecidedByKey
  <2>10. ASSUME NEW k \in Keys, PressKey(k) PROVE Keyed' /\ Spent'
    <3>1. UNCHANGED <<pc, decided, decision, image, reader>> /\ pressed' = pressed + 1
      BY <2>10 DEF PressKey
    <3>2. Len(keys') = Len(keys) + 1
      BY <2>10, <2>s DEF PressKey
    <3>3. DecidedByKey' = DecidedByKey
      BY <3>1 DEF DecidedByKey
    <3>4. Keyed'
      BY <3>1 DEF Keyed
    <3>. QED  BY <2>s, <3>1, <3>2, <3>3, <3>4 DEF Spent
  <2>11. ASSUME NEW i \in Shown, KeyTask(i) PROVE Keyed' /\ Spent'
    <3>1. /\ UNCHANGED <<pc, decided, decision, image, pressed>> /\ reader[i] \in {"polling", "reading"}
          /\ \E x : reader' = [reader EXCEPT ![i] = x]
      BY <2>11 DEF KeyTask, SeesKey, TakesKey
    <3>2. Keyed'
      <4>1. \A j \in Shown : reader[j] = "Accepted" => reader'[j] = "Accepted"
        BY <2>r, <3>1
      <4>2. pc = "answer" => image \in Shown
        BY DEF OnScreen
      <4>. QED  BY <3>1, <4>1, <4>2 DEF Keyed
    <3>3. CASE SeesKey(i)
      <4>1. DecidedByKey' = DecidedByKey /\ keys' = keys
        BY <2>r, <3>1, <3>3 DEF SeesKey, DecidedByKey
      <4>. QED  BY <2>4, <3>1, <3>2, <4>1
    <3>4. CASE TakesKey(i)
      <4>1. Len(keys') = Len(keys) - 1
        BY <2>s, <3>4 DEF TakesKey
      <4>2. DecidedByKey' \in {DecidedByKey, DecidedByKey \cup {i}}
        BY <2>r, <3>1 DEF DecidedByKey
      <4>3. Cardinality(DecidedByKey') <= Cardinality(DecidedByKey) + 1 /\ Cardinality(DecidedByKey') \in Nat
        <5>1. IsFiniteSet(DecidedByKey)
          BY ShownFinite DEF DecidedByKey
        <5>2. Cardinality(DecidedByKey \cup {i}) \in {Cardinality(DecidedByKey), Cardinality(DecidedByKey) + 1}
          BY <5>1, FS_AddElement
        <5>3. CASE DecidedByKey' = DecidedByKey
          BY <2>s, <5>3
        <5>4. CASE DecidedByKey' = DecidedByKey \cup {i}
          BY <2>s, <5>2, <5>4
        <5>. QED  BY <4>2, <5>3, <5>4
      <4>4. Spent'
        BY <2>s, <3>1, <4>1, <4>3 DEF Spent
      <4>. QED  BY <3>2, <4>4
    <3>. QED  BY <2>11, <3>3, <3>4 DEF KeyTask
  <2>12. CASE UNCHANGED vars
    BY <2>1, <2>12 DEF vars
  <2>. QED
    BY <2>2, <2>3, <2>5, <2>6, <2>7, <2>8, <2>9, <2>10, <2>11, <2>12 DEF Next, MainLoop
<1>3. Keyed /\ Spent => AcceptedByKey
  BY DEF Keyed, Spent, DecidedByKey, AcceptedByKey
<1>. QED  BY <1>1, <1>2, <1>3, StationTypeCorrect, StationSendsOnce, PTL DEF Spec

\* A decisive key that goes astray is taken by a task that a time-out left
\* behind, and ends that task.
THEOREM StationMisledByTimeouts == Spec => []MisledByTimeouts
<1> USE DEF server, loop, keyboard, outcome, history, Decisions
<1>1. Init => Left /\ Misled
  <2>1. Init => LateKeys = {}
    BY DEF Init, LateKeys
  <2>. QED  BY <2>1, FS_EmptySet DEF Init, Left, Misled
<1>2. TypeOK /\ OnScreen /\ OnWire /\ Left /\ Misled /\ [Next]_vars => Left' /\ Misled'
  <2> SUFFICES ASSUME TypeOK, OnScreen, OnWire, Left, Misled, [Next]_vars
               PROVE  Left' /\ Misled'
    OBVIOUS
  <2>r. /\ reader \in [Shown -> {"none", "polling", "reading", "Accepted", "Rejected"}]
        /\ timedOut \subseteq Shown /\ mistaken \in Nat
    BY DEF TypeOK
  <2>s. IsFiniteSet(LateKeys) /\ Cardinality(LateKeys) \in Nat
    <3>1. LateKeys \subseteq Shown
      BY <2>r DEF LateKeys
    <3>. QED  BY <3>1, ShownFinite
  <2>1. CASE UNCHANGED <<pc, image, reader, timedOut, mistaken>>
    BY <2>1 DEF Left, Misled, LateKeys
  <2>2. ASSUME NEW i \in Shown, Arrives(i) \/ ServerSends(i) PROVE Left' /\ Misled'
    BY <2>1, <2>2 DEF Arrives, ServerSends
  <2>3. CASE ServerReads \/ LinkLost
    BY <2>1, <2>3 DEF ServerReads, LinkLost
  <2>4. ASSUME UNCHANGED mistaken, LateKeys' = LateKeys
        PROVE  Misled'
    BY <2>4 DEF Misled
  <2>5. CASE Show
    <3>1. Head(wire) \in Shown /\ reader[Head(wire)] = "none"
      BY <2>5 DEF Show, TypeOK, OnWire
    <3>2. /\ reader' = [reader EXCEPT ![Head(wire)] = "polling"] /\ UNCHANGED <<timedOut, mistaken>>
          /\ pc' = "decide" /\ image' = Head(wire) /\ pc # "decide"
      BY <2>5 DEF Show
    <3>3. Left'
      BY <2>r, <3>1, <3>2 DEF Left
    <3>4. LateKeys' = LateKeys
      BY <2>r, <3>1, <3>2 DEF LateKeys
    <3>. QED  BY <2>4, <3>2, <3>3, <3>4
  <2>6. CASE ShowFails \/ ShowBreaks \/ ReadFails
    <3>1. UNCHANGED <<reader, timedOut, mistaken>> /\ pc # "decide"
      BY <2>6 DEF ShowFails, ShowBreaks, ReadFails, End
    <3>2. Left'
      BY <3>1 DEF Left
    <3>. QED  BY <2>4, <3>1, <3>2 DEF LateKeys
  <2>7. CASE KeyDecides
    <3>1. UNCHANGED <<reader, timedOut, mistaken, image>> /\ reader[image] \in Decisions
      BY <2>7 DEF KeyDecides
    <3>2. Left'
      BY <3>1 DEF Left
    <3>. QED  BY <2>4, <3>1, <3>2 DEF LateKeys
  <2>8. CASE TimesOut
    <3>1. /\ UNCHANGED <<reader, mistaken, image>> /\ timedOut' = timedOut \cup {image}
          /\ reader[image] \notin Decisions
      BY <2>8 DEF TimesOut
    <3>2. Left'
      BY <3>1 DEF Left
    <3>3. LateKeys' = LateKeys
      BY <3>1 DEF LateKeys
    <3>. QED  BY <2>4, <3>1, <3>2, <3>3
  <2>9. CASE Answer
    <3>1. UNCHANGED <<reader, timedOut, mistaken>> /\ pc # "decide"
      BY <2>9 DEF Answer
    <3>2. Left'
      BY <3>1 DEF Left
    <3>. QED  BY <2>4, <3>1, <3>2 DEF LateKeys
  <2>10. ASSUME NEW k \in Keys, PressKey(k) PROVE Left' /\ Misled'
    BY <2>1, <2>10 DEF PressKey
  <2>11. ASSUME NEW i \in Shown, SeesKey(i) PROVE Left' /\ Misled'
    <3>1. /\ reader' = [reader EXCEPT ![i] = "reading"] /\ reader[i] = "polling"
          /\ UNCHANGED <<pc, image, timedOut, mistaken>>
      BY <2>11 DEF SeesKey
    <3>2. Left'
      BY <2>r, <3>1 DEF Left
    <3>3. LateKeys' = LateKeys
      BY <2>r, <3>1 DEF LateKeys
    <3>. QED  BY <2>4, <3>1, <3>2, <3>3
  <2>12. ASSUME NEW i \in Shown, TakesKey(i) PROVE Left' /\ Misled'
    <3> DEFINE d == DecidesOn(Head(keys).key)
    <3>1. /\ reader' = [reader EXCEPT ![i] = d] /\ reader[i] = "reading"
          /\ UNCHANGED <<pc, image, timedOut>>
      BY <2>12 DEF TakesKey
    <3>2. d \in {"Accepted", "Rejected", "polling"}
      BY DEF DecidesOn
    <3> HIDE DEF d
    <3>3. Left'
      BY <2>r, <3>1, <3>2 DEF Left
    <3>4. Misled'
      <4>1. CASE Head(keys).key # "other" /\ pc = "decide" /\ i # image
        <5>1. d \in Decisions
          <6>1. Head(keys).key \in {"A", "R"}
            <7>1. Head(keys) \in [key : Keys, at : Shown \cup {Null}]
              <8>1. keys \in Seq([key : Keys, at : Shown \cup {Null}]) /\ keys # <<>>
                BY <2>12 DEF TakesKey, TypeOK
              <8>. QED  BY <8>1, HeadTailProperties
            <7>. QED  BY <4>1, <7>1 DEF Keys
          <6>2. DecidesOn("A") = "Accepted" /\ DecidesOn("R") = "Rejected"
            BY DEF DecidesOn
          <6>. QED  BY <6>1, <6>2 DEF d
        <5>2. i \in timedOut
          BY <3>1, <4>1 DEF Left
        <5>3. LateKeys' = LateKeys \cup {i} /\ i \notin LateKeys
          BY <2>r, <3>1, <5>1, <5>2 DEF LateKeys
        <5>4. Cardinality(LateKeys') = Cardinality(LateKeys) + 1
          BY <2>s, <5>3, FS_AddElement
        <5>5. mistaken' <= mistaken + 1 /\ mistaken' \in Nat
          BY <2>r, <2>12 DEF TakesKey
        <5>. QED  BY <2>r, <2>s, <5>4, <5>5 DEF Misled
      <4>2. CASE ~(Head(keys).key # "other" /\ pc = "decide" /\ i # image)
        <5>1. mistaken' = mistaken
          BY <2>12, <4>2 DEF TakesKey
        <5>2. LateKeys \subseteq LateKeys' /\ LateKeys' \subseteq Shown
          BY <2>r, <3>1 DEF LateKeys
        <5>3. Cardinality(LateKeys) <= Cardinality(LateKeys') /\ Cardinality(LateKeys') \in Nat
          BY <5>2, ShownFinite, FS_Subset
        <5>. QED  BY <2>r, <2>s, <5>1, <5>3 DEF Misled
      <4>. QED  BY <4>1, <4>2
    <3>. QED  BY <3>3, <3>4
  <2>13. CASE UNCHANGED vars
    BY <2>1, <2>13 DEF vars
  <2>. QED
    BY <2>2, <2>3, <2>5, <2>6, <2>7, <2>8, <2>9, <2>10, <2>11, <2>12, <2>13
    DEF Next, MainLoop, KeyTask
<1>3. TypeOK /\ Misled => MisledByTimeouts
  <2>1. TypeOK => LateKeys \subseteq timedOut /\ timedOut \subseteq Shown /\ mistaken \in Nat
    BY DEF TypeOK, LateKeys
  <2>2. TypeOK => /\ Cardinality(LateKeys) <= Cardinality(timedOut)
                  /\ Cardinality(timedOut) \in Nat /\ Cardinality(LateKeys) \in Nat
    BY <2>1, ShownFinite, FS_Subset
  <2>. QED  BY <2>1, <2>2 DEF Misled, MisledByTimeouts
<1>. QED  BY <1>1, <1>2, <1>3, StationTypeCorrect, StationSendsOnce, PTL DEF Spec
=============================================================================
