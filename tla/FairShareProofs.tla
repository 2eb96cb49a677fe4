--------------------------- MODULE FairShareProofs ---------------------------
(***************************************************************************)
(* Nobody that waits is passed over twice by the same operator: whoever    *)
(* passed another one has the later idle time from then on, so the scan    *)
(* prefers the other.                                                      *)
(***************************************************************************)
EXTENDS FairShare, ImageServerProofs, TLAPS

\* The server's variables change as in ImageServer, whatever is counted.
LEMMA FairTypeCorrect == SpecF => []TypeOK
<1>1. SpecF => Spec
  <2>1. InitF => Init
    BY DEF InitF
  <2>2. [Next /\ Count]_varsF => [Next]_vars
    BY DEF varsF
  <2> QED
    BY <2>1, <2>2, PTL DEF SpecF, Spec
<1> QED
  BY <1>1, TypeCorrect, PTL

(***************************************************************************)
(* What a step does to one operator's entry of operatorIdleMap_: nothing,  *)
(* a fresh idle time, its removal, or it is served as the most idle one.   *)
(***************************************************************************)
LEMMA EntryStep ==
    ASSUME TypeOK, [Next]_vars, ~("clock_back" \in Faults)
    PROVE  /\ clock' >= clock
           /\ \/ UNCHANGED <<opState, tpAvailableTime>>
              \/ \E o \in OperatorId :
                    /\ clock' = clock + 1
                    /\ tpAvailableTime' = [tpAvailableTime EXCEPT ![o] = clock + 1]
                    /\ \/ opState' = [opState EXCEPT ![o] = "AVAILABLE"]
                       \/ opState' = opState
                       \/ IsMostIdle(o) /\ opState' = [opState EXCEPT ![o] = "BUSY"]
              \/ \E o \in OperatorId :
                    /\ opState' = [opState EXCEPT ![o] = "absent"]
                    /\ UNCHANGED tpAvailableTime
<1>1. clock \in Nat
  BY DEF TypeOK
<1>2. CASE UNCHANGED opMap
  BY <1>2 DEF opMap, TypeOK
<1>3. CASE RegisterOperator
  <2>1. systemId[cur] \in OperatorId
    BY <1>3 DEF RegisterOperator, registerOperator
  <2>2. opState' \in {opState, [opState EXCEPT ![systemId[cur]] = "AVAILABLE"]}
    BY <1>3 DEF RegisterOperator, registerOperator, TypeOK
  <2>3. /\ clock' = clock + 1
        /\ tpAvailableTime' = [tpAvailableTime EXCEPT ![systemId[cur]] = clock + 1]
    BY <1>3 DEF RegisterOperator, registerOperator
  <2>4. \E o \in OperatorId :
          /\ clock' = clock + 1
          /\ tpAvailableTime' = [tpAvailableTime EXCEPT ![o] = clock + 1]
          /\ opState' = [opState EXCEPT ![o] = "AVAILABLE"] \/ opState' = opState
    BY <2>1, <2>2, <2>3
  <2>5. clock' >= clock
    BY <1>1, <2>3
  <2> QED
    BY <2>4, <2>5
<1>4. ASSUME NEW s \in Session, ReadDecision(s)
      PROVE  /\ systemId[s] \in OperatorId
             /\ clock' = clock + 1
             /\ tpAvailableTime' = [tpAvailableTime EXCEPT ![systemId[s]] = clock + 1]
             /\ opState' = [opState EXCEPT ![systemId[s]] = "AVAILABLE"]
  BY <1>4 DEF ReadDecision
<1>5. ASSUME NEW s \in Session, OperatorReadFails(s)
      PROVE  /\ UNCHANGED <<tpAvailableTime, clock>>
             /\ \/ UNCHANGED opState
                \/ /\ systemId[s] \in OperatorId
                   /\ opState' = [opState EXCEPT ![systemId[s]] = "absent"]
  BY <1>5 DEF OperatorReadFails
<1>6. ASSUME NEW o \in OperatorId, NEW img \in Image \cup {EmptyImage}, AssignTo(o, img)
      PROVE  \/ UNCHANGED opMap
             \/ MarkBusy(o) /\ IsMostIdle(o)
  BY <1>6 DEF AssignTo, AssignSends, AssignSendFails, AssignSpawnFails, AssignNoSession
<1>7. \/ UNCHANGED opMap
      \/ RegisterOperator
      \/ \E s \in Session : ReadDecision(s) \/ OperatorReadFails(s)
      \/ \E o \in OperatorId, img \in Image \cup {EmptyImage} : AssignTo(o, img)
  BY DEF Next, Environment, Continue, Dispatch, vars, Dial, Identify, ClientSends, OperatorDecides,
         OperatorChokes, PeerDies, LeavesEarly, ClockSet, HandshakeAborts, RegisterClient, AssignDone,
         AssignNobody, AssignAllBusy, AssignSpins, AssignReturns, Accept, ReadImage, handleImage,
         ClientReadFails, AbortedRead
<1>8. CASE \E s \in Session : ReadDecision(s)
  BY <1>4, <1>1, <1>8
<1>9. CASE \E s \in Session : OperatorReadFails(s)
  BY <1>5, <1>1, <1>9
<1>10. CASE \E o \in OperatorId, img \in Image \cup {EmptyImage} : AssignTo(o, img)
  BY <1>2, <1>6, <1>1, <1>10 DEF MarkBusy
<1> QED
  BY <1>2, <1>3, <1>7, <1>8, <1>9, <1>10

-----------------------------------------------------------------------------
\* An operator that passed another one is behind it, see FairShare.
THEOREM OvertakersBehindCorrect == SpecF => []OvertakersBehind
<1> DEFINE T == tpAvailableTime
<1>1. InitF => OvertakersBehind
  BY DEF InitF, Init, OvertakersBehind
<1>2. TypeOK /\ TypeOK' /\ OvertakersBehind /\ [Next /\ Count]_varsF => OvertakersBehind'
  <2> SUFFICES ASSUME TypeOK, TypeOK', OvertakersBehind, [Next /\ Count]_varsF PROVE OvertakersBehind'
    OBVIOUS
  <2>1. CASE UNCHANGED varsF
    BY <2>1 DEF varsF, vars, opMap, OvertakersBehind
  <2> SUFFICES ASSUME Next, Count PROVE OvertakersBehind'
    BY <2>1
  <2>2. passed' \in [OperatorId -> [OperatorId -> Nat]]
    BY DEF Count, OvertakersBehind
  <2> SUFFICES ASSUME Absent({"clock_back"})
               PROVE  /\ \A o \in OperatorId : T'[o] <= clock'
                      /\ \A p, o \in OperatorId :
                            /\ opState'[p] # "AVAILABLE" => passed'[p][o] = 0
                            /\ passed'[p][o] # 0 => passed'[p][o] = 1 /\ T'[p] < T'[o]
    BY <2>2 DEF OvertakersBehind
  <2>3. ~("clock_back" \in Faults) /\ [Next]_vars
    BY DEF Absent
  <2>4. /\ clock \in Nat /\ clock' >= clock
        /\ \A o \in OperatorId : T[o] \in Nat /\ T[o] <= clock
    BY <2>3, EntryStep DEF TypeOK, OvertakersBehind
  <2>5. ASSUME NEW o \in OperatorId
        PROVE  \/ T'[o] = T[o]
               \/ T'[o] = clock + 1 /\ clock' = clock + 1
    BY <2>3, EntryStep DEF TypeOK
  <2>6. clock' \in Int
    BY DEF TypeOK
  <2>7. \A o \in OperatorId : T'[o] <= clock'
    BY <2>4, <2>5, <2>6
  <2>8. ASSUME NEW p \in OperatorId, NEW o \in OperatorId
        PROVE  /\ opState'[p] # "AVAILABLE" => passed'[p][o] = 0
               /\ passed'[p][o] # 0 => passed'[p][o] = 1 /\ T'[p] < T'[o]
    <3>1. passed'[p][o] = IF ~Waits(p) THEN 0
                          ELSE IF Served(o) THEN passed[p][o] + 1 ELSE passed[p][o]
      BY DEF Count
    <3>2. CASE ~Waits(p)
      BY <3>1, <3>2
    <3>3. CASE Waits(p) /\ ~Served(o)
      <4>1. passed'[p][o] = passed[p][o] /\ T'[p] = T[p] /\ opState'[p] = "AVAILABLE"
        BY <3>1, <3>3 DEF Waits
      <4>2. T'[o] >= T[o]
        BY <2>4, <2>5
      <4>3. passed[p][o] # 0 => passed[p][o] = 1 /\ T[p] < T[o]
        BY DEF OvertakersBehind
      <4>4. T'[o] \in Int
        BY <2>4, <2>5
      <4> QED
        BY <2>4, <4>1, <4>2, <4>3, <4>4
    <3>4. CASE Waits(p) /\ Served(o)
      <4>1. T'[p] = T[p] /\ opState[p] = "AVAILABLE" /\ opState'[p] = "AVAILABLE"
        BY <3>4 DEF Waits
      <4>2. IsMostIdle(o) /\ T'[o] = clock + 1
        BY <2>3, <3>4, EntryStep DEF Served, TypeOK
      <4>3. p \in Idle
        BY <2>4, <4>1 DEF Idle, Available, Operators
      <4>4. T[o] <= T[p]
        BY <4>2, <4>3 DEF IsMostIdle
      <4>5. passed[p][o] = 0
        BY <2>4, <4>4 DEF OvertakersBehind
      <4> QED
        BY <2>4, <3>1, <3>4, <4>1, <4>2, <4>5
    <3> QED
      BY <3>2, <3>3, <3>4
  <2> QED
    BY <2>7, <2>8
<1> QED
  BY <1>1, <1>2, FairTypeCorrect, PTL DEF SpecF

\* No operator that waits is passed over twice by the same other one.
THEOREM Fair == SpecF => []NoOvertaking
<1>1. OvertakersBehind => NoOvertaking
  BY DEF OvertakersBehind, NoOvertaking
<1> QED
  BY <1>1, OvertakersBehindCorrect, PTL
=============================================================================
