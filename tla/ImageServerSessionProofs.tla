---------------------- MODULE ImageServerSessionProofs ----------------------
(***************************************************************************)
(* Theorems about the sessions of ImageServer and the maps they are        *)
(* registered in, which the handlers dereference without a check.          *)
(***************************************************************************)
EXTENDS ImageServerProofs

(***************************************************************************)
(* A session is registered under its own id only, and the thread in a      *)
(* handshake has a session that waits for one.                             *)
(***************************************************************************)
THEOREM SessionsHaveIdsCorrect == Spec => []SessionsHaveIds
<1> USE DEF SessionsHaveIds, Established
<1>1. Init => SessionsHaveIds
  BY DEF Init
<1>2. TypeOK /\ SessionsHaveIds /\ [Next]_vars => SessionsHaveIds'
  <2> SUFFICES ASSUME TypeOK, SessionsHaveIds, [Next]_vars PROVE SessionsHaveIds'
    OBVIOUS
  <2> DEFINE sessions == <<phase, systemId, clients_, operators_>>
  <2>a. /\ \A c \in ClientId : clients_[c] # Null => clients_[c] \in Session
        /\ \A o \in OperatorId : operators_[o] # Null => operators_[o] \in Session
    BY DEF TypeOK
  <2>b. /\ Null \notin Session
        /\ \A x \in ClientId \cup OperatorId : x # Null
    BY ConstantsOK
  <2>1. ASSUME NEW s \in Session, NEW id \in ClientId \cup OperatorId, Dial(s, id)
        PROVE  SessionsHaveIds'
    <3>1. \A t \in Session : /\ phase'[t] = IF t = s THEN "dialed" ELSE phase[t]
                             /\ systemId'[t] = IF t = s THEN id ELSE systemId[t]
      BY <2>1 DEF Dial, TypeOK
    <3>2. phase[s] = "unused" /\ systemId[s] = Null
      BY <2>1 DEF Dial
    <3>3. UNCHANGED <<clients_, operators_, pc, cur>>
      BY <2>1 DEF Dial, flow, opMap, thread
    <3>4. \A t \in Session : phase'[t] = "unused" <=> systemId'[t] = Null
      BY <2>b, <3>1
    <3>5. \A c \in ClientId : clients_[c] # s
      BY <2>b, <3>2
    <3>6. \A o \in OperatorId : operators_[o] # s
      BY <2>b, <3>2
    <3>7. \A c \in ClientId : clients_[c] # Null =>
             systemId'[clients_[c]] = c /\ phase'[clients_[c]] \in Established
      BY <2>a, <3>1, <3>5
    <3>8. \A o \in OperatorId : operators_[o] # Null =>
             systemId'[operators_[o]] = o /\ phase'[operators_[o]] \in Established
      BY <2>a, <3>1, <3>6
    <3> QED
      BY <3>1, <3>2, <3>3, <3>4, <3>7, <3>8
  <2>2. ASSUME NEW s \in Session, Identify(s) PROVE SessionsHaveIds'
    <3>1. \A t \in Session : phase'[t] = IF t = s THEN "identified" ELSE phase[t]
      BY <2>2 DEF Identify, TypeOK
    <3>2. phase[s] = "dialed" /\ UNCHANGED <<systemId, clients_, operators_, pc, cur>>
      BY <2>2 DEF Identify, flow, opMap, thread
    <3> QED
      BY <2>a, <3>1, <3>2
  <2>11. ASSUME NEW s \in Session, LeavesEarly(s) PROVE SessionsHaveIds'
    <3>1. \A t \in Session : phase'[t] = IF t = s THEN "dialed" ELSE phase[t]
      BY <2>11 DEF LeavesEarly, TypeOK
    <3>2. /\ phase[s] \in {"dialed", "identified"}
          /\ UNCHANGED <<systemId, clients_, operators_, pc, cur>>
      BY <2>11 DEF LeavesEarly, flow, opMap, thread
    <3>3. \A t \in Session : /\ phase'[t] = "unused" <=> phase[t] = "unused"
                             /\ phase[t] \in Established => phase'[t] \in Established
      BY <3>1, <3>2
    <3>4. pc' = "handshake" => cur' \in Session /\ phase'[cur'] \in {"dialed", "identified"}
      BY <3>1, <3>2
    <3> QED
      BY <2>a, <3>2, <3>3, <3>4
  <2>3. ASSUME NEW s \in Session, Accept(s) PROVE SessionsHaveIds'
    BY <2>3 DEF Accept, flow, opMap
  <2>4. CASE RegisterClient
    <3>1. \A t \in Session : phase'[t] = IF t = cur THEN "open" ELSE phase[t]
      BY <2>4 DEF RegisterClient, TypeOK
    <3>2. cur \in Session /\ phase[cur] = "identified" /\ systemId[cur] \in ClientId
      BY <2>4 DEF RegisterClient
    <3>3. \A c \in ClientId : clients_'[c] = IF c = systemId[cur] THEN cur ELSE clients_[c]
      BY <2>4 DEF RegisterClient, TypeOK
    <3>4. pc' = "poll" /\ UNCHANGED <<systemId, operators_>>
      BY <2>4 DEF RegisterClient, opMap
    <3>5. \A c \in ClientId : clients_'[c] # Null =>
             systemId[clients_'[c]] = c /\ phase'[clients_'[c]] \in Established
      BY <2>a, <3>1, <3>2, <3>3
    <3>6. \A o \in OperatorId : operators_[o] # Null => phase'[operators_[o]] \in Established
      BY <2>a, <3>1
    <3>7. \A t \in Session : phase'[t] = "unused" <=> phase[t] = "unused"
      BY <3>1, <3>2
    <3> QED
      BY <3>4, <3>5, <3>6, <3>7
  <2>5. CASE RegisterOperator
    <3>1. \A t \in Session : phase'[t] = IF t = cur THEN "open" ELSE phase[t]
      BY <2>5 DEF RegisterOperator, registerOperator, TypeOK
    <3>2. cur \in Session /\ phase[cur] = "identified" /\ systemId[cur] \in OperatorId
      BY <2>5 DEF RegisterOperator, registerOperator
    <3>3. \A o \in OperatorId : operators_'[o] = IF o = systemId[cur] THEN cur ELSE operators_[o]
      BY <2>5 DEF RegisterOperator, registerOperator, TypeOK
    <3>4. pc' # "handshake" /\ UNCHANGED <<systemId, clients_>>
      BY <2>5 DEF RegisterOperator, registerOperator, flow
    <3>5. \A o \in OperatorId : operators_'[o] # Null =>
             systemId[operators_'[o]] = o /\ phase'[operators_'[o]] \in Established
      BY <2>a, <3>1, <3>2, <3>3
    <3>6. \A c \in ClientId : clients_[c] # Null => phase'[clients_[c]] \in Established
      BY <2>a, <3>1
    <3>7. \A t \in Session : phase'[t] = "unused" <=> phase[t] = "unused"
      BY <3>1, <3>2
    <3> QED
      BY <3>4, <3>5, <3>6, <3>7
  <2>6. ASSUME NEW s \in Session, NEW d \in Session, phase[s] = "open",
               phase[d] \in Established, phase' = Closed(s, d)
        PROVE  \A t \in Session : /\ phase'[t] = "unused" <=> phase[t] = "unused"
                                  /\ phase[t] \in Established => phase'[t] \in Established
    BY <2>6 DEF Closed, TypeOK
  <2>7. ASSUME NEW s \in Session, ClientReadFails(s) PROVE SessionsHaveIds'
    <3>1. UNCHANGED phase \/ (clients_[systemId[s]] # Null /\ phase' = Closed(s, clients_[systemId[s]]))
      BY <2>7 DEF ClientReadFails
    <3>2. phase[s] = "open" /\ systemId[s] \in ClientId
      BY <2>7 DEF ClientReadFails
    <3>3. \A t \in Session : /\ phase'[t] = "unused" <=> phase[t] = "unused"
                             /\ phase[t] \in Established => phase'[t] \in Established
      BY <2>a, <2>6, <3>1, <3>2
    <3>4. \A c \in ClientId : clients_'[c] \in {clients_[c], Null}
      BY <2>7 DEF ClientReadFails, TypeOK
    <3>5. pc' # "handshake" /\ UNCHANGED <<systemId, operators_>>
      BY <2>7 DEF ClientReadFails, opMap
    <3> QED
      BY <2>a, <3>3, <3>4, <3>5
  <2>8. ASSUME NEW s \in Session, OperatorReadFails(s) PROVE SessionsHaveIds'
    <3>1. \/ UNCHANGED phase
          \/ operators_[systemId[s]] # Null /\ phase' = Closed(s, operators_[systemId[s]])
      BY <2>8 DEF OperatorReadFails
    <3>2. phase[s] = "open" /\ systemId[s] \in OperatorId
      BY <2>8 DEF OperatorReadFails
    <3>3. \A t \in Session : /\ phase'[t] = "unused" <=> phase[t] = "unused"
                             /\ phase[t] \in Established => phase'[t] \in Established
      BY <2>a, <2>6, <3>1, <3>2
    <3>4. \A o \in OperatorId : operators_'[o] \in {operators_[o], Null}
      BY <2>8 DEF OperatorReadFails, TypeOK
    <3>5. pc' # "handshake" /\ UNCHANGED <<systemId, clients_>>
      BY <2>8 DEF OperatorReadFails, flow
    <3> QED
      BY <2>a, <3>3, <3>4, <3>5
  <2>9. ASSUME UNCHANGED sessions, pc' # "handshake" \/ UNCHANGED thread PROVE SessionsHaveIds'
    BY <2>9 DEF thread
  <2>10. \/ \E s \in Session, id \in ClientId \cup OperatorId : Dial(s, id)
         \/ \E s \in Session : \/ Identify(s) \/ LeavesEarly(s) \/ Accept(s)
                               \/ ClientReadFails(s) \/ OperatorReadFails(s)
         \/ RegisterClient \/ RegisterOperator
         \/ UNCHANGED sessions /\ (pc' # "handshake" \/ UNCHANGED thread)
    <3> HIDE DEF SessionsHaveIds
    <3>1. CASE Environment
      BY <3>1 DEF Environment, OperatorDecides, OperatorChokes, PeerDies, ClientSends, ClockSet,
                  opMap, flow
    <3>2. CASE Continue
      BY <3>2 DEF Continue, AssignTo, HandshakeAborts, AssignDone, AssignNobody, AssignAllBusy,
                  AssignSpins, AssignReturns, AssignSends, AssignSendFails, AssignSpawnFails,
                  AssignNoSession, MarkBusy, CatchFailure, thread, opMap, flow
    <3>3. CASE \E s \in Session : Dispatch(s)
      BY <3>3 DEF Dispatch, ReadImage, handleImage, ReadDecision, AbortedRead, resumeClients, thread, opMap, flow
    <3>4. CASE UNCHANGED vars
      BY <3>4 DEF vars, thread, opMap, flow
    <3> QED
      BY <3>1, <3>2, <3>3, <3>4 DEF Next
  <2> QED
    BY <2>1, <2>2, <2>3, <2>4, <2>5, <2>7, <2>8, <2>9, <2>10, <2>11
<1> QED
  BY <1>1, <1>2, TypeCorrect, PTL DEF Spec

-----------------------------------------------------------------------------
(***************************************************************************)
(* If no id connects twice, the maps hold exactly the open sessions, and   *)
(* operators_ and operatorIdleMap_ have the same keys.                     *)
(***************************************************************************)
THEOREM MapsCorrect == Spec => [](MapsHoldOpenSessions /\ MapsAgree)
<1> DEFINE Inv == MapsHoldOpenSessions /\ MapsAgree
<1> USE DEF MapsHoldOpenSessions, MapsAgree, Clients
<1>1. Init => Inv
  BY DEF Init
<1>2. TypeOK /\ SessionsHaveIds /\ Inv /\ [Next]_vars => Inv'
  <2>1. CASE ~Absent({"overlap"})
    BY <2>1
  <2> SUFFICES ASSUME TypeOK, SessionsHaveIds, Inv, [Next]_vars, Absent({"overlap"}) PROVE Inv'
    BY <2>1
  <2> DEFINE sessions == <<phase, systemId, clients_, operators_>>
  <2> DEFINE keys == <<operators_, opState>>
  <2>2. ASSUME NEW s \in Session, NEW id \in ClientId \cup OperatorId, Dial(s, id) PROVE Inv'
    <3>1. \A t \in Session : /\ phase'[t] = IF t = s THEN "dialed" ELSE phase[t]
                             /\ systemId'[t] = IF t = s THEN id ELSE systemId[t]
      BY <2>2 DEF Dial, TypeOK
    <3>2. phase[s] = "unused" /\ \A t \in Session : systemId[t] = id => phase[t] = "done"
      BY <2>2 DEF Dial, Absent
    <3>3. UNCHANGED <<clients_, keys>>
      BY <2>2 DEF Dial, flow, opMap
    <3>4. \A t, u \in Session :
             t # u /\ systemId'[t] = systemId'[u] /\ systemId'[t] # Null
                => phase'[t] = "done" \/ phase'[u] = "done"
      BY <3>1, <3>2
    <3>5. \A c \in Clients : clients_[c] \in Session /\ clients_[c] # s
      BY <3>2 DEF TypeOK
    <3>6. \A o \in OperatorId : operators_[o] # Null => operators_[o] \in Session /\ operators_[o] # s
      BY <3>2 DEF TypeOK
    <3>7. \A t \in Session : phase'[t] = "open" => t # s /\ phase[t] = "open"
      BY <3>1
    <3> QED
      BY <3>1, <3>3, <3>4, <3>5, <3>6, <3>7
  <2>12. ASSUME NEW s \in Session, LeavesEarly(s) PROVE Inv'
    <3>1. \A t \in Session : phase'[t] = IF t = s THEN "dialed" ELSE phase[t]
      BY <2>12 DEF LeavesEarly, TypeOK
    <3>2. phase[s] \in {"dialed", "identified"} /\ UNCHANGED <<systemId, clients_, keys>>
      BY <2>12 DEF LeavesEarly, flow, opMap
    <3>3. \A c \in Clients : clients_[c] \in Session /\ clients_[c] # s
      BY <3>2 DEF TypeOK
    <3>4. \A o \in OperatorId : operators_[o] # Null => operators_[o] \in Session /\ operators_[o] # s
      BY <3>2 DEF TypeOK
    <3> QED
      BY <3>1, <3>2, <3>3, <3>4
  <2>3. ASSUME NEW s \in Session, Identify(s) PROVE Inv'
    <3>1. \A t \in Session : phase'[t] = IF t = s THEN "identified" ELSE phase[t]
      BY <2>3 DEF Identify, TypeOK
    <3>2. phase[s] = "dialed" /\ UNCHANGED <<systemId, clients_, keys>>
      BY <2>3 DEF Identify, flow, opMap
    <3>3. \A c \in Clients : clients_[c] \in Session /\ clients_[c] # s
      BY <3>2 DEF TypeOK
    <3>4. \A o \in OperatorId : operators_[o] # Null => operators_[o] \in Session /\ operators_[o] # s
      BY <3>2 DEF TypeOK
    <3> QED
      BY <3>1, <3>2, <3>3, <3>4
  <2>4. CASE RegisterClient
    <3>1. \A t \in Session : phase'[t] = IF t = cur THEN "open" ELSE phase[t]
      BY <2>4 DEF RegisterClient, TypeOK
    <3>2. cur \in Session /\ phase[cur] = "identified" /\ systemId[cur] \in ClientId
      BY <2>4 DEF RegisterClient, SessionsHaveIds
    <3>3. \A c \in ClientId : clients_'[c] = IF c = systemId[cur] THEN cur ELSE clients_[c]
      BY <2>4 DEF RegisterClient, TypeOK
    <3>4. UNCHANGED <<systemId, keys>>
      BY <2>4 DEF RegisterClient, opMap
    <3>5. \A t \in Session : t # cur /\ systemId[t] = systemId[cur] => phase[t] = "done"
      BY <3>2, ConstantsOK
    <3>6. \A t \in Session : t # cur => phase'[t] = phase[t]
      BY <3>1
    <3>7. \A t \in Session :
             phase'[t] = "open" /\ systemId[t] \in ClientId => clients_'[systemId[t]] = t
      BY <3>1, <3>2, <3>3, <3>5
    <3>8. \A t \in Session : 
             phase'[t] = "open" /\ systemId[t] \in OperatorId => operators_[systemId[t]] = t
      BY <3>1, <3>2, ConstantsOK
    <3>9. \A o \in OperatorId : operators_[o] # Null => phase'[operators_[o]] = "open"
      BY <3>1, <3>2 DEF TypeOK
    <3>10. ASSUME NEW c \in ClientId, clients_'[c] # Null
           PROVE  phase'[clients_'[c]] = "open"
      <4>1. clients_'[c] = cur \/ (clients_[c] # Null /\ clients_'[c] = clients_[c])
        BY <3>3, <3>10
      <4>2. clients_[c] # Null => clients_[c] \in Session
        BY DEF TypeOK
      <4> QED
        BY <3>1, <3>2, <4>1, <4>2
    <3>11. \A t \in Session : phase'[t] # "destroyed"
      BY <3>1
    <3>12. \A t, u \in Session :
             t # u /\ systemId[t] = systemId[u] /\ systemId[t] # Null
                => phase'[t] = "done" \/ phase'[u] = "done"
      BY <3>1, <3>2, <3>5
    <3> QED
      BY <3>4, <3>7, <3>8, <3>9, <3>10, <3>11, <3>12
  <2>5. CASE RegisterOperator
    <3>1. \A t \in Session : phase'[t] = IF t = cur THEN "open" ELSE phase[t]
      BY <2>5 DEF RegisterOperator, registerOperator, TypeOK
    <3>2. cur \in Session /\ phase[cur] = "identified" /\ systemId[cur] \in OperatorId
      BY <2>5 DEF RegisterOperator, registerOperator, SessionsHaveIds
    <3>3. \A o \in OperatorId :
             /\ operators_'[o] = IF o = systemId[cur] THEN cur ELSE operators_[o]
             /\ o # systemId[cur] => opState'[o] = opState[o]
      BY <2>5 DEF RegisterOperator, registerOperator, TypeOK
    <3>4. opState'[systemId[cur]] # "absent"
      BY <2>5, <3>2 DEF RegisterOperator, registerOperator, TypeOK
    <3>5. UNCHANGED <<systemId, clients_>>
      BY <2>5 DEF RegisterOperator, registerOperator, flow
    <3>6. \A t \in Session : t # cur /\ systemId[t] = systemId[cur] => phase[t] = "done"
      BY <3>2, ConstantsOK
    <3>7. \A t \in Session :
             phase'[t] = "open" /\ systemId[t] \in OperatorId => operators_'[systemId[t]] = t
      BY <3>1, <3>2, <3>3, <3>6
    <3>8. \A t \in Session :
             phase'[t] = "open" /\ systemId[t] \in ClientId => clients_[systemId[t]] = t
      BY <3>1, <3>2, ConstantsOK
    <3>9. ASSUME NEW o \in OperatorId, operators_'[o] # Null
          PROVE  phase'[operators_'[o]] = "open"
      <4>1. operators_'[o] = cur \/ (operators_[o] # Null /\ operators_'[o] = operators_[o])
        BY <3>3, <3>9
      <4>2. operators_[o] # Null => operators_[o] \in Session
        BY DEF TypeOK
      <4> QED
        BY <3>1, <3>2, <4>1, <4>2
    <3>10. \A c \in ClientId : clients_[c] # Null => phase'[clients_[c]] = "open"
      BY <3>1, <3>2 DEF TypeOK
    <3>11. \A t \in Session : phase'[t] # "destroyed"
      BY <3>1
    <3>12. \A t, u \in Session :
             t # u /\ systemId[t] = systemId[u] /\ systemId[t] # Null
                => phase'[t] = "done" \/ phase'[u] = "done"
      BY <3>1, <3>2, <3>6
    <3>13. \A o \in OperatorId : opState'[o] = "absent" <=> operators_'[o] = Null
      BY <3>2, <3>3, <3>4, ConstantsOK
    <3> QED
      BY <3>5, <3>7, <3>8, <3>9, <3>10, <3>11, <3>12, <3>13
  <2>6. ASSUME NEW s \in Session, ClientReadFails(s) PROVE Inv'
    <3>1. phase[s] = "open" /\ systemId[s] \in ClientId /\ clients_[systemId[s]] = s
      BY <2>6 DEF ClientReadFails
    <3>2. s # Null
      BY ConstantsOK
    <3>3. \A t \in Session : phase'[t] = IF t = s THEN "done" ELSE phase[t]
      BY <2>6, <3>1, <3>2 DEF ClientReadFails, Closed, TypeOK
    <3>4. \A c \in ClientId : clients_'[c] = IF c = systemId[s] THEN Null ELSE clients_[c]
      BY <2>6, <3>1, <3>2 DEF ClientReadFails, TypeOK
    <3>5. UNCHANGED <<systemId, keys>>
      BY <2>6 DEF ClientReadFails, opMap
    <3>6. \A c \in ClientId : clients_'[c] # Null =>
             clients_[c] = clients_'[c] /\ clients_[c] \in Session /\ clients_[c] # s
      BY <3>1, <3>4 DEF SessionsHaveIds, TypeOK
    <3>7. \A o \in OperatorId : operators_[o] # Null => operators_[o] \in Session /\ operators_[o] # s
      BY <3>1, ConstantsOK DEF SessionsHaveIds, TypeOK
    <3>8. \A t \in Session : t # s /\ phase[t] = "open" => systemId[t] # systemId[s]
      BY <3>1, ConstantsOK
    <3> QED
      BY <3>1, <3>3, <3>4, <3>5, <3>6, <3>7, <3>8
  <2>7. ASSUME NEW s \in Session, OperatorReadFails(s) PROVE Inv'
    <3>1. phase[s] = "open" /\ systemId[s] \in OperatorId /\ operators_[systemId[s]] = s
      BY <2>7 DEF OperatorReadFails
    <3>2. s # Null
      BY ConstantsOK
    <3>3. \A t \in Session : phase'[t] = IF t = s THEN "done" ELSE phase[t]
      BY <2>7, <3>1, <3>2 DEF OperatorReadFails, Closed, TypeOK
    <3>4. \A o \in OperatorId :
             /\ operators_'[o] = IF o = systemId[s] THEN Null ELSE operators_[o]
             /\ opState'[o] = IF o = systemId[s] THEN "absent" ELSE opState[o]
      BY <2>7, <3>1, <3>2 DEF OperatorReadFails, TypeOK
    <3>5. UNCHANGED <<systemId, clients_>>
      BY <2>7 DEF OperatorReadFails, flow
    <3>6. \A o \in OperatorId : operators_'[o] # Null =>
             operators_[o] = operators_'[o] /\ operators_[o] \in Session /\ operators_[o] # s
      BY <3>1, <3>4 DEF SessionsHaveIds, TypeOK
    <3>7. \A c \in Clients : clients_[c] \in Session /\ clients_[c] # s
      BY <3>1, ConstantsOK DEF SessionsHaveIds, TypeOK
    <3>8. \A t \in Session : t # s /\ phase[t] = "open" => systemId[t] # systemId[s]
      BY <3>1, ConstantsOK
    <3> QED
      BY <3>1, <3>3, <3>4, <3>5, <3>6, <3>7, <3>8
  <2>8. ASSUME UNCHANGED sessions, \A o \in OperatorId : opState'[o] = "absent" <=> opState[o] = "absent"
        PROVE  Inv'
    BY <2>8
  <2>9. ASSUME NEW s \in Session, ReadDecision(s) PROVE Inv'
    <3>1. opState[systemId[s]] # "absent"
      BY <2>9, ConstantsOK DEF ReadDecision
    <3> QED
      BY <2>8, <2>9, <3>1 DEF ReadDecision, flow, resumeClients, TypeOK
  <2>10. ASSUME NEW o \in OperatorId, NEW img \in Image \cup {EmptyImage}, AssignTo(o, img)
         PROVE  Inv'
    <3>1. opState[o] # "absent"
      BY <2>10 DEF AssignTo, AssignSends, AssignSendFails, AssignSpawnFails, AssignNoSession,
                   IsMostIdle, Idle, Available, Operators
    <3>2. UNCHANGED sessions
      BY <2>10 DEF AssignTo, AssignSends, AssignSendFails, AssignSpawnFails, AssignNoSession,
                   MarkBusy, flow, opMap
    <3>3. UNCHANGED opState \/ opState' = [opState EXCEPT ![o] = "BUSY"]
      BY <2>10 DEF AssignTo, AssignSends, AssignSendFails, AssignSpawnFails, AssignNoSession,
                   MarkBusy, opMap
    <3> QED
      BY <2>8, <3>1, <3>2, <3>3 DEF TypeOK
  <2>11. \/ \E s \in Session, id \in ClientId \cup OperatorId : Dial(s, id)
         \/ \E s \in Session : \/ Identify(s) \/ LeavesEarly(s) \/ ReadDecision(s)
                               \/ ClientReadFails(s) \/ OperatorReadFails(s)
         \/ RegisterClient \/ RegisterOperator
         \/ \E o \in OperatorId, img \in Image \cup {EmptyImage} : AssignTo(o, img)
         \/ UNCHANGED sessions /\ UNCHANGED opState
    BY DEF Next, Environment, Continue, Dispatch, vars, thread, opMap, flow, OperatorDecides,
           OperatorChokes, PeerDies, ClientSends, ClockSet, HandshakeAborts, AssignDone,
           AssignNobody, AssignAllBusy, AssignSpins, AssignReturns, pauseClients, resumeClients,
           Accept, ReadImage, handleImage, AbortedRead
  <2> QED
    BY <2>2, <2>3, <2>4, <2>5, <2>6, <2>7, <2>8, <2>9, <2>10, <2>11, <2>12
<1> QED
  BY <1>1, <1>2, TypeCorrect, SessionsHaveIdsCorrect, PTL DEF Spec

-----------------------------------------------------------------------------
(***************************************************************************)
(* How a step may change a session: once it has had its handshake it stays *)
(* so, only Dial gives it an id and only its own Identify ends "dialed".   *)
(***************************************************************************)
LEMMA SessionsAge ==
    ASSUME TypeOK, SessionsHaveIds, [Next]_vars
    PROVE  \A s \in Session :
              /\ phase[s] \in Established => phase'[s] \in Established
              /\ phase[s] # "unused" => systemId'[s] = systemId[s]
              /\ phase'[s] = "dialed" => \/ phase[s] = "dialed" \/ LeavesEarly(s)
                                         \/ \E id \in ClientId \cup OperatorId : Dial(s, id)
              /\ phase[s] = "dialed" => phase'[s] = "dialed" \/ Identify(s)
<1> DEFINE Ages(s) == /\ phase[s] \in Established => phase'[s] \in Established
                      /\ phase[s] # "unused" => systemId'[s] = systemId[s]
                      /\ phase'[s] = "dialed" => \/ phase[s] = "dialed" \/ LeavesEarly(s)
                                                 \/ \E id \in ClientId \cup OperatorId : Dial(s, id)
                      /\ phase[s] = "dialed" => phase'[s] = "dialed" \/ Identify(s)
<1> USE DEF Established
<1>1. ASSUME NEW t \in Session, NEW id \in ClientId \cup OperatorId, Dial(t, id)
      PROVE  \A s \in Session : Ages(s)
  BY <1>1 DEF Dial, TypeOK
<1>2. ASSUME NEW t \in Session, Identify(t) \/ LeavesEarly(t) PROVE \A s \in Session : Ages(s)
  BY <1>2 DEF Identify, LeavesEarly, TypeOK
<1>3. CASE RegisterClient \/ RegisterOperator
  BY <1>3 DEF RegisterClient, RegisterOperator, registerOperator, TypeOK
<1>4. ASSUME NEW t \in Session, ClientReadFails(t) \/ OperatorReadFails(t)
      PROVE  \A s \in Session : Ages(s)
  <2>1. /\ UNCHANGED systemId /\ phase[t] = "open"
        /\ UNCHANGED phase \/ \E d \in Session : phase[d] # "dialed" /\ phase' = Closed(t, d)
    <3>1. \A c \in ClientId : clients_[c] # Null =>
             clients_[c] \in Session /\ phase[clients_[c]] # "dialed"
      <4> SUFFICES ASSUME NEW c \in ClientId, clients_[c] # Null
                   PROVE  clients_[c] \in Session /\ phase[clients_[c]] # "dialed"
        OBVIOUS
      <4>1. clients_[c] \in Session
        BY DEF TypeOK
      <4>2. phase[clients_[c]] \in Established
        BY DEF SessionsHaveIds
      <4> QED
        BY <4>1, <4>2
    <3>2. \A o \in OperatorId : operators_[o] # Null =>
             operators_[o] \in Session /\ phase[operators_[o]] # "dialed"
      <4> SUFFICES ASSUME NEW o \in OperatorId, operators_[o] # Null
                   PROVE  operators_[o] \in Session /\ phase[operators_[o]] # "dialed"
        OBVIOUS
      <4>1. operators_[o] \in Session
        BY DEF TypeOK
      <4>2. phase[operators_[o]] \in Established
        BY DEF SessionsHaveIds
      <4> QED
        BY <4>1, <4>2
    <3> QED
      BY <1>4, <3>1, <3>2 DEF ClientReadFails, OperatorReadFails
  <2> QED
    BY <2>1 DEF Closed, TypeOK
<1>5. CASE UNCHANGED <<phase, systemId>>
  BY <1>5
<1>6. \/ \E s \in Session, id \in ClientId \cup OperatorId : Dial(s, id)
      \/ \E s \in Session : \/ Identify(s) \/ LeavesEarly(s)
                            \/ ClientReadFails(s) \/ OperatorReadFails(s)
      \/ RegisterClient \/ RegisterOperator
      \/ UNCHANGED <<phase, systemId>>
  <2>1. CASE Environment
    BY <2>1 DEF Environment, OperatorDecides, OperatorChokes, PeerDies, ClientSends, ClockSet
  <2>2. CASE Continue
    BY <2>2 DEF Continue, AssignTo, HandshakeAborts, AssignDone, AssignNobody, AssignAllBusy,
                AssignSpins, AssignReturns, AssignSends, AssignSendFails, AssignSpawnFails,
                AssignNoSession
  <2>3. CASE \E s \in Session : Dispatch(s)
    BY <2>3 DEF Dispatch, Accept, ReadImage, handleImage, ReadDecision, AbortedRead
  <2>4. CASE UNCHANGED vars
    BY <2>4 DEF vars
  <2> QED
    BY <2>1, <2>2, <2>3, <2>4 DEF Next
<1> QED
  BY <1>1, <1>2, <1>3, <1>4, <1>5, <1>6

(***************************************************************************)
(* Images and answers are in flight on operators' sessions only.           *)
(***************************************************************************)
THEOREM OnlyOperatorsOweCorrect == Spec => []OnlyOperatorsOwe
<1> USE DEF OnlyOperatorsOwe
<1>1. Init => OnlyOperatorsOwe
  BY DEF Init
<1>2. TypeOK /\ SessionsHaveIds /\ OnlyOperatorsOwe /\ [Next]_vars => OnlyOperatorsOwe'
  <2> SUFFICES ASSUME TypeOK, SessionsHaveIds, OnlyOperatorsOwe, [Next]_vars,
                      NEW s \in Session, desk'[s] # <<>> \/ answers'[s] # <<>>
               PROVE  phase'[s] \in Established /\ systemId'[s] \in OperatorId
    OBVIOUS
  <2>1. \/ desk[s] # <<>> \/ answers[s] # <<>>
        \/ \E o \in OperatorId : operators_[o] = s
    <3> DEFINE Before == \/ desk[s] # <<>> \/ answers[s] # <<>>
                         \/ \E o \in OperatorId : operators_[o] = s
    <3>1. ASSUME NEW t \in Session, OperatorDecides(t) PROVE Before
      <4>1. s # t => desk'[s] = desk[s] /\ answers'[s] = answers[s]
        BY <3>1 DEF OperatorDecides, TypeOK
      <4>2. desk[t] # <<>>
        BY <3>1 DEF OperatorDecides
      <4> QED
        BY <4>1, <4>2
    <3>2. ASSUME NEW t \in Session, OperatorChokes(t) \/ PeerDies(t) \/ ReadDecision(t) PROVE Before
      <4>1. s # t => desk'[s] = desk[s] /\ answers'[s] = answers[s]
        BY <3>2 DEF OperatorChokes, PeerDies, ReadDecision, TypeOK
      <4>2. s = t => desk'[s] \in {desk[s], <<>>} /\ (answers[s] = <<>> => answers'[s] = <<>>)
        BY <3>2 DEF OperatorChokes, PeerDies, ReadDecision, TypeOK
      <4> QED
        BY <4>1, <4>2
    <3>3. ASSUME NEW o \in OperatorId, NEW img \in Image \cup {EmptyImage}, AssignTo(o, img)
          PROVE  Before
      <4>1. answers' = answers
        BY <3>3 DEF AssignTo, AssignSends, AssignSendFails, AssignSpawnFails, AssignNoSession,
                    Written, peers
      <4>2. desk'[s] = desk[s] \/ operators_[o] = s
        BY <3>3 DEF AssignTo, AssignSends, AssignSendFails, AssignSpawnFails, AssignNoSession,
                    Written, peers, TypeOK
      <4> QED
        BY <4>1, <4>2
    <3>4. CASE UNCHANGED <<desk, answers>>
      BY <3>4
    <3>5. \/ \E t \in Session : \/ OperatorDecides(t) \/ OperatorChokes(t) \/ PeerDies(t)
                               \/ ReadDecision(t)
          \/ \E o \in OperatorId, img \in Image \cup {EmptyImage} : AssignTo(o, img)
          \/ UNCHANGED <<desk, answers>>
      BY DEF Next, Environment, LeavesEarly, Continue, Dispatch, vars, peers, Dial, Identify, ClientSends,
             ClockSet, HandshakeAborts, RegisterClient, RegisterOperator, registerOperator,
             AssignDone,
             AssignNobody, AssignAllBusy, AssignSpins, AssignReturns, Accept, ReadImage, handleImage,
             ClientReadFails, OperatorReadFails, AbortedRead
    <3> QED
      BY <3>1, <3>2, <3>3, <3>4, <3>5
  <2>2. phase[s] \in Established /\ systemId[s] \in OperatorId
    BY <2>1, ConstantsOK DEF SessionsHaveIds
  <2> QED
    BY <2>2, SessionsAge DEF Established
<1> QED
  BY <1>1, <1>2, TypeCorrect, SessionsHaveIdsCorrect, PTL DEF Spec

(***************************************************************************)
(* A peer that has connected and not identified itself is there, unless    *)
(* peers may close early: nothing else it could fail at has happened yet.  *)
(***************************************************************************)
THEOREM DialedPeersCorrect == Spec => []DialedPeersUp
<1> USE DEF DialedPeersUp
<1>1. Init => DialedPeersUp
  BY DEF Init
<1>2. TypeOK /\ SessionsHaveIds /\ OnlyOperatorsOwe /\ DialedPeersUp /\ [Next]_vars => DialedPeersUp'
  <2> SUFFICES ASSUME TypeOK, SessionsHaveIds, OnlyOperatorsOwe, DialedPeersUp, [Next]_vars,
                      Absent({"early_close"}), NEW s \in Session, phase'[s] = "dialed"
               PROVE  peerUp'[s]
    OBVIOUS
  <2>1. phase[s] = "dialed" \/ \E id \in ClientId \cup OperatorId : Dial(s, id)
    BY SessionsAge DEF LeavesEarly, Absent
  <2>2. CASE \E id \in ClientId \cup OperatorId : Dial(s, id)
    BY <2>2 DEF Dial, TypeOK
  <2> SUFFICES ASSUME phase[s] = "dialed" PROVE peerUp'[s]
    BY <2>1, <2>2
  <2>3. desk[s] = <<>>
    BY DEF OnlyOperatorsOwe, Established
  <2>4. ASSUME NEW t \in Session, OperatorChokes(t) \/ PeerDies(t) PROVE peerUp'[s]
    <3>1. t # s
      BY <2>3, <2>4 DEF OperatorChokes, PeerDies, Absent, TypeOK
    <3>2. peerUp'[s] = peerUp[s] /\ UNCHANGED phase
      BY <2>4, <3>1 DEF OperatorChokes, PeerDies, TypeOK
    <3> QED
      BY <3>2
  <2>5. CASE UNCHANGED peerUp
    BY <2>5
  <2>6. ASSUME NEW t \in Session, NEW id \in ClientId \cup OperatorId, Dial(t, id)
        PROVE  peerUp'[s]
    BY <2>6 DEF Dial, TypeOK
  <2>7. \/ \E t \in Session, id \in ClientId \cup OperatorId : Dial(t, id)
        \/ \E t \in Session : OperatorChokes(t) \/ PeerDies(t)
        \/ UNCHANGED peerUp
    BY DEF Next, Environment, LeavesEarly, Absent, Continue, AssignTo, Dispatch, vars, peers, Identify, ClientSends,
           OperatorDecides, ClockSet, HandshakeAborts, RegisterClient, RegisterOperator,
           registerOperator, AssignDone, AssignNobody, AssignAllBusy, AssignSpins, AssignReturns, AssignSends,
           AssignSendFails, AssignSpawnFails, AssignNoSession, Written, Accept, ReadImage, handleImage,
           ReadDecision, ClientReadFails, OperatorReadFails, AbortedRead
  <2> QED
    BY <2>4, <2>5, <2>6, <2>7
<1> QED
  BY <1>1, <1>2, TypeCorrect, SessionsHaveIdsCorrect, OnlyOperatorsOweCorrect, PTL DEF Spec

(***************************************************************************)
(* No handler runs into an uncaught exception or a null pointer, unless a  *)
(* peer closes before its identity line or an id connects twice: the five  *)
(* places that could are each excluded by one of the invariants above.     *)
(***************************************************************************)
THEOREM CrashFree == Spec => []NeverCrashes
<1> USE DEF NeverCrashes, NoCrash
<1>1. Init => NeverCrashes
  BY DEF Init
<1>2. /\ TypeOK /\ SessionsHaveIds /\ DialedPeersUp /\ MapsHoldOpenSessions /\ MapsAgree
      /\ NeverCrashes /\ [Next]_vars
      => NeverCrashes'
  <2> SUFFICES ASSUME TypeOK, SessionsHaveIds, DialedPeersUp, MapsHoldOpenSessions, MapsAgree,
                      pc # "crashed", [Next]_vars, Absent({"early_close", "overlap"})
               PROVE  pc' # "crashed"
    OBVIOUS
  <2>1. Absent({"early_close"}) /\ Absent({"overlap"})
    BY DEF Absent
  <2>2. ~HandshakeAborts
    BY <2>1 DEF HandshakeAborts, SessionsHaveIds, DialedPeersUp
  <2>3. ASSUME NEW s \in Session, ClientReadFails(s) PROVE pc' # "crashed"
    <3>1. clients_[systemId[s]] = s
      BY <2>1, <2>3 DEF ClientReadFails, MapsHoldOpenSessions
    <3> QED
      BY <2>3, <3>1, ConstantsOK DEF ClientReadFails
  <2>4. ASSUME NEW s \in Session, OperatorReadFails(s) PROVE pc' # "crashed"
    <3>1. operators_[systemId[s]] = s
      BY <2>1, <2>4 DEF OperatorReadFails, MapsHoldOpenSessions
    <3> QED
      BY <2>4, <3>1, ConstantsOK DEF OperatorReadFails
  <2>5. ASSUME NEW s \in Session PROVE ~AbortedRead(s)
    BY <2>1, <2>5 DEF AbortedRead, MapsHoldOpenSessions
  <2>6. ASSUME NEW o \in OperatorId, NEW img \in Image \cup {EmptyImage}
        PROVE  ~AssignNoSession(o, img)
    BY <2>1, <2>6 DEF AssignNoSession, MapsAgree, IsMostIdle, Idle, Available, Operators
  <2>7. CASE Environment \/ UNCHANGED vars
    BY <2>7 DEF Environment, vars, thread, Dial, Identify, ClientSends, OperatorDecides,
                OperatorChokes, PeerDies, LeavesEarly, ClockSet
  <2>8. CASE Continue
    BY <2>2, <2>6, <2>8 DEF Continue, AssignTo, RegisterClient, RegisterOperator,
                            registerOperator, AssignDone,
                            AssignNobody, AssignAllBusy, AssignSpins, AssignReturns, AssignSends,
                            AssignSendFails, AssignSpawnFails, CatchFailure, thread
  <2>9. ASSUME NEW s \in Session, Dispatch(s) PROVE pc' # "crashed"
    BY <2>3, <2>4, <2>5, <2>9 DEF Dispatch, Accept, ReadImage, handleImage, ReadDecision
  <2> QED
    BY <2>7, <2>8, <2>9 DEF Next
<1> QED
  BY <1>1, <1>2, TypeCorrect, SessionsHaveIdsCorrect, DialedPeersCorrect, MapsCorrect, PTL DEF Spec

-----------------------------------------------------------------------------
(***************************************************************************)
(* An operator has at most one image to decide on or answer on the way,    *)
(* and none while the server takes it to be AVAILABLE.                     *)
(***************************************************************************)
AtMostOneImage ==
    Absent({"overlap"}) =>
        \A o \in OperatorId : operators_[o] # Null =>
            Len(desk[operators_[o]]) + Len(answers[operators_[o]])
                <= (IF opState[o] = "BUSY" THEN 1 ELSE 0)

\* Arithmetic on lengths, which the provers do without knowing what they are of.
LEMMA Sums ==
    \A m, n \in Nat :
        /\ (m - 1) + (n + 1) = m + n
        /\ m + n <= 0 => m = 0 /\ n = 0
        /\ m + n <= 1 /\ (m > 0 \/ n > 0) => m + n = 1
OBVIOUS

LEMMA AtMostOneImageCorrect == Spec => []AtMostOneImage
<1> DEFINE Shown == Image \cup {EmptyImage}
           Load(s) == Len(desk[s]) + Len(answers[s])
           Limit(o) == IF opState[o] = "BUSY" THEN 1 ELSE 0
<1> USE DEF AtMostOneImage
<1>1. Init => AtMostOneImage
  BY DEF Init
<1>2. /\ TypeOK /\ SessionsHaveIds /\ OnlyOperatorsOwe /\ MapsHoldOpenSessions /\ MapsAgree
      /\ AtMostOneImage /\ [Next]_vars
      => AtMostOneImage'
  <2> SUFFICES ASSUME TypeOK, SessionsHaveIds, OnlyOperatorsOwe, MapsHoldOpenSessions, MapsAgree,
                      AtMostOneImage, [Next]_vars, Absent({"overlap"}),
                      NEW o \in OperatorId, operators_'[o] # Null
               PROVE  Load(operators_[o])' <= Limit(o)'
    OBVIOUS
  <2>a. ASSUME operators_[o] # Null
        PROVE  operators_[o] \in Session /\ Load(operators_[o]) <= Limit(o)
    BY <2>a DEF TypeOK
  <2>b. ASSUME NEW s \in Session PROVE desk[s] \in Seq(Image \cup {EmptyImage}) /\ answers[s] \in Seq(Image \cup {EmptyImage})
    BY <2>b DEF TypeOK
  <2> DEFINE s0 == operators_[o]
  <2>1. ASSUME NEW s \in Session, OperatorDecides(s) PROVE Load(operators_[o])' <= Limit(o)'
    <3>1. UNCHANGED <<operators_, opState>> /\ s0 \in Session
      BY <2>1, <2>a DEF OperatorDecides, opMap
    <3>2. CASE s = s0
      <4>1. desk'[s] = Tail(desk[s]) /\ answers'[s] = Append(answers[s], Head(desk[s])) /\ desk[s] # <<>>
        BY <2>1 DEF OperatorDecides, TypeOK
      <4>2. \A q, r \in Seq(Shown), i \in Shown :
               q # <<>> => Len(Tail(q)) = Len(q) - 1 /\ Head(q) \in Shown
                           /\ Len(Append(r, i)) = Len(r) + 1 /\ Len(q) \in Nat /\ Len(r) \in Nat
        OBVIOUS
      <4>3. Load(s)' = Load(s)
        <5>1. Load(s)' = Len(Tail(desk[s])) + Len(Append(answers[s], Head(desk[s])))
          BY <4>1
        <5>2. Len(Tail(desk[s])) = Len(desk[s]) - 1 /\ Head(desk[s]) \in Shown /\ Len(desk[s]) \in Nat
          BY <2>b, <4>1, <4>2
        <5>3. Len(Append(answers[s], Head(desk[s]))) = Len(answers[s]) + 1 /\ Len(answers[s]) \in Nat
          BY <2>b, <4>2, <5>2
        <5>4. Load(s) = Len(desk[s]) + Len(answers[s])
          OBVIOUS
        <5>5. Load(s)' = (Len(desk[s]) - 1) + (Len(answers[s]) + 1)
          BY <5>1, <5>2, <5>3, Zenon
        <5>. QED  BY <5>2, <5>3, <5>4, <5>5, Sums, Zenon
      <4> QED
        BY <2>a, <3>1, <3>2, <4>3
    <3>3. CASE s # s0
      BY <2>1, <2>a, <3>1, <3>3 DEF OperatorDecides, TypeOK
    <3> QED
      BY <3>2, <3>3
  <2>2. ASSUME NEW s \in Session, OperatorChokes(s) \/ PeerDies(s)
        PROVE  Load(operators_[o])' <= Limit(o)'
    <3>1. UNCHANGED <<operators_, opState>> /\ s0 \in Session
      BY <2>2, <2>a DEF OperatorChokes, PeerDies, opMap
    <3>2. CASE s = s0
      <4>1. desk'[s] = <<>> /\ answers'[s] \in {answers[s], <<>>}
        BY <2>2 DEF OperatorChokes, PeerDies, TypeOK
      <4> DEFINE d == Len(desk[s])
                 a == Len(answers[s])
      <4>2. d \in Nat /\ a \in Nat /\ d' = 0 /\ (a' = a \/ a' = 0)
        BY <2>b, <4>1
      <4>3. d + a <= Limit(o)
        BY <2>a, <3>1, <3>2, Zenon
      <4>4. Limit(o) \in Nat /\ Limit(o)' = Limit(o) /\ Load(operators_[o])' = d' + a'
        BY <3>1, <3>2
      <4> HIDE DEF Limit, Load, d, a
      <4> QED
        BY <4>2, <4>3, <4>4
    <3>3. CASE s # s0
      BY <2>2, <2>a, <3>1, <3>3 DEF OperatorChokes, PeerDies, TypeOK
    <3> QED
      BY <3>2, <3>3
  <2>3. ASSUME NEW s \in Session, ReadDecision(s) PROVE Load(operators_[o])' <= Limit(o)'
    <3>1. UNCHANGED <<operators_, desk>> /\ s0 \in Session
      BY <2>3, <2>a DEF ReadDecision
    <3>2. operators_[systemId[s]] = s /\ systemId[s] \in OperatorId /\ answers[s] # <<>>
      BY <2>3 DEF ReadDecision, MapsHoldOpenSessions
    <3>3. CASE systemId[s] = o
      <4>1. answers'[s] = Tail(answers[s])
        BY <2>3 DEF ReadDecision, TypeOK
      <4>2. Len(desk[s]) \in Nat /\ Len(answers[s]) \in Nat
            /\ Len(answers'[s]) = Len(answers[s]) - 1 /\ Len(answers'[s]) \in Nat
        <5>1. \A q \in Seq(Shown) :
                 Len(q) \in Nat /\ (q # <<>> => Len(Tail(q)) = Len(q) - 1 /\ Len(Tail(q)) \in Nat)
          OBVIOUS
        <5>. QED  BY <2>b, <3>2, <4>1, <5>1
      <4>3. Load(s)' <= 0
        <5> DEFINE d == Len(desk[s])
                   a == Len(answers[s])
        <5>1. d + a <= Limit(o) /\ Load(s)' = d + a'
          BY <2>a, <3>1, <3>2, <3>3, Zenon
        <5>2. Limit(o) \in {0, 1} /\ d \in Nat /\ a \in Nat /\ a' = a - 1
          BY <4>2
        <5> HIDE DEF Limit, Load, d, a
        <5>. QED  BY <5>1, <5>2
      <4>4. operators_'[o] = s /\ opState'[o] = "AVAILABLE"
        BY <2>3, <3>1, <3>2, <3>3 DEF ReadDecision, TypeOK
      <4>5. Limit(o)' = 0
        BY <4>4
      <4>6. Load(operators_[o])' = Load(s)'
        BY <4>4
      <4> HIDE DEF Load, Limit
      <4>7. Load(s)' \in Int
        BY <2>b, <4>1, <4>2, <3>1 DEF Load
      <4> QED
        BY <4>3, <4>5, <4>6, <4>7
    <3>4. CASE systemId[s] # o
      <4>1. s # s0
        BY <2>a, <3>2, <3>4, ConstantsOK DEF SessionsHaveIds
      <4>2. answers'[s0] = answers[s0] /\ opState'[o] = opState[o]
        BY <2>3, <3>1, <3>4, <4>1 DEF ReadDecision, TypeOK
      <4> QED
        BY <2>a, <3>1, <4>2
    <3> QED
      BY <3>3, <3>4
  <2>4. CASE RegisterOperator
    <3>1. UNCHANGED <<desk, answers>>
      BY <2>4 DEF RegisterOperator, registerOperator, peers
    <3>2. CASE o = systemId[cur]
      <4>1. operators_'[o] = cur /\ cur \in Session /\ phase[cur] = "identified"
        BY <2>4, <3>2 DEF RegisterOperator, registerOperator, SessionsHaveIds, TypeOK
      <4>2. desk[cur] = <<>> /\ answers[cur] = <<>>
        BY <4>1 DEF OnlyOperatorsOwe, Established
      <4> QED
        BY <3>1, <4>1, <4>2
    <3>3. CASE o # systemId[cur]
      <4>1. operators_'[o] = operators_[o] /\ opState'[o] = opState[o]
        BY <2>4, <3>3 DEF RegisterOperator, registerOperator, TypeOK
      <4> QED
        BY <2>a, <3>1, <4>1
    <3> QED
      BY <3>2, <3>3
  <2>5. ASSUME NEW s \in Session, OperatorReadFails(s) PROVE Load(operators_[o])' <= Limit(o)'
    <3>1. operators_'[o] = operators_[o] /\ opState'[o] = opState[o]
      BY <2>5 DEF OperatorReadFails, TypeOK
    <3>2. UNCHANGED <<desk, answers>>
      BY <2>5 DEF OperatorReadFails, peers
    <3> QED
      BY <2>a, <3>1, <3>2
  <2>6. ASSUME NEW p \in OperatorId, NEW img \in Image \cup {EmptyImage}, AssignTo(p, img)
        PROVE  Load(operators_[o])' <= Limit(o)'
    <3>1. UNCHANGED <<operators_, answers>> /\ s0 \in Session
      BY <2>6, <2>a DEF AssignTo, AssignSends, AssignSendFails, AssignSpawnFails, AssignNoSession,
                        MarkBusy, Written, peers, opMap
    <3>2. \/ UNCHANGED <<desk, opState>>
          \/ /\ opState[p] = "AVAILABLE" /\ opState' = [opState EXCEPT ![p] = "BUSY"]
             /\ operators_[p] # Null
             /\ \/ UNCHANGED desk
                \/ desk' = [desk EXCEPT ![operators_[p]] = Append(@, img)]
                \/ desk' = [desk EXCEPT ![operators_[p]] = @]
      BY <2>6 DEF AssignTo, AssignSends, AssignSendFails, AssignSpawnFails, AssignNoSession,
                  MarkBusy, Written, IsMostIdle, Idle, Available, peers, opMap
    <3>3. CASE UNCHANGED <<desk, opState>>
      BY <2>a, <3>1, <3>3
    <3>4. CASE ~UNCHANGED <<desk, opState>> /\ p = o
      <4>1. opState[o] = "AVAILABLE" /\ opState'[o] = "BUSY"
        BY <3>2, <3>4 DEF TypeOK
      <4>2. Len(desk[s0]) \in Nat /\ Len(answers[s0]) \in Nat
        BY <2>b, <3>1
      <4>3. Len(desk[s0]) = 0 /\ Len(answers[s0]) = 0
        <5>1. Len(desk[s0]) + Len(answers[s0]) <= Limit(o)
          BY <2>a, <3>1, Zenon
        <5>2. Limit(o) = 0
          BY <4>1
        <5>3. Len(desk[s0]) + Len(answers[s0]) <= 0
          BY <5>1, <5>2, Zenon
        <5>. QED  BY <4>2, <5>3, Sums, Zenon
      <4>4. desk'[s0] = desk[s0] \/ desk'[s0] = Append(desk[s0], img)
        BY <3>1, <3>2, <3>4 DEF TypeOK
      <4>5. Len(Append(desk[s0], img)) = Len(desk[s0]) + 1
        BY <2>b, <3>1
      <4> QED
        BY <3>1, <4>1, <4>3, <4>4, <4>5
    <3>5. CASE ~UNCHANGED <<desk, opState>> /\ p # o
      <4>1. operators_[p] # s0
        BY <2>a, <3>1, <3>2, <3>5, ConstantsOK DEF SessionsHaveIds
      <4>2. desk'[s0] = desk[s0] /\ opState'[o] = opState[o]
        BY <3>1, <3>2, <3>5, <4>1 DEF TypeOK
      <4> QED
        BY <2>a, <3>1, <4>2
    <3> QED
      BY <3>3, <3>4, <3>5
  <2>7. CASE UNCHANGED <<operators_, opState, desk, answers>>
    BY <2>7, <2>a
  <2>8. \/ \E s \in Session : \/ OperatorDecides(s) \/ OperatorChokes(s) \/ PeerDies(s)
                             \/ ReadDecision(s) \/ OperatorReadFails(s)
        \/ RegisterOperator
        \/ \E p \in OperatorId, img \in Image \cup {EmptyImage} : AssignTo(p, img)
        \/ UNCHANGED <<operators_, opState, desk, answers>>
    BY DEF Next, Environment, LeavesEarly, Continue, Dispatch, vars, peers, opMap, Dial, Identify, ClientSends,
           ClockSet, HandshakeAborts, RegisterClient, AssignDone, AssignNobody, AssignAllBusy,
           AssignSpins, AssignReturns, Accept, ReadImage, handleImage, ClientReadFails, AbortedRead
  <2> QED
    BY <2>1, <2>2, <2>3, <2>4, <2>5, <2>6, <2>7, <2>8
<1> QED
  BY <1>1, <1>2, TypeCorrect, SessionsHaveIdsCorrect, OnlyOperatorsOweCorrect, MapsCorrect, PTL
     DEF Spec

(***************************************************************************)
(* A BUSY operator whose program runs has an image or an answer on the     *)
(* way: what makes it BUSY also gives it an image, and what takes the      *)
(* answer frees it. A reconnect alone could leave it BUSY with neither.    *)
(***************************************************************************)
BusyOwesImage ==
    Absent({"overlap"}) =>
        \A o \in OperatorId :
            LET s == operators_[o]
            IN  s # Null /\ opState[o] = "BUSY" /\ peerUp[s] => desk[s] # <<>> \/ answers[s] # <<>>

LEMMA BusyOwesImageCorrect == Spec => []BusyOwesImage
<1> USE DEF BusyOwesImage
<1>1. Init => BusyOwesImage
  BY DEF Init
<1>2. /\ TypeOK /\ SessionsHaveIds /\ MapsHoldOpenSessions /\ MapsAgree
      /\ BusyOwesImage /\ [Next]_vars
      => BusyOwesImage'
  <2> SUFFICES ASSUME TypeOK, SessionsHaveIds, MapsHoldOpenSessions, MapsAgree, BusyOwesImage,
                      [Next]_vars, Absent({"overlap"}), NEW o \in OperatorId,
                      operators_'[o] # Null, opState'[o] = "BUSY", peerUp'[operators_'[o]]
               PROVE  desk'[operators_'[o]] # <<>> \/ answers'[operators_'[o]] # <<>>
    OBVIOUS
  <2> DEFINE s0 == operators_[o]
             Owes == desk'[operators_'[o]] # <<>> \/ answers'[operators_'[o]] # <<>>
  <2>t. /\ operators_ \in [OperatorId -> Session \cup {Null}]
        /\ opState \in [OperatorId -> {"absent", "AVAILABLE", "BUSY"}]
        /\ desk \in [Session -> Seq(Image \cup {EmptyImage})] /\ answers \in [Session -> Seq(Image \cup {EmptyImage})]
        /\ peerUp \in [Session -> BOOLEAN]
    BY DEF TypeOK
  <2>1. ASSUME NEW s \in Session, OperatorDecides(s) PROVE Owes
    <3>1. /\ desk' = [desk EXCEPT ![s] = Tail(@)]
          /\ answers' = [answers EXCEPT ![s] = Append(@, Head(desk[s]))]
          /\ UNCHANGED <<operators_, opState, peerUp>> /\ s0 \in Session /\ desk[s] # <<>>
      BY <2>t, <2>1 DEF OperatorDecides, opMap
    <3>2. Append(answers[s], Head(desk[s])) # <<>>
      <4>1. \A q, r \in Seq(Image \cup {EmptyImage}) : q # <<>> => Append(r, Head(q)) # <<>>
        OBVIOUS
      <4>. QED  BY <2>t, <3>1, <4>1
    <3>3. CASE s = s0
      BY <2>t, <3>1, <3>2, <3>3
    <3>4. CASE s # s0
      BY <2>t, <3>1, <3>4
    <3>. QED  BY <3>3, <3>4
  <2>2. ASSUME NEW s \in Session, OperatorChokes(s) \/ PeerDies(s) PROVE Owes
    <3>1. /\ peerUp' = [peerUp EXCEPT ![s] = FALSE] /\ UNCHANGED <<operators_, opState>>
          /\ desk' = [desk EXCEPT ![s] = <<>>]
          /\ answers' \in {answers, [answers EXCEPT ![s] = <<>>]}
      BY <2>2 DEF OperatorChokes, PeerDies, opMap
    <3>. QED  BY <2>t, <3>1
  <2>3. ASSUME NEW s \in Session, ReadDecision(s) PROVE Owes
    <3>1. /\ operators_[systemId[s]] = s /\ systemId[s] \in OperatorId /\ answers[s] # <<>>
          /\ UNCHANGED <<operators_, desk, peerUp>>
          /\ answers' = [answers EXCEPT ![s] = Tail(@)]
          /\ opState' = [opState EXCEPT ![systemId[s]] = "AVAILABLE"]
      BY <2>3 DEF ReadDecision, MapsHoldOpenSessions
    <3>2. systemId[s] # o
      BY <2>t, <3>1
    <3>3. s # s0
      BY <2>t, <3>1, <3>2, ConstantsOK DEF SessionsHaveIds
    <3>. QED  BY <2>t, <3>1, <3>2, <3>3
  <2>4. ASSUME NEW s \in Session, OperatorReadFails(s) PROVE Owes
    BY <2>t, <2>4 DEF OperatorReadFails, peers
  <2>5. CASE RegisterOperator
    <3>1. systemId[cur] \in OperatorId
      BY <2>5 DEF RegisterOperator, registerOperator
    <3>2. phase[cur] = "identified" /\ cur \in Session
      BY <2>5 DEF RegisterOperator, registerOperator, SessionsHaveIds
    <3>3. operators_[systemId[cur]] = Null
      <4> SUFFICES ASSUME operators_[systemId[cur]] # Null PROVE FALSE
        OBVIOUS
      <4>1. operators_[systemId[cur]] \in Session
        BY <2>t, <3>1
      <4>2. /\ systemId[operators_[systemId[cur]]] = systemId[cur]
            /\ phase[operators_[systemId[cur]]] = "open"
        BY <3>1 DEF SessionsHaveIds, MapsHoldOpenSessions
      <4>. QED  BY <3>1, <3>2, <4>1, <4>2, ConstantsOK DEF MapsHoldOpenSessions
    <3>4. opState[systemId[cur]] = "absent"
      BY <3>1, <3>3 DEF MapsAgree
    <3>5. o # systemId[cur]
      BY <2>t, <2>5, <3>1, <3>4 DEF RegisterOperator, registerOperator
    <3>. QED  BY <2>t, <2>5, <3>5 DEF RegisterOperator, registerOperator, peers
  <2>6. ASSUME NEW p \in OperatorId, NEW img \in Image \cup {EmptyImage}, AssignTo(p, img)
        PROVE  Owes
    <3>1. operators_' = operators_ /\ s0 \in Session /\ UNCHANGED <<peerUp, answers>>
      BY <2>t, <2>6 DEF AssignTo, AssignSends, AssignSendFails, AssignSpawnFails, AssignNoSession,
                        MarkBusy, Written, opMap, peers
    <3>2. CASE p = o /\ pc' # "crashed"
      <4>1. AssignSends(o, img) \/ AssignSpawnFails(o, img)
        BY <2>6, <3>1, <3>2 DEF AssignTo, AssignSendFails, AssignNoSession, peers
      <4>2. desk' = [desk EXCEPT ![s0] = IF peerUp[s0] THEN Append(@, img) ELSE @]
        BY <4>1 DEF AssignSends, AssignSpawnFails, Written
      <4>3. operators_'[o] = s0 /\ peerUp[s0] /\ desk[s0] \in Seq(Image \cup {EmptyImage})
        BY <2>t, <3>1
      <4>4. desk'[s0] = Append(desk[s0], img)
        BY <2>t, <3>1, <4>2, <4>3
      <4>. QED  BY <4>3, <4>4
    <3>3. CASE p # o \/ pc' = "crashed"
      <4>1. opState'[o] = opState[o]
        BY <2>t, <2>6, <3>3 DEF AssignTo, AssignSends, AssignSendFails, AssignSpawnFails,
             AssignNoSession, CatchFailure, MarkBusy, opMap, thread
      <4>2. desk'[s0] = desk[s0] \/ desk'[s0] = Append(desk[s0], img)
        BY <2>t, <2>6, <3>1 DEF AssignTo, AssignSends, AssignSendFails, AssignSpawnFails,
             AssignNoSession, Written, peers
      <4>. QED  BY <2>t, <3>1, <4>1, <4>2
    <3>. QED  BY <3>2, <3>3
  <2>7. ASSUME NEW s \in Session, NEW id \in ClientId \cup OperatorId, Dial(s, id) PROVE Owes
    <3>1. phase[s] = "unused" /\ UNCHANGED <<operators_, opState, desk, answers>>
          /\ peerUp' = [peerUp EXCEPT ![s] = TRUE]
      BY <2>7 DEF Dial, opMap
    <3>2. s # s0
      BY <3>1 DEF MapsHoldOpenSessions
    <3>. QED  BY <2>t, <3>1, <3>2
  <2>8. ASSUME NEW s \in Session, LeavesEarly(s) PROVE Owes
    BY <2>t, <2>8 DEF LeavesEarly, opMap
  <2>9. CASE UNCHANGED <<operators_, opState, peerUp, desk, answers>>
    BY <2>9
  <2>10. \/ \E s \in Session : \/ OperatorDecides(s) \/ OperatorChokes(s) \/ PeerDies(s)
                              \/ ReadDecision(s) \/ OperatorReadFails(s) \/ LeavesEarly(s)
         \/ \E s \in Session, id \in ClientId \cup OperatorId : Dial(s, id)
         \/ RegisterOperator
         \/ \E p \in OperatorId, img \in Image \cup {EmptyImage} : AssignTo(p, img)
         \/ UNCHANGED <<operators_, opState, peerUp, desk, answers>>
    BY DEF Next, Environment, Continue, Dispatch, vars, peers, opMap, Identify, ClientSends,
           ClockSet, HandshakeAborts, RegisterClient, AssignDone, AssignNobody, AssignAllBusy,
           AssignSpins, AssignReturns, Accept, ReadImage, handleImage, ClientReadFails, AbortedRead
  <2>. QED
    BY <2>1, <2>2, <2>3, <2>4, <2>5, <2>6, <2>7, <2>8, <2>9, <2>10
<1>. QED
  BY <1>1, <1>2, TypeCorrect, SessionsHaveIdsCorrect, MapsCorrect, PTL DEF Spec

\* An operator has one image at a time, and has one while it is waited for.
THEOREM OneImageEach == Spec => []OneImagePerOperator
<1>1. TypeOK /\ AtMostOneImage /\ BusyOwesImage => OneImagePerOperator
  <2> SUFFICES ASSUME TypeOK, AtMostOneImage, BusyOwesImage, Absent({"overlap"}),
                      NEW o \in OperatorId, operators_[o] # Null
               PROVE  LET s    == operators_[o]
                          owed == Len(desk[s]) + Len(answers[s])
                      IN  /\ owed <= (IF opState[o] = "BUSY" THEN 1 ELSE 0)
                          /\ opState[o] = "BUSY" /\ peerUp[s] => owed = 1
    BY DEF OneImagePerOperator
  <2> DEFINE s == operators_[o]
  <2>1. desk[s] \in Seq(Image \cup {EmptyImage}) /\ answers[s] \in Seq(Image \cup {EmptyImage})
    BY DEF TypeOK
  <2>2. Len(desk[s]) + Len(answers[s]) <= (IF opState[o] = "BUSY" THEN 1 ELSE 0)
    BY DEF AtMostOneImage
  <2>3. ASSUME opState[o] = "BUSY", peerUp[s] PROVE Len(desk[s]) + Len(answers[s]) = 1
    <3>1. desk[s] # <<>> \/ answers[s] # <<>>
      BY <2>3 DEF BusyOwesImage
    <3>2. /\ Len(desk[s]) \in Nat /\ (desk[s] # <<>> => Len(desk[s]) > 0)
          /\ Len(answers[s]) \in Nat /\ (answers[s] # <<>> => Len(answers[s]) > 0)
      BY <2>1
    <3>3. Len(desk[s]) + Len(answers[s]) <= 1
      BY <2>2, <2>3
    <3> HIDE DEF s
    <3>4. Len(desk[s]) > 0 \/ Len(answers[s]) > 0
      BY <3>1, <3>2, Zenon
    <3>. QED  BY <3>2, <3>3, <3>4, Sums, Zenon
  <2>. QED  BY <2>2, <2>3
<1>. QED  BY <1>1, AtMostOneImageCorrect, BusyOwesImageCorrect, TypeCorrect, PTL

\* The inductive invariant that TLC checks, as a whole.
THEOREM Inductive == Spec => []IInv
<1>. QED
  BY ImagesInOnePlaceCorrect, SessionsHaveIdsCorrect, OnlyOperatorsOweCorrect, DialedPeersCorrect,
     MapsCorrect, OneImageEach, CrashFree, PTL DEF IInv

-----------------------------------------------------------------------------
(***************************************************************************)
(* Between handlers no operator is AVAILABLE while a client is registered  *)
(* and paused. Idleness lost follows the flag through the handlers: while  *)
(* images are assigned with the clients paused, at most the operator that  *)
(* has just registered is AVAILABLE, and there is an image for it.         *)
(***************************************************************************)

\* Without a clock set back, every AVAILABLE operator is idle.
TimesPast == \A o \in OperatorId : tpAvailableTime[o] <= clock

\* The clients are paused, and the handler will not resume them.
Paused == bClientsPaused /\ Clients # {} /\ after = "none"

BusyWhilePaused ==
    /\ pc \in {"poll", "handshake"} => after = "none"
    /\ pc \in {"poll", "handshake", "return"} /\ Paused => Available = {}
    /\ pc = "assign" /\ Paused =>
         Available = {} \/ (imageQueue_ # {} /\ \E o \in OperatorId : Available = {o})

\* While a registered client is paused, no operator is AVAILABLE between handlers.
THEOREM NoneAvailable == Spec => []PausedMeansBusy
<1> DEFINE Inv == Absent({"clock_back"}) => TimesPast /\ BusyWhilePaused
<1> USE DEF TimesPast, BusyWhilePaused, Paused
<1>1. Init => TimesPast /\ BusyWhilePaused
  BY DEF Init, Clients
<1>2. /\ TypeOK /\ Absent({"clock_back"}) /\ TimesPast /\ BusyWhilePaused /\ [Next]_vars
      => TimesPast' /\ BusyWhilePaused'
  <2> SUFFICES ASSUME TypeOK, Absent({"clock_back"}), TimesPast, BusyWhilePaused, [Next]_vars
               PROVE  TimesPast' /\ BusyWhilePaused'
    OBVIOUS
  <2>t. /\ tpAvailableTime \in [OperatorId -> Nat] /\ clock \in Nat
        /\ opState \in [OperatorId -> {"absent", "AVAILABLE", "BUSY"}]
    BY DEF TypeOK
  <2>i. Idle = Available
    BY DEF Idle, Available, Operators
  <2>f. ASSUME UNCHANGED <<clients_, opState>> PROVE Available' = Available /\ Clients' = Clients
    BY <2>f DEF Available, Operators, Clients
  <2>1. CASE UNCHANGED <<pc, after, tpAvailableTime, clock, opState, clients_, bClientsPaused, imageQueue_>>
    BY <2>1, <2>f
  <2>2. CASE Environment
    <3>1. ~ClockSet
      BY DEF ClockSet, Absent
    <3>. QED
      BY <2>1, <2>2, <3>1 DEF Environment, Dial, Identify, OperatorDecides, OperatorChokes, PeerDies, LeavesEarly,
                              ClientSends, thread, opMap, flow
  <2>3. ASSUME NEW s \in Session, Accept(s) PROVE TimesPast' /\ BusyWhilePaused'
    BY <2>3, <2>f DEF Accept, opMap, flow
  <2>4. ASSUME NEW s \in Session, ReadImage(s) PROVE TimesPast' /\ BusyWhilePaused'
    BY <2>4, <2>f DEF ReadImage, handleImage, opMap, flow
  <2>5. ASSUME NEW s \in Session, ClientReadFails(s) PROVE TimesPast' /\ BusyWhilePaused'
    <3>1. CASE clients_[systemId[s]] = Null
      BY <2>5, <2>f, <3>1 DEF ClientReadFails, opMap
    <3>2. CASE clients_[systemId[s]] # Null
      <4>1. Clients' \subseteq Clients /\ (bClientsPaused' => bClientsPaused \/ Clients' = {})
        <5> DEFINE c == systemId[s]
        <5>1. /\ clients_' = [clients_ EXCEPT ![c] = Null] /\ c \in ClientId
              /\ bClientsPaused' = (bClientsPaused \/ Clients = {c})
          BY <2>5, <3>2 DEF ClientReadFails
        <5>2. clients_ \in [ClientId -> Session \cup {Null}]
          BY DEF TypeOK
        <5> HIDE DEF c
        <5>3. Clients' \subseteq Clients \ {c}
          BY <5>1, <5>2 DEF Clients
        <5>4. bClientsPaused' => bClientsPaused \/ Clients = {c}
          BY <5>1, Zenon
        <5>. QED  BY <5>3, <5>4
      <4>2. UNCHANGED <<pc, after, opMap>> /\ Available' = Available
        BY <2>5, <3>2 DEF ClientReadFails, opMap, Available, Operators
      <4>3. pc = "poll"
        BY <2>5 DEF ClientReadFails
      <4>. QED  BY <4>1, <4>2, <4>3 DEF opMap
    <3>. QED  BY <3>1, <3>2
  <2>6. ASSUME NEW s \in Session, ReadDecision(s) PROVE TimesPast' /\ BusyWhilePaused'
    <3>1. TimesPast'
      BY <2>t, <2>6 DEF ReadDecision
    <3>2. after = "none" /\ pc = "poll"
      BY <2>6 DEF ReadDecision
    <3>3. \/ pc' = "assign" /\ after' = "resume"
          \/ pc' = pc /\ after' = after /\ ~bClientsPaused'
      BY <2>6 DEF ReadDecision, flow, resumeClients
    <3>. QED  BY <3>1, <3>2, <3>3
  <2>7. ASSUME NEW s \in Session, OperatorReadFails(s) PROVE TimesPast' /\ BusyWhilePaused'
    <3>1. UNCHANGED <<after, tpAvailableTime, clock, clients_, bClientsPaused>> /\ pc = "poll" /\ pc' \in {"poll", "crashed"}
      BY <2>7 DEF OperatorReadFails, flow
    <3>2. Available' \subseteq Available
      BY <2>7, <2>t DEF OperatorReadFails, Available, Operators
    <3>3. Clients' = Clients
      BY <3>1 DEF Clients
    <3>. QED  BY <3>1, <3>2, <3>3
  <2>8. ASSUME pc' = "crashed", UNCHANGED opMap PROVE TimesPast' /\ BusyWhilePaused'
    BY <2>8 DEF opMap
  <2>9. CASE HandshakeAborts
    BY <2>8, <2>9 DEF HandshakeAborts
  <2>10. ASSUME NEW s \in Session, AbortedRead(s) PROVE TimesPast' /\ BusyWhilePaused'
    BY <2>8, <2>10 DEF AbortedRead
  <2>11. CASE RegisterClient
    <3>1. UNCHANGED <<after, opMap>> /\ after = "none" /\ pc' = "poll" /\ Available' = Available
      BY <2>11 DEF RegisterClient, opMap, Available, Operators
    <3>2. bClientsPaused' => Available = {}
      BY <2>11 DEF RegisterClient, Available
    <3>. QED  BY <3>1, <3>2 DEF opMap
  <2>12. CASE RegisterOperator
    <3>1. TimesPast'
      BY <2>t, <2>12 DEF RegisterOperator, registerOperator
    <3>2. CASE imageQueue_ = {} /\ bClientsPaused /\ Clients # {}
      <4>1. ~bClientsPaused' /\ pc' = "poll" /\ after' = after /\ after = "none"
        BY <2>12, <3>2 DEF RegisterOperator, registerOperator, resumeClients
      <4>. QED  BY <3>1, <4>1
    <3>3. CASE ~(imageQueue_ = {} /\ bClientsPaused /\ Clients # {})
      <4> DEFINE o == systemId[cur]
      <4>1. /\ pc = "handshake" /\ pc' = "assign" /\ after' = "none" /\ after = "none"
            /\ UNCHANGED <<clients_, bClientsPaused, imageQueue_>> /\ o \in OperatorId
        BY <2>12, <3>3 DEF RegisterOperator, registerOperator, flow
      <4>2. Clients' = Clients
        BY <4>1 DEF Clients
      <4>3. Available' \subseteq Available \cup {o}
        BY <2>12, <2>t DEF RegisterOperator, registerOperator, Available, Operators
      <4> HIDE DEF o
      <4>4. Paused' => imageQueue_' # {} /\ (Available' = {} \/ Available' = {o})
        BY <3>3, <4>1, <4>2, <4>3
      <4>. QED  BY <3>1, <4>1, <4>4
    <3>. QED  BY <3>2, <3>3
  <2>13. CASE AssignDone
    BY <2>13, <2>f DEF AssignDone, opMap, flow
  <2>14. CASE AssignNobody \/ AssignAllBusy
    <3>1. UNCHANGED opMap /\ pc' = "return" /\ Available = {} /\ Available' = Available
      BY <2>14, <2>i DEF AssignNobody, AssignAllBusy, opMap, Available, Operators
    <3>. QED  BY <3>1 DEF opMap
  <2>15. CASE AssignSpins
    BY <2>15, <2>f DEF AssignSpins, opMap, flow
  <2>16. CASE AssignReturns
    <3>1. /\ pc = "return" /\ pc' = "poll" /\ after' = "none" /\ UNCHANGED <<opMap, clients_>>
          /\ after = "resume" => ~bClientsPaused'
          /\ after # "resume" => bClientsPaused' = bClientsPaused
      BY <2>16 DEF AssignReturns, resumeClients
    <3>2. Available' = Available /\ Clients' = Clients
      BY <3>1, <2>f DEF opMap
    <3>3. after \in {"none", "resume"}
      BY DEF TypeOK
    <3>. QED  BY <3>1, <3>2, <3>3 DEF opMap
  <2>17. ASSUME NEW o \in OperatorId, NEW img \in Image \cup {EmptyImage}, AssignTo(o, img)
         PROVE  TimesPast' /\ BusyWhilePaused'
    <3>1. CASE AssignNoSession(o, img)
      BY <2>8, <3>1 DEF AssignNoSession
    <3>2. CASE AssignSends(o, img) \/ AssignSendFails(o, img) \/ AssignSpawnFails(o, img)
      <4>1. /\ MarkBusy(o) /\ o \in Available /\ pc = "assign" /\ pc' \in {"assign", "return"}
            /\ UNCHANGED <<after, clients_, bClientsPaused>>
        BY <3>2, <2>i DEF AssignSends, AssignSendFails, AssignSpawnFails, CatchFailure, IsMostIdle, thread, flow
      <4>2. TimesPast'
        BY <2>t, <4>1 DEF MarkBusy
      <4>3. Available' = Available \ {o} /\ Clients' = Clients
        BY <2>t, <4>1 DEF MarkBusy, Available, Operators, Clients
      <4>4. Paused => Available = {o}
        BY <4>1
      <4>5. Paused' => Available' = {}
        BY <4>1, <4>3, <4>4
      <4>. QED  BY <4>1, <4>2, <4>5
    <3>. QED  BY <2>17, <3>1, <3>2 DEF AssignTo
  <2>18. CASE UNCHANGED vars
    BY <2>1, <2>18 DEF vars, thread, opMap, flow
  <2>. QED
    BY <2>2, <2>3, <2>4, <2>5, <2>6, <2>7, <2>9, <2>10, <2>11, <2>12, <2>13, <2>14, <2>15, <2>16,
       <2>17, <2>18
    DEF Next, Continue, Dispatch
<1>3. Inv => PausedMeansBusy
  BY DEF PausedMeansBusy, NoneAvailableWhilePaused
<1>4. Init => Inv
  BY <1>1
<1>5. TypeOK /\ Inv /\ [Next]_vars => Inv'
  BY <1>2 DEF Absent
<1>. QED  BY <1>3, <1>4, <1>5, TypeCorrect, PTL DEF Spec

-----------------------------------------------------------------------------
(***************************************************************************)
(* With one client machine, the flag is set while the client is told to    *)
(* pause: whoever is told is registered, and a session that registers has  *)
(* been told nothing.                                                      *)
(***************************************************************************)
NothingToldBefore == \A s \in Session : phase[s] \notin Established => told[s] = "nothing"

\* A command changes what registered sessions were told, to that command.
LEMMA TellTells ==
    ASSUME TypeOK, NEW map \in [ClientId -> Session \cup {Null}], NEW command,
           Tell(map, command)
    PROVE  /\ \A c \in ClientId : map[c] # Null => told'[map[c]] = command
           /\ \A s \in Session : (\A c \in ClientId : map[c] # s) => told'[s] = told[s]
BY DEF Tell, TypeOK

THEOREM SoleClientCorrect == Spec => []SoleClientFlagged
<1> DEFINE Inv == NothingToldBefore /\ SoleClientFlagged
<1> USE DEF SoleClientFlagged, Clients
<1>1. Init => Inv
  BY DEF Init, NothingToldBefore
<1>2. TypeOK /\ SessionsHaveIds /\ Inv /\ [Next]_vars => Inv'
  <2> SUFFICES ASSUME TypeOK, SessionsHaveIds, Inv, [Next]_vars PROVE Inv'
    OBVIOUS
  <2>t. /\ clients_ \in [ClientId -> Session \cup {Null}]
        /\ \A c \in ClientId : clients_[c] # Null => phase[clients_[c]] \in Established
        /\ \A s \in Session : phase[s] \in Established => phase'[s] \in Established
        /\ Null \notin Session
    BY SessionsAge, ConstantsOK DEF TypeOK, SessionsHaveIds
  <2>1. ASSUME NEW command, Tell(clients_, command) PROVE NothingToldBefore'
    <3> SUFFICES ASSUME NEW s \in Session, phase'[s] \notin Established PROVE told'[s] = "nothing"
      BY DEF NothingToldBefore
    <3>1. phase[s] \notin Established
      BY <2>t
    <3>2. \A c \in ClientId : clients_[c] # s
      BY <2>t, <3>1
    <3>. QED  BY <2>t, <2>1, <3>1, <3>2, TellTells DEF NothingToldBefore
  <2>2. ASSUME UNCHANGED told PROVE NothingToldBefore'
    BY <2>t, <2>2 DEF NothingToldBefore
  <2>3. ASSUME pauseClients PROVE Inv'
    BY <2>1, <2>3 DEF pauseClients
  <2>4. ASSUME resumeClients, UNCHANGED clients_ PROVE Inv'
    <3>1. \A c \in ClientId : clients_[c] # Null => told'[clients_[c]] = "RESUME"
      BY <2>t, <2>4, TellTells DEF resumeClients
    <3>. QED  BY <2>1, <2>4, <3>1 DEF resumeClients
  <2>5. ASSUME UNCHANGED flow PROVE Inv'
    BY <2>2, <2>5 DEF flow
  <2>6. CASE RegisterClient
    <3> DEFINE map == [clients_ EXCEPT ![systemId[cur]] = cur]
    <3>1. /\ cur \in Session /\ phase[cur] = "identified" /\ systemId[cur] \in ClientId
          /\ clients_' = map /\ phase' = [phase EXCEPT ![cur] = "open"]
      BY <2>6 DEF RegisterClient, SessionsHaveIds
    <3>2. CASE Operators = {}
      <4>1. bClientsPaused' = TRUE /\ Tell(map, "PAUSE")
        BY <2>6, <3>2 DEF RegisterClient
      <4>2. NothingToldBefore'
        <5> SUFFICES ASSUME NEW s \in Session, phase'[s] \notin Established PROVE told'[s] = "nothing"
          BY DEF NothingToldBefore
        <5>1. phase[s] \notin Established /\ s # cur
          BY <2>t, <3>1 DEF TypeOK, Established
        <5>2. \A c \in ClientId : map[c] # s
          BY <2>t, <3>1, <5>1
        <5>. QED  BY <2>t, <3>1, <4>1, <5>1, <5>2, TellTells DEF NothingToldBefore
      <4>. QED  BY <4>1, <4>2
    <3>3. CASE Operators # {}
      <4>1. bClientsPaused' = FALSE /\ UNCHANGED told
        BY <2>6, <3>3 DEF RegisterClient
      <4>2. told[cur] = "nothing"
        BY <3>1 DEF NothingToldBefore, Established
      <4>3. (\A c, d \in ClientId : c = d) => \A c \in ClientId : clients_'[c] = cur
        BY <2>t, <3>1
      <4>. QED  BY <2>2, <4>1, <4>2, <4>3
    <3>. QED  BY <3>2, <3>3
  <2>7. ASSUME NEW s \in Session, ClientReadFails(s) PROVE Inv'
    <3>1. UNCHANGED told
      BY <2>7 DEF ClientReadFails
    <3>2. bClientsPaused => bClientsPaused'
      BY <2>7 DEF ClientReadFails, TypeOK
    <3>3. \A c \in ClientId : clients_'[c] \in {clients_[c], Null}
      BY <2>7 DEF ClientReadFails, TypeOK
    <3>. QED  BY <2>2, <3>1, <3>2, <3>3
  <2>8. CASE RegisterOperator
    BY <2>4, <2>5, <2>8 DEF RegisterOperator, registerOperator
  <2>9. CASE AssignNobody \/ AssignAllBusy
    BY <2>3, <2>9 DEF AssignNobody, AssignAllBusy
  <2>10. CASE AssignReturns
    BY <2>4, <2>5, <2>10 DEF AssignReturns, flow
  <2>11. ASSUME NEW s \in Session, ReadDecision(s) PROVE Inv'
    BY <2>4, <2>5, <2>11 DEF ReadDecision
  <2>12. \/ RegisterClient \/ RegisterOperator \/ AssignNobody \/ AssignAllBusy \/ AssignReturns
         \/ \E s \in Session : ReadDecision(s) \/ ClientReadFails(s)
         \/ UNCHANGED flow
    BY DEF Next, Environment, Continue, AssignTo, Dispatch, vars, flow, Dial, Identify,
           OperatorDecides, OperatorChokes, PeerDies, LeavesEarly, ClientSends, ClockSet,
           HandshakeAborts, AssignDone, AssignSpins, AssignSends, AssignSendFails,
           AssignSpawnFails, AssignNoSession, Accept, ReadImage, handleImage, OperatorReadFails,
           AbortedRead
  <2>. QED
    BY <2>5, <2>6, <2>7, <2>8, <2>9, <2>10, <2>11, <2>12
<1>. QED
  BY <1>1, <1>2, TypeCorrect, SessionsHaveIdsCorrect, PTL DEF Spec

-----------------------------------------------------------------------------
(***************************************************************************)
(* The loop of assignImages() has an exit until the server is deserted: a  *)
(* queued image came from a client, and a client that has been registered  *)
(* is, and can be paused, until one of its connections is lost.            *)
(***************************************************************************)

\* A session of a client machine that has had its handshake.
ClientSeen(s) == phase[s] \in Established /\ systemId[s] \in ClientId

RegisteredOrLost ==
    \A s \in Session : ClientSeen(s) => clients_[systemId[s]] # Null \/ ClientLost(systemId[s])

QueueFromClients == imageQueue_ # {} => \E s \in Session : ClientSeen(s)

SpinsAlone == ~LoopEnds => imageQueue_ # {} /\ Clients = {}

\* What a step may do to the clients: one that was lost stays so, one leaves
\* clients_ only when it is lost, and a session that has its handshake enters.
LEMMA ClientsStep ==
    ASSUME TypeOK, SessionsHaveIds, [Next]_vars
    PROVE  /\ \A c \in ClientId : ClientLost(c) => ClientLost(c)'
           /\ \A c \in ClientId : clients_[c] # Null => clients_'[c] # Null \/ ClientLost(c)'
           /\ \A s \in Session : ClientSeen(s)' =>
                 \/ ClientSeen(s) /\ systemId'[s] = systemId[s]
                 \/ clients_'[systemId'[s]] # Null
<1> DEFINE Lasts == \A c \in ClientId : ClientLost(c) => ClientLost(c)'
           Leaves == \A c \in ClientId : clients_[c] # Null => clients_'[c] # Null \/ ClientLost(c)'
           Enters == \A s \in Session : ClientSeen(s)' =>
                        \/ ClientSeen(s) /\ systemId'[s] = systemId[s]
                        \/ clients_'[systemId'[s]] # Null
<1> USE DEF ClientLost, ClientSeen, Established
<1>t. /\ systemId \in [Session -> ClientId \cup OperatorId \cup {Null}]
      /\ peerUp \in [Session -> BOOLEAN] /\ clients_ \in [ClientId -> Session \cup {Null}]
      /\ phase \in [Session -> {"unused", "dialed", "identified", "open", "destroyed", "done"}]
      /\ Null \notin ClientId \cup Session /\ ClientId \cap OperatorId = {}
  BY ConstantsOK DEF TypeOK
<1>1. CASE UNCHANGED <<phase, systemId, peerUp, clients_>>
  BY <1>1
<1>2. ASSUME NEW t \in Session, NEW id \in ClientId \cup OperatorId, Dial(t, id)
      PROVE  Lasts /\ Leaves /\ Enters
  BY <1>2, <1>t DEF Dial, flow
<1>3. ASSUME NEW t \in Session, Identify(t) \/ LeavesEarly(t) PROVE Lasts /\ Leaves /\ Enters
  BY <1>3, <1>t DEF Identify, LeavesEarly, flow, peers
<1>4. ASSUME NEW t \in Session, OperatorChokes(t) \/ PeerDies(t) PROVE Lasts /\ Leaves /\ Enters
  BY <1>4, <1>t DEF OperatorChokes, PeerDies, flow
<1>5. CASE RegisterClient
  <2>1. cur \in Session /\ phase[cur] = "identified" /\ systemId[cur] \in ClientId
    BY <1>5 DEF RegisterClient, SessionsHaveIds
  <2>2. /\ clients_' = [clients_ EXCEPT ![systemId[cur]] = cur]
        /\ phase' = [phase EXCEPT ![cur] = "open"] /\ UNCHANGED <<systemId, peerUp>>
    BY <1>5 DEF RegisterClient, peers
  <2>. QED  BY <1>t, <2>1, <2>2
<1>6. CASE RegisterOperator
  <2>1. cur \in Session /\ phase[cur] = "identified" /\ systemId[cur] \in OperatorId
    BY <1>6 DEF RegisterOperator, SessionsHaveIds
  <2>2. phase' = [phase EXCEPT ![cur] = "open"] /\ UNCHANGED <<clients_, systemId, peerUp>>
    BY <1>6 DEF RegisterOperator, flow, peers
  <2>. QED  BY <1>t, <2>1, <2>2
<1>7. ASSUME NEW t \in Session, ClientReadFails(t) PROVE Lasts /\ Leaves /\ Enters
  <2>1. /\ phase[t] = "open" /\ ~peerUp[t] /\ systemId[t] \in ClientId
        /\ UNCHANGED <<systemId, peerUp>>
    BY <1>7 DEF ClientReadFails, peers
  <2>2. CASE clients_[systemId[t]] = Null
    BY <1>1, <1>7, <2>1, <2>2 DEF ClientReadFails
  <2>3. CASE clients_[systemId[t]] # Null
    <3>1. PICK d \in Session : d = clients_[systemId[t]] /\ systemId[d] = systemId[t]
      BY <1>t, <2>1, <2>3 DEF SessionsHaveIds
    <3>2. phase[d] \in Established
      BY <2>1, <2>3, <3>1 DEF SessionsHaveIds
    <3>3. /\ phase' = [phase EXCEPT ![d] = "destroyed", ![t] = "done"]
          /\ clients_' = [clients_ EXCEPT ![systemId[t]] = Null]
      BY <1>7, <2>3, <3>1 DEF ClientReadFails, Closed
    <3>4. phase'[t] = "done" /\ \A u \in Session \ {t, d} : phase'[u] = phase[u]
      BY <1>t, <3>3
    <3>5. ClientLost(systemId[t])'
      BY <2>1, <3>4
    <3>6. ASSUME NEW c \in ClientId, c # systemId[t], ClientLost(c) PROVE ClientLost(c)'
      BY <2>1, <3>1, <3>4, <3>6
    <3>7. Enters
      BY <1>t, <2>1, <3>1, <3>2, <3>4
    <3>. QED  BY <1>t, <2>1, <3>3, <3>5, <3>6, <3>7
  <2>. QED  BY <2>2, <2>3
<1>8. ASSUME NEW t \in Session, OperatorReadFails(t) PROVE Lasts /\ Leaves /\ Enters
  <2>1. systemId[t] \in OperatorId /\ UNCHANGED <<systemId, peerUp, clients_>>
    BY <1>8 DEF OperatorReadFails, flow, peers
  <2>2. CASE operators_[systemId[t]] = Null
    BY <1>1, <1>8, <2>1, <2>2 DEF OperatorReadFails
  <2>3. CASE operators_[systemId[t]] # Null
    <3>1. systemId[operators_[systemId[t]]] \in OperatorId
      BY <2>1, <2>3 DEF SessionsHaveIds
    <3>2. phase' = [phase EXCEPT ![operators_[systemId[t]]] = "destroyed", ![t] = "done"]
      BY <1>8, <2>3 DEF OperatorReadFails, Closed
    <3>3. \A u \in Session : systemId[u] \in ClientId => phase'[u] = phase[u]
      BY <1>t, <2>1, <3>1, <3>2
    <3>. QED  BY <2>1, <3>3
  <2>. QED  BY <2>2, <2>3
<1>9. \/ \E s \in Session, id \in ClientId \cup OperatorId : Dial(s, id)
      \/ \E s \in Session : \/ Identify(s) \/ LeavesEarly(s) \/ OperatorChokes(s) \/ PeerDies(s)
                            \/ ClientReadFails(s) \/ OperatorReadFails(s)
      \/ RegisterClient \/ RegisterOperator
      \/ UNCHANGED <<phase, systemId, peerUp, clients_>>
  <2>1. CASE Environment
    BY <2>1 DEF Environment, OperatorDecides, ClientSends, ClockSet, flow, peers
  <2>2. CASE Continue
    BY <2>2 DEF Continue, AssignTo, HandshakeAborts, AssignDone, AssignNobody, AssignAllBusy,
                AssignSpins, AssignReturns, AssignSends, AssignSendFails, AssignSpawnFails,
                AssignNoSession, Written, flow, peers
  <2>3. CASE \E s \in Session : Dispatch(s)
    BY <2>3 DEF Dispatch, Accept, ReadImage, handleImage, ReadDecision, AbortedRead, resumeClients,
                flow, peers
  <2>4. CASE UNCHANGED vars
    BY <2>4 DEF vars, flow, peers
  <2>. QED  BY <2>1, <2>2, <2>3, <2>4 DEF Next
<1>. QED  BY <1>1, <1>2, <1>3, <1>4, <1>5, <1>6, <1>7, <1>8, <1>9

\* What a step may do to the queue and the loop: an image enters by the read of
\* a client, and while the loop spins the queue and clients_ stay as they are.
LEMMA LoopStep ==
    ASSUME TypeOK, [Next]_vars
    PROVE  /\ imageQueue_' # {} => imageQueue_ # {} \/ \E s \in Session : ClientSeen(s)
           /\ pc' = "spinning" =>
                 /\ imageQueue_' = imageQueue_ /\ clients_' = clients_
                 /\ pc = "spinning" \/ (imageQueue_ # {} /\ Clients = {})
<1>1. CASE UNCHANGED <<pc, imageQueue_, clients_>>
  BY <1>1
<1>2. CASE Environment
  <2>1. UNCHANGED <<pc, imageQueue_, clients_>>
    BY <1>2 DEF Environment, Dial, Identify, OperatorDecides, OperatorChokes, LeavesEarly, PeerDies,
                ClientSends, ClockSet, thread, flow
  <2>. QED  BY <1>1, <2>1
<1>3. CASE HandshakeAborts \/ RegisterClient \/ RegisterOperator \/ AssignDone \/ AssignNobody
           \/ AssignAllBusy \/ AssignReturns
  <2>1. imageQueue_' = imageQueue_ /\ pc' # "spinning"
    BY <1>3 DEF HandshakeAborts, RegisterClient, RegisterOperator, AssignDone, AssignNobody,
                AssignAllBusy, AssignReturns
  <2>. QED  BY <2>1
<1>4. CASE AssignSpins
  BY <1>4 DEF AssignSpins, flow
<1>5. ASSUME NEW o \in OperatorId, NEW img \in Image \cup {EmptyImage}, AssignTo(o, img)
      PROVE  imageQueue_ # {} /\ pc' # "spinning"
  BY <1>5 DEF AssignTo, AssignSends, AssignSendFails, AssignSpawnFails, AssignNoSession, CatchFailure,
              IsTop, thread
<1>6. ASSUME NEW s \in Session, ReadImage(s) PROVE ClientSeen(s) /\ pc' # "spinning"
  BY <1>6 DEF ReadImage, handleImage, ClientSeen, Established
<1>7. ASSUME NEW s \in Session,
             Accept(s) \/ ClientReadFails(s) \/ ReadDecision(s) \/ OperatorReadFails(s) \/ AbortedRead(s)
      PROVE  imageQueue_' = imageQueue_ /\ pc' # "spinning"
  BY <1>7 DEF Accept, ClientReadFails, ReadDecision, OperatorReadFails, AbortedRead
<1>8. CASE UNCHANGED vars
  BY <1>1, <1>8 DEF vars, thread, flow
<1>. QED  BY <1>2, <1>3, <1>4, <1>5, <1>6, <1>7, <1>8 DEF Next, Continue, Dispatch

\* The loop of assignImages() comes to spin only when every client machine that
\* was ever registered has lost a connection, and there was one.
THEOREM SpinsOnlyDesertedCorrect == Spec => []SpinsOnlyDeserted
<1> DEFINE Inv == RegisteredOrLost /\ QueueFromClients /\ SpinsAlone
<1>1. Init => Inv
  BY DEF Init, RegisteredOrLost, QueueFromClients, SpinsAlone, ClientSeen, Established, LoopEnds
<1>2. TypeOK /\ SessionsHaveIds /\ Inv /\ [Next]_vars => Inv'
  <2> SUFFICES ASSUME TypeOK, SessionsHaveIds, Inv, [Next]_vars PROVE Inv'
    OBVIOUS
  <2>1. RegisteredOrLost'
    <3> SUFFICES ASSUME NEW s \in Session, ClientSeen(s)'
                 PROVE  clients_'[systemId'[s]] # Null \/ ClientLost(systemId[s])'
      BY DEF RegisteredOrLost
    <3>1. CASE clients_'[systemId'[s]] # Null
      BY <3>1
    <3>2. CASE ClientSeen(s) /\ systemId'[s] = systemId[s]
      <4>1. PICK c \in ClientId : c = systemId[s]
        BY <3>2 DEF ClientSeen
      <4>2. clients_[c] # Null \/ ClientLost(c)
        BY <3>2, <4>1 DEF RegisteredOrLost
      <4>3. clients_'[c] # Null \/ ClientLost(c)'
        BY <4>2, ClientsStep
      <4>. QED  BY <3>2, <4>1, <4>3 DEF ClientLost
    <3>. QED  BY <3>1, <3>2, ClientsStep
  <2>2. QueueFromClients'
    <3>1. ASSUME NEW s \in Session, ClientSeen(s) PROVE ClientSeen(s)'
      BY <3>1, SessionsAge DEF ClientSeen, Established
    <3>. QED  BY <3>1, LoopStep DEF QueueFromClients
  <2>3. SpinsAlone'
    BY LoopStep DEF SpinsAlone, LoopEnds, Clients
  <2>. QED  BY <2>1, <2>2, <2>3
<1>3. TypeOK /\ Inv => SpinsOnlyDeserted
  <2> SUFFICES ASSUME TypeOK, Inv, ~LoopEnds
               PROVE  /\ \E c \in ClientId : ClientLost(c)
                      /\ \A s \in Session : ClientSeen(s) => ClientLost(systemId[s])
    BY DEF SpinsOnlyDeserted, ClientSeen
  <2>1. \A s \in Session : ClientSeen(s) => systemId[s] \in ClientId /\ ClientLost(systemId[s])
    BY DEF RegisteredOrLost, SpinsAlone, Clients, ClientSeen
  <2>2. \E s \in Session : ClientSeen(s)
    BY DEF QueueFromClients, SpinsAlone
  <2>. QED  BY <2>1, <2>2
<1>. QED
  BY <1>1, <1>2, <1>3, TypeCorrect, SessionsHaveIdsCorrect, PTL DEF Spec
=============================================================================
