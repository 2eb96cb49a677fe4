------------------------- MODULE DatabaseInsertProofs -------------------------
(***************************************************************************)
(* What holds of the insertion threads and the destructor, for any number  *)
(* of threads.                                                             *)
(***************************************************************************)
EXTENDS DatabaseInsert, FiniteSetTheorems, TLAPS

USE DatabaseAssumption

\* Every variable keeps its type.
THEOREM InsertTypeCorrect == Spec => []TypeOK
<1>1. Init => TypeOK
  <2>1. Init => /\ pc \in [Party -> SettingUp \cup {"serve"} \cup Active \cup {"idle", "done"}]
                /\ envOf \in [Thread -> Thread \cup {Null}]
                /\ dbcOf \in [Thread -> Thread \cup {Null}]
    BY DEF Init, SettingUp
  <2>2. Init => loaded \in [Thread -> Nat] /\ number \in [Thread -> Nat]
    BY DEF Init
  <2>3. Init => /\ envs \subseteq Thread /\ dbcs \subseteq Thread /\ rows \subseteq Thread
                /\ connected \subseteq dbcs /\ stmts \subseteq Thread
    BY DEF Init
  <2>4. Init => iImageCnt \in Nat
    BY DEF Init
  <2>5. Init => /\ database \in BOOLEAN /\ inUse \in BOOLEAN /\ table \in BOOLEAN
                /\ refused \in BOOLEAN /\ overlapped \in BOOLEAN
    BY DEF Init
  <2>. QED
    BY <2>1, <2>2, <2>3, <2>4, <2>5 DEF Init, TypeOK
<1>2. TypeOK /\ [Next]_vars => TypeOK'
  <2> SUFFICES ASSUME TypeOK, [Next]_vars PROVE TypeOK'
    OBVIOUS
  <2> USE DEF TypeOK, Go, members, counter, handles, catalog, record, Active, Connecting, Inserting,
              Disconnecting, SettingUp, Party, Refuse
  <2>1. CASE UNCHANGED vars
    BY <2>1 DEF vars
  <2>2. ASSUME NEW t \in Thread, Start(t) PROVE TypeOK'
    BY <2>2 DEF Start
  <2>3. ASSUME NEW t \in Thread, AllocEnv(t) PROVE TypeOK'
    BY <2>3 DEF AllocEnv
  <2>4. ASSUME NEW t \in Thread, AllocDbc(t) PROVE TypeOK'
    BY <2>4 DEF AllocDbc
  <2>5. ASSUME NEW t \in Thread, Connect(t) PROVE TypeOK'
    BY <2>5 DEF Connect, Connectable
  <2>6. ASSUME NEW t \in Thread, AllocStmt(t) PROVE TypeOK'
    BY <2>6 DEF AllocStmt
  <2>7. ASSUME NEW t \in Thread, LoadCount(t) PROVE TypeOK'
    BY <2>7 DEF LoadCount
  <2>8. ASSUME NEW t \in Thread, StoreCount(t) PROVE TypeOK'
    BY <2>8 DEF StoreCount
  <2>9. ASSUME NEW t \in Thread, Execute(t) PROVE TypeOK'
    BY <2>9 DEF Execute
  <2>10. ASSUME NEW t \in Party, HasDbc(t) PROVE TypeOK'
    BY <2>10 DEF HasDbc
  <2>11. ASSUME NEW t \in Party, DisconnectDbc(t) PROVE TypeOK'
    BY <2>11 DEF DisconnectDbc
  <2>12. ASSUME NEW t \in Party, FreeDbc(t) PROVE TypeOK'
    BY <2>12 DEF FreeDbc
  <2>13. ASSUME NEW t \in Party, ClearDbc(t) PROVE TypeOK'
    BY <2>13 DEF ClearDbc
  <2>14. ASSUME NEW t \in Party, HasEnv(t) PROVE TypeOK'
    BY <2>14 DEF HasEnv
  <2>15. ASSUME NEW t \in Party, FreeEnv(t) PROVE TypeOK'
    BY <2>15 DEF FreeEnv
  <2>16. ASSUME NEW t \in Party, ClearEnv(t) PROVE TypeOK'
    BY <2>16 DEF ClearEnv
  <2>17. CASE setUp
    BY <2>17 DEF setUp, Login, CreateDatabase, UseDatabase, CreateTable
  <2>18. CASE ServerEnds
    BY <2>18 DEF ServerEnds
  <2>. QED
    BY <2>1, <2>2, <2>3, <2>4, <2>5, <2>6, <2>7, <2>8, <2>9, <2>10, <2>11, <2>12, <2>13,
       <2>14, <2>15, <2>16, <2>17, <2>18
    DEF Next, insertImage, connect, disconnect
<1>. QED
  BY <1>1, <1>2, PTL DEF Spec

-----------------------------------------------------------------------------
\* A member that is not null has a thread that is still to come to the place
\* where disconnect() resets it.
WillBeCleared ==
    /\ hEnv_ # Null => \E t \in Party : pc[t] \in Active \ {"env"}
    /\ hDbc_ # Null =>
        \E t \in Party :
            pc[t] \in Active \ {"env", "dbc", "hasEnv", "freeEnv", "clearEnv"}

\* Once no insertion runs the members are null.
THEOREM MembersCorrect == Spec => []MembersClearAtRest
<1>1. Init => WillBeCleared
  BY DEF Init, WillBeCleared
<1>2. TypeOK /\ WillBeCleared /\ [Next]_vars => WillBeCleared'
  <2> SUFFICES ASSUME TypeOK, WillBeCleared, [Next]_vars PROVE WillBeCleared'
    OBVIOUS
  <2> USE DEF TypeOK, Go, members, counter, handles, catalog, record, Active, Connecting, Inserting,
              Disconnecting, SettingUp, Party, Refuse,
              WillBeCleared
  <2>1. CASE UNCHANGED vars
    BY <2>1 DEF vars
  <2>2. ASSUME NEW t \in Thread, Start(t) PROVE WillBeCleared'
    BY <2>2 DEF Start
  <2>3. ASSUME NEW t \in Thread, AllocEnv(t) PROVE WillBeCleared'
    BY <2>3 DEF AllocEnv
  <2>4. ASSUME NEW t \in Thread, AllocDbc(t) PROVE WillBeCleared'
    BY <2>4 DEF AllocDbc
  <2>5. ASSUME NEW t \in Thread, Connect(t) PROVE WillBeCleared'
    BY <2>5 DEF Connect, Connectable
  <2>6. ASSUME NEW t \in Thread, AllocStmt(t) PROVE WillBeCleared'
    BY <2>6 DEF AllocStmt
  <2>7. ASSUME NEW t \in Thread, LoadCount(t) PROVE WillBeCleared'
    BY <2>7 DEF LoadCount
  <2>8. ASSUME NEW t \in Thread, StoreCount(t) PROVE WillBeCleared'
    BY <2>8 DEF StoreCount
  <2>9. ASSUME NEW t \in Thread, Execute(t) PROVE WillBeCleared'
    BY <2>9 DEF Execute
  <2>10. ASSUME NEW t \in Party, HasDbc(t) PROVE WillBeCleared'
    BY <2>10 DEF HasDbc
  <2>11. ASSUME NEW t \in Party, DisconnectDbc(t) PROVE WillBeCleared'
    BY <2>11 DEF DisconnectDbc
  <2>12. ASSUME NEW t \in Party, FreeDbc(t) PROVE WillBeCleared'
    BY <2>12 DEF FreeDbc
  <2>13. ASSUME NEW t \in Party, ClearDbc(t) PROVE WillBeCleared'
    BY <2>13 DEF ClearDbc
  <2>14. ASSUME NEW t \in Party, HasEnv(t) PROVE WillBeCleared'
    BY <2>14 DEF HasEnv
  <2>15. ASSUME NEW t \in Party, FreeEnv(t) PROVE WillBeCleared'
    BY <2>15 DEF FreeEnv
  <2>16. ASSUME NEW t \in Party, ClearEnv(t) PROVE WillBeCleared'
    BY <2>16 DEF ClearEnv
  <2>17. CASE setUp
    BY <2>17 DEF setUp, Login, CreateDatabase, UseDatabase, CreateTable
  <2>18. CASE ServerEnds
    BY <2>18 DEF ServerEnds
  <2>. QED
    BY <2>1, <2>2, <2>3, <2>4, <2>5, <2>6, <2>7, <2>8, <2>9, <2>10, <2>11, <2>12, <2>13,
       <2>14, <2>15, <2>16, <2>17, <2>18
    DEF Next, insertImage, connect, disconnect
<1>3. WillBeCleared => MembersClearAtRest
  BY DEF WillBeCleared, MembersClearAtRest, AtRest, Running
<1>. QED
  BY <1>1, <1>2, <1>3, InsertTypeCorrect, PTL DEF Spec

-----------------------------------------------------------------------------
\* A use of the members moves one party on, until it is done.
UsesMembers(p) == (p \in Thread /\ insertImage(p)) \/ disconnect(p)

LEMMA UseStep ==
    ASSUME TypeOK, NEW p \in Party, UsesMembers(p)
    PROVE  /\ pc[p] \in Active /\ pc'[p] \in Active \cup {"done"}
           /\ pc[p] \in {"execute"} \cup Disconnecting => pc'[p] \in Disconnecting \cup {"done"}
           /\ \A q \in Party : q # p => pc'[q] = pc[q]
           /\ overlapped' = overlapped
           /\ UNCHANGED catalog
           /\ refused => refused'
  <1> USE DEF TypeOK, Go, members, counter, handles, catalog, record, Active, Connecting,
              Inserting, Disconnecting, Refuse
  <1>1. CASE p \in Thread /\ connect(p)
    BY <1>1 DEF connect, AllocEnv, AllocDbc, Connect
  <1>2. CASE p \in Thread /\ (AllocStmt(p) \/ LoadCount(p) \/ StoreCount(p) \/ Execute(p))
    BY <1>2 DEF AllocStmt, LoadCount, StoreCount, Execute
  <1>3. CASE HasDbc(p) \/ DisconnectDbc(p) \/ FreeDbc(p) \/ ClearDbc(p)
    BY <1>3 DEF HasDbc, DisconnectDbc, FreeDbc, ClearDbc
  <1>4. CASE HasEnv(p) \/ FreeEnv(p) \/ ClearEnv(p)
    BY <1>4 DEF HasEnv, FreeEnv, ClearEnv
  <1>. QED
    BY <1>1, <1>2, <1>3, <1>4 DEF UsesMembers, insertImage, disconnect

\* The set-up concerns nobody but the main thread.
LEMMA SetUpStep ==
    ASSUME TypeOK, setUp
    PROVE  /\ pc[Main] \in SettingUp /\ pc'[Main] \in SettingUp \cup {"serve", "done"}
           /\ \A t \in Thread : pc'[t] = pc[t]
           /\ UNCHANGED <<members, counter, handles, rows, overlapped>>
           /\ refused => refused'
  BY DEF setUp, Login, CreateDatabase, UseDatabase, CreateTable, TypeOK, Go, Party, SettingUp,
         Refuse, catalog

\* What a step can be.
LEMMA Steps ==
    ASSUME [Next]_vars
    PROVE  \/ setUp \/ ServerEnds
           \/ \E t \in Thread : Start(t)
           \/ \E p \in Party : UsesMembers(p)
           \/ UNCHANGED vars
  BY DEF Next, UsesMembers, Party

\* The server serves once the set-up is through; if nothing was refused, there
\* is a database then and a table in it.
SetUpFirst ==
    /\ pc[Main] \in SettingUp => \A t \in Thread : pc[t] = "idle"
    /\ ~refused =>
        /\ pc[Main] \in {"use", "table"} => database
        /\ pc[Main] = "table" => inUse
        /\ pc[Main] \notin SettingUp => database /\ table

LEMMA SetUpFirstCorrect == Spec => []SetUpFirst
<1>1. Init => SetUpFirst
  BY DEF Init, SetUpFirst, SettingUp, Party
<1>2. TypeOK /\ SetUpFirst /\ [Next]_vars => SetUpFirst'
  <2> SUFFICES ASSUME TypeOK, SetUpFirst, [Next]_vars PROVE SetUpFirst'
    OBVIOUS
  <2> USE DEF SetUpFirst, SettingUp, Party, TypeOK
  <2>1. CASE setUp
    BY <2>1 DEF setUp, Login, CreateDatabase, UseDatabase, CreateTable, Go, Refuse, catalog
  <2>2. CASE ServerEnds \/ \E t \in Thread : Start(t)
    BY <2>2 DEF ServerEnds, Start, Go, catalog
  <2>3. ASSUME NEW p \in Party, UsesMembers(p) PROVE SetUpFirst'
    <3>1. p = Main => pc[Main] \notin SettingUp /\ pc'[Main] \notin SettingUp
      BY <2>3, UseStep DEF Active, Connecting, Inserting, Disconnecting
    <3>2. p # Main => p \in Thread /\ pc[p] # "idle"
      BY <2>3, UseStep DEF Active, Connecting, Inserting, Disconnecting
    <3>. QED
      BY <2>3, <3>1, <3>2, UseStep DEF catalog
  <2>4. CASE UNCHANGED vars
    BY <2>4 DEF vars, record, catalog
  <2>. QED
    BY <2>1, <2>2, <2>3, <2>4, Steps
<1>. QED
  BY <1>1, <1>2, InsertTypeCorrect, PTL DEF Spec

-----------------------------------------------------------------------------
\* While no two of them have overlapped, the place of the one that runs tells
\* which handles there are.
OneRuns == ~overlapped => \A p, q \in Running : p = q

Empty == envs = {} /\ dbcs = {} /\ connected = {} /\ stmts = {} /\ hEnv_ = Null /\ hDbc_ = Null

NoneLive == AtRest => Empty

\* The destructor has nothing to free.
MainFindsNone == pc[Main] \in Active => pc[Main] \in {"hasDbc", "hasEnv"} /\ Empty

LiveAt(t) ==
    /\ pc[t] = "env" => Empty
    /\ pc[t] = "dbc" =>
        envs = {t} /\ hEnv_ = t /\ dbcs = {} /\ hDbc_ = Null /\ connected = {} /\ stmts = {}
    /\ pc[t] \in {"connect"} \cup Inserting \cup {"hasDbc", "disconnectDbc", "freeDbc"} =>
        /\ envs = {t} /\ hEnv_ = t /\ dbcs = {t} /\ hDbc_ = t /\ envOf[t] = t
        /\ connected \subseteq {t} /\ stmts \subseteq {t}
    /\ pc[t] \in {"connect", "freeDbc"} => connected = {} /\ stmts = {}
    /\ pc[t] \in Inserting => connected = {t}
    /\ pc[t] \in {"load", "store", "execute"} => stmts = {t} /\ dbcOf[t] = t
    /\ pc[t] \in {"stmt", "hasDbc", "disconnectDbc"} => stmts = {}
    /\ pc[t] = "clearDbc" =>
        envs = {t} /\ hEnv_ = t /\ dbcs = {} /\ connected = {} /\ stmts = {}
    /\ pc[t] \in {"hasEnv", "freeEnv"} =>
        envs = {t} /\ hEnv_ = t /\ dbcs = {} /\ hDbc_ = Null /\ connected = {} /\ stmts = {}
    /\ pc[t] = "clearEnv" =>
        envs = {} /\ dbcs = {} /\ hDbc_ = Null /\ connected = {} /\ stmts = {}

Numbered ==
    /\ \A t \in Thread :
        /\ number[t] <= iImageCnt
        /\ pc[t] = "store" => loaded[t] = iImageCnt
        /\ pc[t] = "execute" \/ t \in rows => number[t] > 0
    /\ \A t, u \in Thread : number[t] = number[u] /\ t # u => number[t] = 0

Saved ==
    ~refused => \A t \in Thread : pc[t] \in Disconnecting \cup {"done"} => t \in rows

Alone == NoneLive /\ MainFindsNone /\ (\A t \in Thread : LiveAt(t)) /\ Numbered /\ Saved

AloneInv == OneRuns /\ (~overlapped => Alone)

\* A step of the one that runs leaves it the only one.
LEMMA OneRunsStep ==
    ASSUME TypeOK, OneRuns, [Next]_vars
    PROVE  OneRuns' /\ (~overlapped' => ~overlapped)
<1> USE DEF OneRuns, Running
<1>1. CASE UNCHANGED vars
  BY <1>1 DEF vars, record
<1>2. ASSUME NEW p \in Party, p = Main => ServerEnds, p # Main => Start(p)
      PROVE  OneRuns' /\ (~overlapped' => ~overlapped)
  <2>1. overlapped' = (overlapped \/ Running # {}) /\ \A q \in Party : q # p => pc'[q] = pc[q]
    BY <1>2 DEF ServerEnds, Start, Go, TypeOK
  <2>. QED
    BY <2>1 DEF TypeOK
<1>3. ASSUME NEW p \in Party, UsesMembers(p) PROVE OneRuns' /\ (~overlapped' => ~overlapped)
  BY <1>3, UseStep
<1>4. CASE setUp
  <2>1. pc[Main] \notin Active /\ pc'[Main] \notin Active
    BY <1>4, SetUpStep DEF SettingUp, Active, Connecting, Inserting, Disconnecting
  <2>. QED
    BY <1>4, <2>1, SetUpStep DEF Party
<1>. QED
  BY <1>1, <1>2, <1>3, <1>4, Steps DEF Party

\* Insertions that do not overlap free what they allocated, and save every
\* image under a number of its own unless the database refuses.
THEOREM CleanAloneCorrect == Spec => []CleanAlone
<1>1. Init => AloneInv
  BY DEF Init, AloneInv, OneRuns, Alone, NoneLive, MainFindsNone, LiveAt, Empty, Numbered, Saved,
     Running, Active, Connecting, Inserting, Disconnecting, Party
<1>2. TypeOK /\ SetUpFirst /\ AloneInv /\ [Next]_vars => AloneInv'
  <2> SUFFICES ASSUME TypeOK, SetUpFirst, OneRuns, [Next]_vars, ~overlapped', ~overlapped => Alone
               PROVE  Alone'
    BY OneRunsStep DEF AloneInv
  <2>0. ~overlapped /\ Alone
    BY OneRunsStep
  <2> USE DEF TypeOK, Go, members, counter, handles, catalog, record, Active, Connecting,
              Inserting, Disconnecting, Party
  <2>1. CASE UNCHANGED vars
    BY <2>0, <2>1 DEF vars, Alone, NoneLive, MainFindsNone, LiveAt, Empty, Numbered, Saved, AtRest,
       Running
  <2>2. ASSUME NEW t \in Thread, Start(t) PROVE Alone'
    <3>1. AtRest /\ Empty
      BY <2>0, <2>2 DEF Start, AtRest, Alone, NoneLive
    <3>2. NoneLive' /\ MainFindsNone' /\ \A u \in Thread : LiveAt(u)'
      BY <2>2, <3>1 DEF Start, AtRest, Running, Empty, NoneLive, MainFindsNone, LiveAt
    <3>3. Numbered' /\ Saved'
      BY <2>0, <2>2 DEF Start, Alone, Numbered, Saved
    <3>. QED
      BY <3>2, <3>3 DEF Alone
  <2>3. CASE ServerEnds
    <3>1. AtRest /\ Empty
      BY <2>0, <2>3 DEF ServerEnds, AtRest, Alone, NoneLive
    <3>2. NoneLive' /\ MainFindsNone' /\ \A u \in Thread : LiveAt(u)'
      BY <2>3, <3>1 DEF ServerEnds, AtRest, Running, Empty, NoneLive, MainFindsNone, LiveAt
    <3>3. Numbered' /\ Saved'
      BY <2>0, <2>3 DEF ServerEnds, Alone, Numbered, Saved
    <3>. QED
      BY <3>2, <3>3 DEF Alone
  <2>4. CASE setUp
    <3>1. pc[Main] \notin Active /\ pc'[Main] \notin Active
      BY <2>4, SetUpStep DEF SettingUp
    <3>2. NoneLive' /\ MainFindsNone' /\ \A u \in Thread : LiveAt(u)'
      BY <2>0, <2>4, <3>1, SetUpStep DEF Alone, NoneLive, MainFindsNone, LiveAt, Empty, AtRest,
         Running
    <3>3. Numbered' /\ Saved'
      BY <2>0, <2>4, SetUpStep DEF Alone, Numbered, Saved
    <3>. QED
      BY <3>2, <3>3 DEF Alone
  <2>5. ASSUME disconnect(Main) PROVE Alone'
    <3>1. pc[Main] \in {"hasDbc", "hasEnv"} /\ Empty
      BY <2>0, <2>5, UseStep DEF UsesMembers, Alone, MainFindsNone
    <3>2. HasDbc(Main) \/ HasEnv(Main)
      BY <2>5, <3>1 DEF disconnect, DisconnectDbc, FreeDbc, ClearDbc, FreeEnv, ClearEnv
    <3>3. \A t \in Thread : pc[t] \notin Active
      BY <2>0, <3>1 DEF OneRuns, Running
    <3>4. NoneLive' /\ MainFindsNone' /\ \A u \in Thread : LiveAt(u)'
      BY <3>1, <3>2, <3>3 DEF HasDbc, HasEnv, NoneLive, MainFindsNone, LiveAt, Empty
    <3>5. Numbered' /\ Saved'
      BY <2>0, <3>2 DEF HasDbc, HasEnv, Alone, Numbered, Saved
    <3>. QED
      BY <3>4, <3>5 DEF Alone
  <2>6. ASSUME NEW t \in Thread, insertImage(t) PROVE Alone'
    <3>1. /\ pc[t] \in Active /\ pc'[t] \in Active \cup {"done"}
          /\ \A p \in Party : p # t => pc'[p] = pc[p] /\ pc[p] \notin Active
      BY <2>0, <2>6, UseStep DEF UsesMembers, OneRuns, Running
    <3>2. MainFindsNone'
      BY <3>1 DEF MainFindsNone
    <3>3. (database /\ table) \/ refused
      BY <3>1 DEF SetUpFirst
    <3>4. CASE AllocEnv(t)
      BY <2>0, <3>1, <3>2, <3>3, <3>4 DEF AllocEnv, Alone, NoneLive, LiveAt, Empty, Numbered,
         Saved, AtRest, Running
    <3>5. CASE AllocDbc(t)
      BY <2>0, <3>1, <3>2, <3>3, <3>5 DEF AllocDbc, Alone, NoneLive, LiveAt, Empty, Numbered,
         Saved, AtRest, Running
    <3>6. CASE Connect(t)
      BY <2>0, <3>1, <3>2, <3>3, <3>6 DEF Connect, Connectable, Refuse, Alone, NoneLive, LiveAt,
         Empty, Numbered, Saved, AtRest, Running
    <3>7. CASE AllocStmt(t)
      BY <2>0, <3>1, <3>2, <3>3, <3>7 DEF AllocStmt, Alone, NoneLive, LiveAt, Empty, Numbered,
         Saved, AtRest, Running
    <3>8. CASE LoadCount(t)
      BY <2>0, <3>1, <3>2, <3>3, <3>8 DEF LoadCount, Alone, NoneLive, LiveAt, Empty, Numbered,
         Saved, AtRest, Running
    <3>9. CASE StoreCount(t)
      BY <2>0, <3>1, <3>2, <3>3, <3>9 DEF StoreCount, Alone, NoneLive, LiveAt, Empty, Numbered,
         Saved, AtRest, Running
    <3>10. CASE Execute(t)
      BY <2>0, <3>1, <3>2, <3>3, <3>10 DEF Execute, Refuse, Alone, NoneLive, LiveAt, Empty, Numbered,
         Saved, AtRest, Running
    <3>11. CASE HasDbc(t)
      BY <2>0, <3>1, <3>2, <3>3, <3>11 DEF HasDbc, Alone, NoneLive, LiveAt, Empty, Numbered,
         Saved, AtRest, Running
    <3>12. CASE DisconnectDbc(t)
      BY <2>0, <3>1, <3>2, <3>3, <3>12 DEF DisconnectDbc, Alone, NoneLive, LiveAt, Empty, Numbered,
         Saved, AtRest, Running
    <3>13. CASE FreeDbc(t)
      BY <2>0, <3>1, <3>2, <3>3, <3>13 DEF FreeDbc, Alone, NoneLive, LiveAt, Empty, Numbered,
         Saved, AtRest, Running
    <3>14. CASE ClearDbc(t)
      BY <2>0, <3>1, <3>2, <3>3, <3>14 DEF ClearDbc, Alone, NoneLive, LiveAt, Empty, Numbered,
         Saved, AtRest, Running
    <3>15. CASE HasEnv(t)
      BY <2>0, <3>1, <3>2, <3>3, <3>15 DEF HasEnv, Alone, NoneLive, LiveAt, Empty, Numbered,
         Saved, AtRest, Running
    <3>16. CASE FreeEnv(t)
      BY <2>0, <3>1, <3>2, <3>3, <3>16 DEF FreeEnv, Alone, NoneLive, LiveAt, Empty, Numbered,
         Saved, AtRest, Running
    <3>17. CASE ClearEnv(t)
      BY <2>0, <3>1, <3>2, <3>3, <3>17 DEF ClearEnv, Alone, NoneLive, LiveAt, Empty, Numbered,
         Saved, AtRest, Running
    <3>. QED
      BY <2>6, <3>4, <3>5, <3>6, <3>7, <3>8, <3>9, <3>10, <3>11, <3>12,
         <3>13, <3>14, <3>15, <3>16, <3>17
         DEF insertImage, connect, disconnect
  <2>. QED
    BY <2>1, <2>2, <2>3, <2>4, <2>5, <2>6 DEF Next
<1>3. TypeOK /\ AloneInv => CleanAlone
  <2> SUFFICES ASSUME TypeOK, ~overlapped, AtRest, Alone PROVE CleanAlone
    BY DEF AloneInv, CleanAlone
  <2>1. Empty
    BY DEF Alone, NoneLive
  <2>2. \A t, u \in rows : t # u => number[t] # number[u]
    BY DEF Alone, Numbered, TypeOK
  <2>. QED
    BY <2>1, <2>2 DEF Alone, Saved, Empty, CleanAlone
<1>. QED
  BY <1>1, <1>2, <1>3, InsertTypeCorrect, SetUpFirstCorrect, PTL DEF Spec

-----------------------------------------------------------------------------
\* A number is at most the count of the insertions that are past the
\* increment; a load before it sees at most that.
Started == {t \in Thread : pc[t] # "idle"}
Stored  == {t \in Thread : pc[t] \in {"execute", "done"} \cup Disconnecting}

NumbersInv ==
    /\ IsFiniteSet(Started)
    /\ iImageCnt <= Cardinality(Stored)
    /\ \A t \in Thread : loaded[t] <= Cardinality(Stored) /\ number[t] <= Cardinality(Stored)

\* The finite set of those past the increment only grows.
LEMMA StoredGrows ==
    ASSUME TypeOK, IsFiniteSet(Started), [Next]_vars
    PROVE  /\ IsFiniteSet(Started') /\ Stored \subseteq Stored' /\ Stored' \subseteq Started'
           /\ IsFiniteSet(Stored) /\ IsFiniteSet(Stored')
           /\ Cardinality(Stored) \in Nat /\ Cardinality(Stored') \in Nat
           /\ Cardinality(Stored) <= Cardinality(Stored')
<1>0. Stored \subseteq Started
  BY DEF Stored, Started, Disconnecting
<1>1. CASE \A t \in Thread : pc'[t] = pc[t]
  <2>1. Started' = Started /\ Stored' = Stored
    BY <1>1 DEF Started, Stored
  <2>2. IsFiniteSet(Stored) /\ Cardinality(Stored) \in Nat
    BY <1>0, <2>1, FS_Subset, FS_CardinalityType
  <2>. QED
    BY <1>0, <2>1, <2>2
<1>2. ASSUME NEW t \in Thread, Start(t) \/ UsesMembers(t)
      PROVE  /\ IsFiniteSet(Started') /\ Stored \subseteq Stored' /\ Stored' \subseteq Started'
             /\ IsFiniteSet(Stored) /\ IsFiniteSet(Stored')
             /\ Cardinality(Stored) \in Nat /\ Cardinality(Stored') \in Nat
             /\ Cardinality(Stored) <= Cardinality(Stored')
  <2>2. /\ \A u \in Thread : u # t => pc'[u] = pc[u]
        /\ t \in Stored => t \in Stored' \/ pc[t] = "done"
        /\ pc[t] # "done" /\ pc'[t] # "idle"
    BY <1>2, UseStep DEF Start, Go, TypeOK, Party, Stored, Active, Connecting, Inserting,
       Disconnecting
  <2>3. Started' = Started \cup {t}
    BY <2>2 DEF Started
  <2>4. Stored \subseteq Stored' /\ Stored' \subseteq Started' /\ Stored \subseteq Started
    BY <2>2 DEF Stored, Started, Disconnecting
  <2>5. IsFiniteSet(Started')
    BY <2>3, FS_AddElement
  <2>6. IsFiniteSet(Stored') /\ IsFiniteSet(Stored)
    BY <2>4, <2>5, FS_Subset
  <2>. QED
    BY <2>4, <2>5, <2>6, FS_Subset, FS_CardinalityType
<1>3. (\A t \in Thread : pc'[t] = pc[t]) \/ \E t \in Thread : Start(t) \/ UsesMembers(t)
  <2>1. CASE setUp
    BY <2>1, SetUpStep
  <2>2. CASE ServerEnds
    BY <2>2 DEF ServerEnds, Go, TypeOK, Party
  <2>3. ASSUME UsesMembers(Main) PROVE \A t \in Thread : pc'[t] = pc[t]
    BY <2>3, UseStep DEF Party
  <2>4. CASE UNCHANGED vars
    BY <2>4 DEF vars
  <2>. QED
    BY <2>1, <2>2, <2>3, <2>4, Steps DEF Party
<1>. QED
  BY <1>1, <1>2, <1>3

\* Races of increments lose numbers and never invent one.
THEOREM NumbersCorrect == Spec => []NumbersBounded
<1>1. Init => NumbersInv
  <2> SUFFICES ASSUME Init PROVE NumbersInv
    OBVIOUS
  <2>1. Started = {} /\ Stored = {}
    BY DEF Init, Started, Stored, Disconnecting, Party
  <2>. QED
    BY <2>1, FS_EmptySet DEF Init, NumbersInv
<1>2. TypeOK /\ NumbersInv /\ [Next]_vars => NumbersInv'
  <2> SUFFICES ASSUME TypeOK, NumbersInv, [Next]_vars PROVE NumbersInv'
    OBVIOUS
  <2> USE DEF TypeOK, NumbersInv
  <2>1. CASE counter' = counter
    BY <2>1, StoredGrows DEF counter
  <2>2. ASSUME NEW t \in Thread, LoadCount(t) PROVE NumbersInv'
    BY <2>2, StoredGrows DEF LoadCount
  <2>3. ASSUME NEW t \in Thread, StoreCount(t) PROVE NumbersInv'
    <3>1. t \notin Stored /\ Stored' = Stored \cup {t}
      BY <2>3 DEF StoreCount, Go, Stored, Disconnecting, Party
    <3>2. Cardinality(Stored') = Cardinality(Stored) + 1
      BY <3>1, StoredGrows, FS_AddElement
    <3>. QED
      BY <2>3, <3>2, StoredGrows DEF StoreCount
  <2>4. ASSUME NEW p \in Party, UsesMembers(p), counter' # counter
        PROVE  p \in Thread /\ (LoadCount(p) \/ StoreCount(p))
    BY <2>4 DEF UsesMembers, insertImage, connect, disconnect, AllocEnv, AllocDbc, Connect,
       AllocStmt, Execute, HasDbc, DisconnectDbc, FreeDbc, ClearDbc, HasEnv, FreeEnv, ClearEnv
  <2>5. CASE setUp \/ ServerEnds \/ (\E t \in Thread : Start(t)) \/ UNCHANGED vars
    BY <2>1, <2>5, SetUpStep DEF ServerEnds, Start, vars
  <2>. QED
    BY <2>1, <2>2, <2>3, <2>4, <2>5, Steps
<1>3. TypeOK /\ NumbersInv => NumbersBounded
  <2> SUFFICES ASSUME TypeOK, NumbersInv PROVE NumbersBounded
    OBVIOUS
  <2>1. Stored \subseteq Started
    BY DEF Stored, Started, Disconnecting
  <2>2. /\ Cardinality(Stored) <= Cardinality(Started)
        /\ Cardinality(Stored) \in Nat /\ Cardinality(Started) \in Nat
    BY <2>1, FS_Subset, FS_CardinalityType DEF NumbersInv
  <2>3. iImageCnt <= Cardinality(Started)
    BY <2>2 DEF NumbersInv, TypeOK
  <2>4. \A t \in Thread : number[t] <= Cardinality(Started)
    BY <2>2 DEF NumbersInv, TypeOK
  <2>. QED
    BY <2>3, <2>4 DEF NumbersBounded, Started
<1>. QED
  BY <1>1, <1>2, <1>3, InsertTypeCorrect, PTL DEF Spec
===============================================================================
