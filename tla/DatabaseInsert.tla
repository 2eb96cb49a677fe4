---------------------------- MODULE DatabaseInsert ----------------------------
(***************************************************************************)
(* DatabaseOperation, from its constructor to its destructor. The main     *)
(* thread sets the database up and then serves; assignImages() starts a    *)
(* detached thread per image that was sent, and all of them run            *)
(* insertImage() on the one object db of the server. Nothing orders them:  *)
(* hEnv_, hDbc_ and the static counter iImageCnt are read and written by   *)
(* several threads, and by the destructor when an exception ends the       *)
(* server. The process ends with its main thread.                          *)
(*                                                                         *)
(* A step holds one access to these three, or several to the driver        *)
(* manager alone. A handle is named after the thread that allocated it.    *)
(* The driver manager is external: it checks the handle of a call, refuses *)
(* to free an environment with connections or a connection in use, and     *)
(* SQLDisconnect() frees the statements of the connection.                 *)
(***************************************************************************)
EXTENDS Naturals, FiniteSets

CONSTANTS
    Thread,     \* one per image sent
    Main,       \* the main thread
    Null,       \* nullptr
    DbFails     \* BOOLEAN: may the database refuse what it is asked?

ASSUME DatabaseAssumption ==
    Null \notin Thread /\ Main \notin Thread /\ DbFails \in BOOLEAN

VARIABLES
    pc,                         \* of each thread, named for the next call
    hEnv_, hDbc_, iImageCnt,    \* shared
    loaded, number,             \* iImageCnt as read, the number in imageName
    envs, dbcs, connected, stmts,   \* live handles of the driver manager
    envOf, dbcOf,                   \* of a connection, of a statement
    database, inUse, table,     \* NAR exists, the set-up uses it, it has ImageEntries
    rows,                       \* threads whose row is in it
    refused,                    \* history: the database refused something
    overlapped                  \* history: two uses of the members overlapped

members == <<hEnv_, hDbc_>>
counter == <<iImageCnt, loaded, number>>
handles == <<envs, dbcs, connected, stmts, envOf, dbcOf>>
catalog == <<database, inUse, table>>
record  == <<catalog, rows, refused, overlapped>>
vars    == <<pc, members, counter, handles, record>>

Party      == Thread \cup {Main}
SettingUp  == {"login", "create", "use", "table"}
Connecting == {"env", "dbc", "connect"}
Inserting  == {"stmt", "load", "store", "execute"}
Disconnecting ==
    {"hasDbc", "disconnectDbc", "freeDbc", "clearDbc", "hasEnv", "freeEnv", "clearEnv"}
Active     == Connecting \cup Inserting \cup Disconnecting

TypeOK ==
    /\ pc \in [Party -> SettingUp \cup {"serve"} \cup Active \cup {"idle", "done"}]
    /\ hEnv_ \in Thread \cup {Null} /\ hDbc_ \in Thread \cup {Null}
    /\ iImageCnt \in Nat /\ loaded \in [Thread -> Nat] /\ number \in [Thread -> Nat]
    /\ envs \subseteq Thread /\ dbcs \subseteq Thread
    /\ connected \subseteq dbcs /\ stmts \subseteq Thread
    /\ envOf \in [Thread -> Thread \cup {Null}] /\ dbcOf \in [Thread -> Thread \cup {Null}]
    /\ database \in BOOLEAN /\ inUse \in BOOLEAN /\ table \in BOOLEAN
    /\ rows \subseteq Thread
    /\ refused \in BOOLEAN /\ overlapped \in BOOLEAN

\* An earlier run may have left the database, or the database and the table.
Init ==
    /\ pc = [p \in Party |-> IF p = Main THEN "login" ELSE "idle"]
    /\ database \in BOOLEAN /\ inUse = FALSE
    /\ table \in BOOLEAN /\ (table => database)
    /\ hEnv_ = Null /\ hDbc_ = Null
    /\ iImageCnt = 0 /\ loaded = [t \in Thread |-> 0] /\ number = [t \in Thread |-> 0]
    /\ envs = {} /\ dbcs = {} /\ connected = {} /\ stmts = {}
    /\ envOf = [t \in Thread |-> Null] /\ dbcOf = [t \in Thread |-> Null]
    /\ rows = {} /\ refused = FALSE /\ overlapped = FALSE

\* The process is there as long as its main thread.
Go(p, from, to) ==
    /\ pc[Main] # "done"
    /\ pc[p] = from /\ pc' = [pc EXCEPT ![p] = to]

Refuse == DbFails /\ refused' = TRUE

Running == {p \in Party : pc[p] \in Active}

-----------------------------------------------------------------------------
(* The main thread. createDatabaseAndTableIfNotExists() has handles of its *)
(* own, and frees them before it returns.                                  *)

\* Without a connection the constructor throws a string, which neither its own
\* handler nor main() catches: the process is aborted.
Login ==
    /\ \/ Go(Main, "login", "create") /\ UNCHANGED refused
       \/ Go(Main, "login", "done") /\ Refuse
    /\ UNCHANGED <<members, counter, handles, catalog, rows, overlapped>>

\* The results of CREATE DATABASE and USE are not looked at ...
CreateDatabase ==
    /\ Go(Main, "create", "use")
    /\ \/ database' = TRUE /\ UNCHANGED refused
       \/ Refuse /\ UNCHANGED database
    /\ UNCHANGED <<members, counter, handles, inUse, table, rows, overlapped>>

UseDatabase ==
    /\ Go(Main, "use", "table")
    /\ \/ inUse' = database /\ UNCHANGED refused
       \/ Refuse /\ UNCHANGED inUse
    /\ UNCHANGED <<members, counter, handles, database, table, rows, overlapped>>

\* ... so that the table may be created in the default database; and one that
\* could not be created is reported, and no failure.
CreateTable ==
    /\ Go(Main, "table", "serve")
    /\ \/ table' = (table \/ inUse) /\ UNCHANGED refused
       \/ Refuse /\ UNCHANGED table
    /\ UNCHANGED <<members, counter, handles, database, inUse, rows, overlapped>>

\* The port is taken, or an exception leaves io_context.run(): main() catches it,
\* and db is destroyed with the server, whatever the detached threads are about.
ServerEnds ==
    /\ Go(Main, "serve", "hasDbc")
    /\ overlapped' = (overlapped \/ Running # {})
    /\ UNCHANGED <<members, counter, handles, catalog, rows, refused>>

setUp == Login \/ CreateDatabase \/ UseDatabase \/ CreateTable

\* assignImages() starts the thread.
Start(t) ==
    /\ pc[Main] = "serve" /\ Go(t, "idle", "env")
    /\ overlapped' = (overlapped \/ Running # {})
    /\ UNCHANGED <<members, counter, handles, catalog, rows, refused>>

-----------------------------------------------------------------------------
(* connect()                                                                *)

AllocEnv(t) ==
    /\ Go(t, "env", "dbc")
    /\ envs' = envs \cup {t} /\ hEnv_' = t
    /\ UNCHANGED <<hDbc_, counter, dbcs, connected, stmts, envOf, dbcOf, record>>

\* With an environment that is gone no handle is allocated; whether the call
\* then sets its output to null is up to the driver manager.
AllocDbc(t) ==
    /\ Go(t, "dbc", "connect")
    /\ \/ /\ hEnv_ \in envs
          /\ dbcs' = dbcs \cup {t} /\ hDbc_' = t
          /\ envOf' = [envOf EXCEPT ![t] = hEnv_]
       \/ /\ hEnv_ \notin envs
          /\ hDbc_' \in {hDbc_, Null}
          /\ UNCHANGED <<dbcs, envOf>>
    /\ UNCHANGED <<hEnv_, counter, envs, connected, stmts, dbcOf, record>>

\* There is a database, and a connection that is neither gone nor in use.
Connectable == database /\ hDbc_ \in dbcs \ connected

\* Mutant: a failed connection is not followed by disconnect().
ConnectLeaking(t) ==
    /\ \/ /\ Connectable
          /\ Go(t, "connect", "stmt")
          /\ connected' = connected \cup {hDbc_}
          /\ UNCHANGED refused
       \/ /\ Go(t, "connect", "done")
          /\ \/ ~Connectable /\ UNCHANGED refused
             \/ Refuse
          /\ UNCHANGED connected
    /\ UNCHANGED <<members, counter, envs, dbcs, stmts, envOf, dbcOf, catalog, rows,
                   overlapped>>

\* A failure goes to disconnect(), and the exception past the rest of
\* insertImage().
Connect(t) ==
    /\ \/ /\ Connectable
          /\ Go(t, "connect", "stmt")
          /\ connected' = connected \cup {hDbc_}
          /\ UNCHANGED refused
       \/ /\ Go(t, "connect", "hasDbc")
          /\ \/ ~Connectable /\ UNCHANGED refused
             \/ Refuse
          /\ UNCHANGED connected
    /\ UNCHANGED <<members, counter, envs, dbcs, stmts, envOf, dbcOf, catalog, rows,
                   overlapped>>

-----------------------------------------------------------------------------
(* insertImage()                                                            *)

\* The result is not looked at: hStmt stays null if there is no connection.
AllocStmt(t) ==
    /\ Go(t, "stmt", "load")
    /\ \/ /\ hDbc_ \in connected
          /\ stmts' = stmts \cup {t}
          /\ dbcOf' = [dbcOf EXCEPT ![t] = hDbc_]
       \/ hDbc_ \notin connected /\ UNCHANGED <<stmts, dbcOf>>
    /\ UNCHANGED <<members, counter, envs, dbcs, connected, envOf, record>>

\* ++iImageCnt is a load and a store.
LoadCount(t) ==
    /\ Go(t, "load", "store")
    /\ loaded' = [loaded EXCEPT ![t] = iImageCnt]
    /\ UNCHANGED <<members, iImageCnt, number, handles, record>>

\* Mutant: incremented once for the name and once for the path.
StoreCountTwice(t) ==
    /\ Go(t, "store", "execute")
    /\ iImageCnt' = loaded[t] + 2
    /\ number' = [number EXCEPT ![t] = loaded[t] + 2]
    /\ UNCHANGED <<members, loaded, handles, record>>

StoreCount(t) ==
    /\ Go(t, "store", "execute")
    /\ iImageCnt' = loaded[t] + 1
    /\ number' = [number EXCEPT ![t] = loaded[t] + 1]
    /\ UNCHANGED <<members, loaded, handles, record>>

\* Binds, executes and frees the statement, if it is still there.
Execute(t) ==
    /\ Go(t, "execute", "hasDbc")
    /\ LET inserts == t \in stmts /\ table
       IN  \/ inserts /\ rows' = rows \cup {t} /\ UNCHANGED refused
           \/ ~inserts /\ UNCHANGED <<rows, refused>>
           \/ Refuse /\ UNCHANGED rows
    /\ stmts' = stmts \ {t}
    /\ UNCHANGED <<members, counter, envs, dbcs, connected, envOf, dbcOf, catalog,
                   overlapped>>

-----------------------------------------------------------------------------
(* disconnect(): each use of a member reads it anew.                        *)

HasDbc(p) ==
    /\ Go(p, "hasDbc", IF hDbc_ # Null THEN "disconnectDbc" ELSE "hasEnv")
    /\ UNCHANGED <<members, counter, handles, record>>

DisconnectDbc(p) ==
    /\ Go(p, "disconnectDbc", "freeDbc")
    /\ connected' = connected \ {hDbc_}
    /\ stmts' = {s \in stmts : dbcOf[s] # hDbc_}
    /\ UNCHANGED <<members, counter, envs, dbcs, envOf, dbcOf, record>>

\* Mutant: nothing looks whether the connection is in use.
FreeDbcUnchecked(p) ==
    /\ Go(p, "freeDbc", "clearDbc")
    /\ dbcs' = dbcs \ {hDbc_}
    /\ UNCHANGED <<members, counter, envs, connected, stmts, envOf, dbcOf, record>>

FreeDbc(p) ==
    /\ Go(p, "freeDbc", "clearDbc")
    /\ dbcs' = IF hDbc_ \in connected THEN dbcs ELSE dbcs \ {hDbc_}
    /\ UNCHANGED <<members, counter, envs, connected, stmts, envOf, dbcOf, record>>

\* Mutant: the member keeps the freed handle.
ClearDbcNot(p) ==
    /\ Go(p, "clearDbc", "hasEnv")
    /\ UNCHANGED <<members, counter, handles, record>>

ClearDbc(p) ==
    /\ Go(p, "clearDbc", "hasEnv")
    /\ hDbc_' = Null
    /\ UNCHANGED <<hEnv_, counter, handles, record>>

HasEnv(p) ==
    /\ Go(p, "hasEnv", IF hEnv_ # Null THEN "freeEnv" ELSE "done")
    /\ UNCHANGED <<members, counter, handles, record>>

FreeEnv(p) ==
    /\ Go(p, "freeEnv", "clearEnv")
    /\ envs' = IF \E d \in dbcs : envOf[d] = hEnv_ THEN envs ELSE envs \ {hEnv_}
    /\ UNCHANGED <<members, counter, dbcs, connected, stmts, envOf, dbcOf, record>>

ClearEnv(p) ==
    /\ Go(p, "clearEnv", "done")
    /\ hEnv_' = Null
    /\ UNCHANGED <<hDbc_, counter, handles, record>>

-----------------------------------------------------------------------------

connect(t) == AllocEnv(t) \/ AllocDbc(t) \/ Connect(t)

disconnect(p) ==
    \/ HasDbc(p) \/ DisconnectDbc(p) \/ FreeDbc(p) \/ ClearDbc(p)
    \/ HasEnv(p) \/ FreeEnv(p) \/ ClearEnv(p)

insertImage(t) ==
    \/ connect(t)
    \/ AllocStmt(t) \/ LoadCount(t) \/ StoreCount(t) \/ Execute(t)
    \/ disconnect(t)

Next ==
    \/ setUp \/ ServerEnds \/ disconnect(Main)
    \/ \E t \in Thread : Start(t) \/ insertImage(t)

Spec == Init /\ [][Next]_vars

-----------------------------------------------------------------------------
AtRest == Running = {}

\* However insertions and the destructor race over them, the members are null
\* once none is running: the next use finds no stale handle.
MembersClearAtRest == AtRest => hEnv_ = Null /\ hDbc_ = Null

\* As long as no two of them overlap, each frees the handles that connect() and
\* insertImage() allocated, whatever the database refuses; and if it has refused
\* nothing, in the set-up or since, every image has its row under a number of its
\* own.
CleanAlone ==
    ~overlapped /\ AtRest =>
        /\ envs = {} /\ dbcs = {} /\ stmts = {}
        /\ ~refused => \A t \in Thread : pc[t] = "done" => t \in rows
        /\ \A t, u \in rows : t # u => number[t] # number[u]

\* Increments of iImageCnt that race lose numbers, they never invent one: no
\* image gets a number beyond the images that were started.
NumbersBounded ==
    LET started == Cardinality({t \in Thread : pc[t] # "idle"})
    IN  iImageCnt <= started /\ \A t \in Thread : number[t] <= started

\* While the server serves and the database refuses nothing, every image that
\* was sent is saved.
SavesImages ==
    pc[Main] = "serve" /\ ~refused => \A t \in Thread : pc[t] = "done" => t \in rows
===============================================================================
