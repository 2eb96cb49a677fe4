----------------------------- MODULE ImageServer -----------------------------
(***************************************************************************)
(* The image server of 02-ServerAsio: one io_context run by one thread,    *)
(* so a completion handler runs to its end before the next one starts.     *)
(* Client machines push scanned images to it, operator stations (viewers)  *)
(* receive one image at a time and answer with a decision.                 *)
(*                                                                         *)
(* A handler is one action, except that the loop of assignImages() and the *)
(* blocking handshake are spelled out: pc is the position of the io thread *)
(*   "poll"       in io_context.run(), ready for the next completion       *)
(*   "handshake"  blocked in read_until() for the identity line of cur     *)
(*   "assign"     at the head of the while loop of assignImages()          *)
(*   "return"     behind that loop, in the handler that called it          *)
(*   "spinning"   in that loop for ever: no iteration changes anything     *)
(*   "crashed"    the process is gone                                      *)
(*                                                                         *)
(* The peers and the sockets are the environment. An image is named by its *)
(* scan time, the key of the priority queue; EmptyImage, the object that   *)
(* ImageObject::empty() leaves, has the epoch as its scan time and sorts   *)
(* first (a scan time is far from the epoch, and positive until the        *)
(* conversion to ticks of 100 ns wraps in June 2026). clock is the last    *)
(* reading of system_clock; a reading is at least one tick, so more than   *)
(* 10 ns, behind the one before, unless the clock was set back.            *)
(***************************************************************************)
EXTENDS Integers, Sequences

CONSTANTS
    ClientId,     \* systemId_ values of client machines
    OperatorId,   \* systemId_ values of operators
    Session,      \* the Session objects, one per connection, each used once
    Image,        \* scan times of the images the clients produce
    Null,         \* no session, no systemId_
    Faults        \* what the environment may do, see FaultKinds

FaultKinds == {
    "client_loss",    \* the connection of a client may break
    "operator_loss",  \* the connection of an operator may break
    "early_close",    \* a peer may be gone before its identity line is read
    "overlap",        \* an id may connect again while its old session is open
    "spawn",          \* std::thread may fail to start
    "clock_back"      \* the time of day may be set back
    }

EmptyImage == 0

ASSUME ConstantsOK ==
    /\ ClientId \cap OperatorId = {}
    /\ Null \notin Session \cup ClientId \cup OperatorId
    /\ Image \subseteq Nat \ {EmptyImage}
    /\ Faults \subseteq FaultKinds

VARIABLES
    pc, cur, after,                        \* the io thread
    clients_, operators_,                  \* registered sessions by systemId_
    opState, tpAvailableTime,              \* operatorIdleMap_, field by field
    imageQueue_, bClientsPaused, clock,
    phase, systemId,                       \* of each session
    peerUp, wire, told, desk, answers,     \* its peer and its socket
    origin, received, delivered, inserted  \* history: see TypeOK

thread  == <<pc, cur, after>>
opMap   == <<operators_, opState, tpAvailableTime, clock>>
flow    == <<clients_, bClientsPaused, told>>
peers   == <<peerUp, wire, desk, answers>>
history == <<origin, received, delivered, inserted>>
vars    == <<thread, opMap, flow, imageQueue_, phase, systemId, peers, history>>

TypeOK ==
    /\ pc \in {"poll", "handshake", "assign", "return", "spinning", "crashed"}
    /\ cur \in Session \cup {Null}
    /\ after \in {"none", "resume"}
    /\ clients_ \in [ClientId -> Session \cup {Null}]
    /\ operators_ \in [OperatorId -> Session \cup {Null}]
    /\ opState \in [OperatorId -> {"absent", "AVAILABLE", "BUSY"}]
    /\ tpAvailableTime \in [OperatorId -> Nat]
    /\ imageQueue_ \subseteq Image \cup {EmptyImage}
    /\ bClientsPaused \in BOOLEAN
    /\ clock \in Nat
    /\ phase \in [Session -> {"unused", "dialed", "identified", "open",
                              "destroyed", "done"}]
    /\ systemId \in [Session -> ClientId \cup OperatorId \cup {Null}]
    /\ peerUp \in [Session -> BOOLEAN]
    /\ wire \in [Session -> SUBSET Image]          \* images sent, not read
    /\ told \in [Session -> {"nothing", "PAUSE", "RESUME"}]   \* last command
    /\ desk \in [Session -> Seq(Image \cup {EmptyImage})]  \* not yet decided
    /\ answers \in [Session -> Seq(Image \cup {EmptyImage})]  \* decided, not read
    /\ origin \in [Image -> Session \cup {Null}]   \* the session that sent it
    /\ received \subseteq Image                    \* read off a client socket
    /\ delivered \subseteq Image                   \* written to an operator
    /\ inserted \subseteq Image \cup {EmptyImage}  \* handed to insertImage()

Init ==
    /\ pc = "poll" /\ cur = Null /\ after = "none"
    /\ clients_ = [c \in ClientId |-> Null]
    /\ operators_ = [o \in OperatorId |-> Null]
    /\ opState = [o \in OperatorId |-> "absent"]
    /\ tpAvailableTime = [o \in OperatorId |-> 0]
    /\ imageQueue_ = {} /\ bClientsPaused = FALSE /\ clock = 0
    /\ phase = [s \in Session |-> "unused"]
    /\ systemId = [s \in Session |-> Null]
    /\ peerUp = [s \in Session |-> FALSE]
    /\ wire = [s \in Session |-> {}]
    /\ told = [s \in Session |-> "nothing"]
    /\ desk = [s \in Session |-> <<>>]
    /\ answers = [s \in Session |-> <<>>]
    /\ origin = [i \in Image |-> Null]
    /\ received = {} /\ delivered = {} /\ inserted = {}

-----------------------------------------------------------------------------
(* What the maps hold.                                                      *)

Clients   == {c \in ClientId : clients_[c] # Null}
Operators == {o \in OperatorId : opState[o] # "absent"}
Available == {o \in Operators : opState[o] = "AVAILABLE"}

\* The operators a reading of the clock, later than clock, finds to be idle:
\* the condition of the scan and, negated, of allOperatorsStillBusy().
Idle == {o \in Available : tpAvailableTime[o] <= clock}

\* Mutant: a max-heap.
IsTopOfMaxHeap(img) == img \in imageQueue_ /\ \A j \in imageQueue_ : img >= j

IsTop(img) == img \in imageQueue_ /\ \A j \in imageQueue_ : img <= j

\* Mutant: the scan keeps the operator that became AVAILABLE last.
IsLeastIdle(o) ==
    o \in Idle /\ \A p \in Idle : tpAvailableTime[o] >= tpAvailableTime[p]

\* The choice made by the scan over operatorIdleMap_.
IsMostIdle(o) ==
    o \in Idle /\ \A p \in Idle : tpAvailableTime[o] <= tpAvailableTime[p]

(* One command line written to every session registered in map.             *)
Tell(map, command) ==
    told' = [s \in Session |->
                IF \E c \in ClientId : map[c] = s THEN command ELSE told[s]]

\* Mutants: the command is sent and the flag left as it is.
pauseClientsUnflagged  == UNCHANGED bClientsPaused /\ Tell(clients_, "PAUSE")
resumeClientsUnflagged == UNCHANGED bClientsPaused /\ Tell(clients_, "RESUME")

pauseClients  == bClientsPaused' = TRUE /\ Tell(clients_, "PAUSE")
resumeClients == bClientsPaused' = FALSE /\ Tell(clients_, "RESUME")

-----------------------------------------------------------------------------
(* The environment: client machines, operator stations, their connections. *)

\* A program connects. It does so once per run, so a second session of the
\* same id is a restarted program, or another one started with that id.
Dial(s, id) ==
    /\ phase[s] = "unused"
    /\ "overlap" \in Faults \/ \A t \in Session : systemId[t] = id => phase[t] = "done"
    /\ phase' = [phase EXCEPT ![s] = "dialed"]
    /\ systemId' = [systemId EXCEPT ![s] = id]
    /\ peerUp' = [peerUp EXCEPT ![s] = TRUE]
    /\ UNCHANGED <<thread, opMap, flow, imageQueue_, wire, desk, answers, history>>

Identify(s) ==
    /\ phase[s] = "dialed" /\ peerUp[s]
    /\ phase' = [phase EXCEPT ![s] = "identified"]
    /\ UNCHANGED <<thread, opMap, flow, imageQueue_, systemId, peers, history>>

\* A client scans at increasing times. It sends whether it was told to pause
\* or not; the first image follows the identity line by seconds.
ClientSends(s, i) ==
    /\ phase[s] = "open" /\ systemId[s] \in ClientId /\ peerUp[s]
    /\ origin[i] = Null
    /\ \A j \in Image : origin[j] = s => j < i
    /\ origin' = [origin EXCEPT ![i] = s]
    /\ wire' = [wire EXCEPT ![s] = @ \cup {i}]
    /\ UNCHANGED <<thread, opMap, flow, imageQueue_, phase, systemId, peerUp, desk,
                   answers, received, delivered, inserted>>

\* GetDecisionAsync() answers within t1, by key or by timeout.
OperatorDecides(s) ==
    /\ peerUp[s] /\ desk[s] # <<>> /\ Head(desk[s]) # EmptyImage
    /\ desk' = [desk EXCEPT ![s] = Tail(@)]
    /\ answers' = [answers EXCEPT ![s] = Append(@, Head(desk[s]))]
    /\ UNCHANGED <<thread, opMap, flow, imageQueue_, phase, systemId, peerUp, wire,
                   history>>

\* DeserializeImage() builds a Guid from the id of the image and throws on the
\* empty one; Main() catches and the operator program ends.
OperatorChokes(s) ==
    /\ peerUp[s] /\ desk[s] # <<>> /\ Head(desk[s]) = EmptyImage
    /\ peerUp' = [peerUp EXCEPT ![s] = FALSE]
    /\ desk' = [desk EXCEPT ![s] = <<>>]
    /\ UNCHANGED <<thread, opMap, flow, imageQueue_, phase, systemId, wire, answers,
                   history>>

\* A program ends, or its connection is reset, before the server has read its
\* identity line.
LeavesEarly(s) ==
    /\ "early_close" \in Faults /\ phase[s] \in {"dialed", "identified"}
    /\ phase' = [phase EXCEPT ![s] = "dialed"]
    /\ peerUp' = [peerUp EXCEPT ![s] = FALSE]
    /\ UNCHANGED <<thread, opMap, flow, imageQueue_, systemId, wire, desk, answers, history>>

\* The connection ends: after a FIN the server still reads what was sent, after
\* a reset it does not. A reset may follow a FIN, as the answer to what the
\* server writes to a program that is gone.
PeerDies(s) ==
    /\ phase[s] # "dialed"
    /\ \/ systemId[s] \in ClientId /\ "client_loss" \in Faults
       \/ systemId[s] \in OperatorId /\ "operator_loss" \in Faults
    /\ peerUp' = [peerUp EXCEPT ![s] = FALSE]
    /\ desk' = [desk EXCEPT ![s] = <<>>]
    /\ \/ UNCHANGED <<wire, answers>>
       \/ /\ wire' = [wire EXCEPT ![s] = {}]
          /\ answers' = [answers EXCEPT ![s] = <<>>]
    /\ UNCHANGED <<thread, opMap, flow, imageQueue_, phase, systemId, history>>

\* system_clock is the time of day, which an administrator or NTP may set
\* back; from then on time passes until it is where it was.
ClockSet ==
    /\ "clock_back" \in Faults
    /\ \/ clock' \in 0 .. clock - 1
       \/ clock' = clock + 1 /\ \E o \in Available : tpAvailableTime[o] > clock
    /\ UNCHANGED <<thread, operators_, opState, tpAvailableTime, flow, imageQueue_, phase,
                   systemId, peers, history>>

-----------------------------------------------------------------------------
(* ImageServer::accept() and Session::handshake().                          *)

\* The accept handler starts the session, whose handshake() blocks the thread
\* until the identity line is there.
Accept(s) ==
    /\ pc = "poll" /\ phase[s] \in {"dialed", "identified"}
    /\ pc' = "handshake" /\ cur' = s
    /\ UNCHANGED <<after, opMap, flow, imageQueue_, phase, systemId, peers, history>>

\* read_until() throws at the end of the stream, or after a reset, outside the
\* try block: the exception leaves io_context.run() and main() returns.
HandshakeAborts ==
    /\ pc = "handshake" /\ phase[cur] = "dialed" /\ ~peerUp[cur]
    /\ pc' = "crashed"
    /\ UNCHANGED <<cur, after, opMap, flow, imageQueue_, phase, systemId, peers, history>>

\* Mutant: registerClient() does not clear the flag.
RegisterClientUnflagged ==
    LET c   == systemId[cur]
        map == [clients_ EXCEPT ![c] = cur]
    IN  /\ pc = "handshake" /\ phase[cur] = "identified" /\ c \in ClientId
        /\ clients_' = map
        /\ IF Operators = {}
           THEN bClientsPaused' = TRUE /\ Tell(map, "PAUSE")
           ELSE UNCHANGED <<bClientsPaused, told>>
        /\ phase' = [phase EXCEPT ![cur] = "open"]
        /\ pc' = "poll" /\ cur' = Null
        /\ UNCHANGED <<after, opMap, imageQueue_, systemId, peers, history>>

\* registerClient(), readClientMachine(), and a pause when no operator is there.
RegisterClient ==
    LET c   == systemId[cur]
        map == [clients_ EXCEPT ![c] = cur]
    IN  /\ pc = "handshake" /\ phase[cur] = "identified" /\ c \in ClientId
        /\ clients_' = map
        /\ IF Operators = {}
           THEN bClientsPaused' = TRUE /\ Tell(map, "PAUSE")
           ELSE bClientsPaused' = FALSE /\ UNCHANGED told
        /\ phase' = [phase EXCEPT ![cur] = "open"]
        /\ pc' = "poll" /\ cur' = Null
        /\ UNCHANGED <<after, opMap, imageQueue_, systemId, peers, history>>

\* An entry already in operatorIdleMap_ keeps its state.
registerOperator(o, s) ==
    /\ operators_' = [operators_ EXCEPT ![o] = s]
    /\ opState' = [opState EXCEPT ![o] = IF @ = "absent" THEN "AVAILABLE" ELSE @]
    /\ clock' = clock + 1
    /\ tpAvailableTime' = [tpAvailableTime EXCEPT ![o] = clock + 1]

\* registerOperator(), readOperator(), then resume the clients or assign what
\* is queued.
RegisterOperator ==
    /\ pc = "handshake" /\ phase[cur] = "identified" /\ systemId[cur] \in OperatorId
    /\ registerOperator(systemId[cur], cur)
    /\ phase' = [phase EXCEPT ![cur] = "open"]
    /\ cur' = Null
    /\ IF imageQueue_ = {} /\ bClientsPaused /\ Clients # {}
       THEN resumeClients /\ pc' = "poll" /\ UNCHANGED <<after, clients_>>
       ELSE pc' = "assign" /\ after' = "none" /\ UNCHANGED flow
    /\ UNCHANGED <<imageQueue_, systemId, peers, history>>

-----------------------------------------------------------------------------
(* The read handlers of the two kinds of session.                           *)

handleImage(i) ==
    /\ imageQueue_' = imageQueue_ \cup {i}
    /\ received' = received \cup {i}
    /\ pc' = "assign" /\ after' = "none"

\* Mutant: the error code is not looked at, and what a failed read leaves is
\* an empty image.
ReadImageUnchecked(s) ==
    /\ pc = "poll" /\ phase[s] = "open" /\ systemId[s] \in ClientId
    /\ \E i \in wire[s] \cup (IF peerUp[s] THEN {} ELSE {EmptyImage}) :
          /\ \A j \in wire[s] : i <= j
          /\ wire' = [wire EXCEPT ![s] = @ \ {i}]
          /\ handleImage(i)
    /\ UNCHANGED <<cur, opMap, flow, phase, systemId, peerUp, desk, answers, origin,
                   delivered, inserted>>

\* Mutant: with two reads pending, the later image is handled first.
ReadImageLatest(s) ==
    /\ pc = "poll" /\ phase[s] = "open" /\ systemId[s] \in ClientId
    /\ \E i \in wire[s] :
          /\ \A j \in wire[s] : i >= j
          /\ wire' = [wire EXCEPT ![s] = @ \ {i}]
          /\ handleImage(i)
    /\ UNCHANGED <<cur, opMap, flow, phase, systemId, peerUp, desk, answers, origin,
                   delivered, inserted>>

\* readClientMachine() got an image.
ReadImage(s) ==
    /\ pc = "poll" /\ phase[s] = "open" /\ systemId[s] \in ClientId
    /\ \E i \in wire[s] :
          /\ \A j \in wire[s] : i <= j
          /\ wire' = [wire EXCEPT ![s] = @ \ {i}]
          /\ handleImage(i)
    /\ UNCHANGED <<cur, opMap, flow, phase, systemId, peerUp, desk, answers, origin,
                   delivered, inserted>>

\* readOperator() got a decision: the operator is free again. Queued images
\* are assigned and the clients resumed only if the clients are paused.
ReadDecision(s) ==
    LET o == systemId[s]
    IN  /\ pc = "poll" /\ phase[s] = "open" /\ o \in OperatorId /\ answers[s] # <<>>
        /\ answers' = [answers EXCEPT ![s] = Tail(@)]
        /\ clock' = clock + 1
        /\ tpAvailableTime' = [tpAvailableTime EXCEPT ![o] = clock + 1]
        /\ opState' = [opState EXCEPT ![o] = "AVAILABLE"]
        /\ \/ /\ bClientsPaused /\ imageQueue_ # {}
              /\ pc' = "assign" /\ after' = "resume" /\ UNCHANGED flow
           \/ /\ bClientsPaused /\ imageQueue_ = {}
              /\ resumeClients /\ UNCHANGED <<pc, after, clients_>>
           \/ ~bClientsPaused /\ UNCHANGED <<pc, after, flow>>
        /\ UNCHANGED <<cur, operators_, imageQueue_, phase, systemId, peerUp, wire, desk,
                       history>>

\* Mutant: the failed session reads on after it was destroyed.
ClosedButReading(s, d) ==
    [phase EXCEPT ![s] = "done", ![d] = "destroyed"]

\* The phase of every session after the read of s failed and its handler
\* destroyed d, the session registered under the id of s: s has no read
\* pending any more, another d has, and its handler will run with an error.
\* socket_.close() is taken to succeed. (It may throw; unregister...() would
\* then leave the session registered, with no read pending.)
Closed(s, d) ==
    [phase EXCEPT ![d] = "destroyed", ![s] = "done"]

\* Null in the map stands for a missing entry: operator[] inserts a null
\* shared_ptr, and destroy() through it ends the process.
ClientReadFails(s) ==
    LET c == systemId[s]
    IN  /\ pc = "poll" /\ phase[s] = "open" /\ c \in ClientId
        /\ wire[s] = {} /\ ~peerUp[s]
        /\ IF clients_[c] = Null
           THEN pc' = "crashed" /\ UNCHANGED <<phase, clients_, bClientsPaused>>
           ELSE /\ phase' = Closed(s, clients_[c])
                /\ clients_' = [clients_ EXCEPT ![c] = Null]
                /\ bClientsPaused' = (bClientsPaused \/ Clients = {c})
                /\ UNCHANGED pc
        /\ UNCHANGED <<cur, after, opMap, told, imageQueue_, systemId, peers, history>>

\* Mutant: unregisterOperator() leaves the entry in operatorIdleMap_.
OperatorReadFailsKeepingState(s) ==
    LET o == systemId[s]
    IN  /\ pc = "poll" /\ phase[s] = "open" /\ o \in OperatorId
        /\ answers[s] = <<>> /\ ~peerUp[s] /\ operators_[o] # Null
        /\ phase' = Closed(s, operators_[o])
        /\ operators_' = [operators_ EXCEPT ![o] = Null]
        /\ UNCHANGED <<thread, opState, tpAvailableTime, clock, flow, imageQueue_, systemId,
                       peers, history>>

OperatorReadFails(s) ==
    LET o == systemId[s]
    IN  /\ pc = "poll" /\ phase[s] = "open" /\ o \in OperatorId
        /\ answers[s] = <<>> /\ ~peerUp[s]
        /\ IF operators_[o] = Null
           THEN pc' = "crashed" /\ UNCHANGED <<phase, operators_, opState>>
           ELSE /\ phase' = Closed(s, operators_[o])
                /\ operators_' = [operators_ EXCEPT ![o] = Null]
                /\ opState' = [opState EXCEPT ![o] = "absent"]
                /\ UNCHANGED pc
        /\ UNCHANGED <<cur, after, tpAvailableTime, clock, flow, imageQueue_, systemId,
                       peers, history>>

\* The read of a session destroyed by another one's handler completes with an
\* error, and its handler calls unregister...() through serverRef_, now null.
AbortedRead(s) ==
    /\ pc = "poll" /\ phase[s] = "destroyed"
    /\ pc' = "crashed"
    /\ UNCHANGED <<cur, after, opMap, flow, imageQueue_, phase, systemId, peers, history>>

-----------------------------------------------------------------------------
(* ImageServer::assignImages(), one action per way through an iteration.    *)

\* No image is left: the loop ends.
AssignDone ==
    /\ pc = "assign" /\ imageQueue_ = {}
    /\ pc' = "return"
    /\ UNCHANGED <<cur, after, opMap, flow, imageQueue_, phase, systemId, peers, history>>

\* operatorIdleMap_ is empty: allOperatorsStillBusy() holds of no operator.
AssignNobody ==
    /\ pc = "assign" /\ imageQueue_ # {} /\ Operators = {}
    /\ pauseClients
    /\ pc' = "return"
    /\ UNCHANGED <<cur, after, opMap, clients_, imageQueue_, phase, systemId, peers, history>>

\* Mutant: the image is not pushed back.
AssignAllBusyDropping ==
    /\ pc = "assign" /\ imageQueue_ # {} /\ Operators # {} /\ Idle = {}
    /\ Clients # {}
    /\ pauseClients
    /\ imageQueue_' = {i \in imageQueue_ : ~IsTop(i)}
    /\ pc' = "return"
    /\ UNCHANGED <<cur, after, opMap, clients_, phase, systemId, peers, history>>

\* No operator is idle: the image is pushed back and the clients paused.
AssignAllBusy ==
    /\ pc = "assign" /\ imageQueue_ # {} /\ Operators # {} /\ Idle = {}
    /\ Clients # {}
    /\ pauseClients
    /\ pc' = "return"
    /\ UNCHANGED <<cur, after, opMap, clients_, imageQueue_, phase, systemId, peers, history>>

\* Mutant: the clients are paused and the loop goes on.
AssignSpinsPaused ==
    /\ pc = "assign" /\ imageQueue_ # {} /\ Operators # {} /\ Available = {}
    /\ pc' = "spinning" /\ pauseClients
    /\ UNCHANGED <<cur, after, opMap, clients_, imageQueue_, phase, systemId, peers, history>>

\* ... and with no client to pause the loop goes round again. Only this
\* thread frees an operator or registers a client, so it does so for ever;
\* the clock may let it out if an operator is AVAILABLE and not yet idle, and
\* until then an iteration changes nothing.
AssignSpins ==
    /\ pc = "assign" /\ imageQueue_ # {} /\ Operators # {} /\ Available = {}
    /\ Clients = {}
    /\ pc' = "spinning"
    /\ UNCHANGED <<cur, after, opMap, flow, imageQueue_, phase, systemId, peers, history>>

\* Mutant: the state is not set.
MarkBusyNot(o) ==
    /\ clock' = clock + 1
    /\ tpAvailableTime' = [tpAvailableTime EXCEPT ![o] = clock + 1]
    /\ UNCHANGED <<operators_, opState>>

\* The most idle operator o is marked BUSY before the image is sent.
MarkBusy(o) ==
    /\ opState' = [opState EXCEPT ![o] = "BUSY"]
    /\ clock' = clock + 1
    /\ tpAvailableTime' = [tpAvailableTime EXCEPT ![o] = clock + 1]
    /\ UNCHANGED operators_

\* The image reaches the socket; a socket whose peer is gone may take it too.
Written(o, img) ==
    /\ desk' = [desk EXCEPT ![operators_[o]] = IF peerUp[operators_[o]]
                                               THEN Append(@, img) ELSE @]
    /\ delivered' = (delivered \cup {img}) \ {EmptyImage}
    /\ UNCHANGED <<peerUp, wire, answers>>

\* Mutant: the image is read off the top of the queue and not popped.
AssignSendsPeeking(o, img) ==
    /\ pc = "assign" /\ IsTop(img) /\ IsMostIdle(o) /\ operators_[o] # Null
    /\ MarkBusy(o) /\ Written(o, img)
    /\ inserted' = inserted \cup {img}
    /\ UNCHANGED <<thread, flow, imageQueue_, phase, systemId, origin, received>>

AssignSends(o, img) ==
    /\ pc = "assign" /\ IsTop(img) /\ IsMostIdle(o) /\ operators_[o] # Null
    /\ imageQueue_' = imageQueue_ \ {img}
    /\ MarkBusy(o) /\ Written(o, img)
    /\ inserted' = inserted \cup {img}
    /\ UNCHANGED <<thread, flow, phase, systemId, origin, received>>

\* Mutant: the popped image is pushed back, whether it was sent or not.
CatchFailurePushingBack(img) ==
    /\ pc' = "return"
    /\ UNCHANGED <<cur, after, imageQueue_>>

\* The catch block. Its img is the outer variable, still empty: it is pushed
\* when the queue has a top that differs from it, and the popped image is
\* dropped. unregisterOperator() locks mutex_, which this thread holds: lock()
\* throws, unregisterOperator() catches, and the operator stays as it is.
CatchFailure(img) ==
    LET rest == imageQueue_ \ {img}
    IN  /\ imageQueue_' = IF rest = {} \/ EmptyImage \in rest
                          THEN rest ELSE rest \cup {EmptyImage}
        /\ pc' = "return"
        /\ UNCHANGED <<cur, after>>

\* The write fails: the peer of the selected operator is gone.
AssignSendFails(o, img) ==
    /\ pc = "assign" /\ IsTop(img) /\ IsMostIdle(o) /\ operators_[o] # Null
    /\ ~peerUp[operators_[o]]
    /\ CatchFailure(img)
    /\ MarkBusy(o)
    /\ UNCHANGED <<flow, phase, systemId, peers, history>>

\* The write succeeds and the thread for insertImage() cannot be started.
AssignSpawnFails(o, img) ==
    /\ "spawn" \in Faults
    /\ pc = "assign" /\ IsTop(img) /\ IsMostIdle(o) /\ operators_[o] # Null
    /\ CatchFailure(img)
    /\ MarkBusy(o) /\ Written(o, img)
    /\ UNCHANGED <<flow, phase, systemId, origin, received, inserted>>

\* operators_ has no session for an id of operatorIdleMap_: a null pointer.
AssignNoSession(o, img) ==
    /\ pc = "assign" /\ IsTop(img) /\ IsMostIdle(o) /\ operators_[o] = Null
    /\ pc' = "crashed"
    /\ UNCHANGED <<cur, after, opMap, flow, imageQueue_, phase, systemId, peers, history>>

\* Back in the calling handler: readOperator() resumes the clients.
AssignReturns ==
    /\ pc = "return"
    /\ IF after = "resume" THEN resumeClients ELSE UNCHANGED <<bClientsPaused, told>>
    /\ pc' = "poll" /\ after' = "none"
    /\ UNCHANGED <<cur, opMap, clients_, imageQueue_, phase, systemId, peers, history>>

-----------------------------------------------------------------------------

Environment ==
    \/ \E s \in Session, id \in ClientId \cup OperatorId : Dial(s, id)
    \/ \E s \in Session :
          \/ Identify(s) \/ OperatorDecides(s) \/ OperatorChokes(s)
          \/ LeavesEarly(s) \/ PeerDies(s)
    \/ \E s \in Session, i \in Image : ClientSends(s, i)
    \/ ClockSet

\* The completions the io_context may dispatch for session s.
Dispatch(s) ==
    \/ Accept(s)
    \/ ReadImage(s) \/ ClientReadFails(s)
    \/ ReadDecision(s) \/ OperatorReadFails(s)
    \/ AbortedRead(s)

AssignTo(o, img) ==
    \/ AssignSends(o, img) \/ AssignSendFails(o, img)
    \/ AssignSpawnFails(o, img) \/ AssignNoSession(o, img)

\* The rest of a handler that has started.
Continue ==
    \/ HandshakeAborts \/ RegisterClient \/ RegisterOperator
    \/ AssignDone \/ AssignNobody \/ AssignAllBusy \/ AssignSpins \/ AssignReturns
    \/ \E o \in OperatorId, img \in Image \cup {EmptyImage} : AssignTo(o, img)

Next == Environment \/ Continue \/ \E s \in Session : Dispatch(s)

Spec == Init /\ [][Next]_vars

\* A started handler goes on; a ready completion is dispatched in its turn; a
\* program that has connected identifies itself; an operator decides in time.
Fairness ==
    /\ WF_vars(Continue)
    /\ \A s \in Session :
          /\ SF_vars(Dispatch(s))
          /\ WF_vars(Identify(s))
          /\ WF_vars(OperatorDecides(s) \/ OperatorChokes(s))

FairSpec == Spec /\ Fairness
-----------------------------------------------------------------------------
(* Safety. A property that needs a fault to be absent says so itself.      *)

Absent(faults) == Faults \cap faults = {}

\* The phases of a session that has had its handshake.
Established == {"open", "destroyed", "done"}

\* bClientsPaused is the server's only record of what it told the clients:
\* while it is set, the last command every registered client got is PAUSE.
\* (registerClient() clears it, unregisterClient() sets it without a command.)
PausedFlagSound ==
    bClientsPaused => \A c \in Clients : told[clients_[c]] = "PAUSE"

\* With one client machine the flag is complete, too: a registered client that
\* was told to pause last is known to be. (With two, registerClient() clears
\* the flag for the second one while the first stays paused.)
SoleClientFlagged ==
    (\A c, d \in ClientId : c = d) =>
        \A c \in Clients : told[clients_[c]] = "PAUSE" => bClientsPaused

\* pauseClients() is for the time all operators are BUSY: between handlers, no
\* operator is AVAILABLE while a client is registered and paused.
NoneAvailableWhilePaused ==
    pc = "poll" /\ bClientsPaused /\ Clients # {} => Available = {}

\* It holds if the clock is never set back.
PausedMeansBusy == Absent({"clock_back"}) => NoneAvailableWhilePaused

\* No image is written to an operator twice: one that was written is neither
\* queued nor still to be read off a client socket.
AtMostOnce ==
    \A i \in delivered : i \notin imageQueue_ /\ \A s \in Session : i \notin wire[s]

\* An image that was read off a client socket is queued or was sent: a failed
\* send puts the image it popped back.
NoImageDropped == received \subseteq imageQueue_ \cup delivered

\* As long as no send fails that holds, and what was sent was also handed to
\* insertImage().
NoLoss ==
    Absent({"operator_loss", "spawn"}) =>
        NoImageDropped /\ delivered \subseteq inserted

\* The images at operator s and its answers on the way are at most one, and
\* none while the server holds the operator to be AVAILABLE; while it holds it
\* to be BUSY there is one, or the program is gone: it does not wait in vain.
OneImagePerOperator ==
    Absent({"overlap"}) =>
        \A o \in OperatorId : operators_[o] # Null =>
            LET s    == operators_[o]
                owed == Len(desk[s]) + Len(answers[s])
            IN  /\ owed <= (IF opState[o] = "BUSY" THEN 1 ELSE 0)
                /\ opState[o] = "BUSY" /\ peerUp[s] => owed = 1

\* operators_ and operatorIdleMap_ have the same keys, though they are filled
\* and erased one after the other: assignImages() indexes the one by the other.
MapsAgree ==
    Absent({"overlap"}) => \A o \in OperatorId : opState[o] = "absent" <=> operators_[o] = Null

\* No handler runs into an uncaught exception or a null pointer,
NoCrash == pc # "crashed"

\* unless a peer is gone before its identity line is read or an id connects twice.
NeverCrashes == Absent({"early_close", "overlap"}) => NoCrash

\* The loop of assignImages() ends,
LoopEnds == pc # "spinning"

\* The read of a connection of client c has failed, the program or the network
\* being gone.
ClientLost(c) == \E s \in Session : systemId[s] = c /\ phase[s] = "done" /\ ~peerUp[s]

\* unless the server is deserted: every client machine that has ever been
\* registered has lost a connection, and there was one. As long as one of them
\* has lost none, a registered client can be paused, whatever else fails.
SpinsOnlyDeserted ==
    ~LoopEnds =>
        /\ \E c \in ClientId : ClientLost(c)
        /\ \A s \in Session : phase[s] \in Established /\ systemId[s] \in ClientId
              => ClientLost(systemId[s])

\* Operators get the images of a client in the order it scanned them: none is
\* sent while an earlier one of the same session is queued or on its way.
InScanOrder ==
    [][\A i \in delivered' \ delivered, j \in Image :
          j < i /\ origin[j] = origin[i] => j \notin imageQueue_ \cup wire[origin[i]]]_vars

-----------------------------------------------------------------------------
(* What is inductive, and implies the invariants above.                    *)

\* An image is on the wire of the session that sent it, then received: queued,
\* delivered or dropped.
ImagesInOnePlace ==
    /\ \A s \in Session : \A i \in wire[s] : origin[i] = s /\ i \notin received
    /\ \A i \in received : origin[i] # Null
    /\ imageQueue_ \subseteq received \cup {EmptyImage}
    /\ delivered \subseteq received \ imageQueue_

\* A session has an id from the time it is dialed and is registered, if at
\* all, under that id; cur is a session that waits for its handshake.
SessionsHaveIds ==
    /\ \A s \in Session : phase[s] = "unused" <=> systemId[s] = Null
    /\ \A c \in ClientId : clients_[c] # Null =>
          systemId[clients_[c]] = c /\ phase[clients_[c]] \in Established
    /\ \A o \in OperatorId : operators_[o] # Null =>
          systemId[operators_[o]] = o /\ phase[operators_[o]] \in Established
    /\ pc = "handshake" => cur \in Session /\ phase[cur] \in {"dialed", "identified"}

\* If no id connects twice, the sessions in the maps are exactly the open ones,
\* and at most one session of an id is not over.
MapsHoldOpenSessions ==
    Absent({"overlap"}) =>
        /\ \A s, t \in Session :
              s # t /\ systemId[s] = systemId[t] /\ systemId[s] # Null
                  => phase[s] = "done" \/ phase[t] = "done"
        /\ \A c \in Clients : phase[clients_[c]] = "open"
        /\ \A o \in OperatorId : operators_[o] # Null => phase[operators_[o]] = "open"
        /\ \A s \in Session :
              /\ phase[s] # "destroyed"
              /\ phase[s] = "open" /\ systemId[s] \in ClientId => clients_[systemId[s]] = s
              /\ phase[s] = "open" /\ systemId[s] \in OperatorId => operators_[systemId[s]] = s

\* An image is on the desk of, and an answer owed by, an operator's session
\* that has had its handshake.
OnlyOperatorsOwe ==
    \A s \in Session : desk[s] # <<>> \/ answers[s] # <<>>
        => phase[s] \in Established /\ systemId[s] \in OperatorId

\* Only a peer that closes early leaves a session without an identity line.
DialedPeersUp ==
    Absent({"early_close"}) => \A s \in Session : phase[s] = "dialed" => peerUp[s]

IInv ==
    /\ ImagesInOnePlace /\ SessionsHaveIds /\ OnlyOperatorsOwe /\ DialedPeersUp
    /\ MapsHoldOpenSessions /\ MapsAgree /\ OneImagePerOperator /\ NeverCrashes

-----------------------------------------------------------------------------
(* Liveness, under FairSpec. Once the loop of assignImages() spins, no       *)
(* handler runs any more and nothing below comes about: see                 *)
(* SpinsOnlyDeserted. A property that allows for it says so by ~LoopEnds.   *)

\* An operator that is BUSY becomes AVAILABLE or is removed, by its answer, or
\* when the loss of its connection is noticed - or the loop has come to spin.
BusyEnds ==
    \A o \in OperatorId : opState[o] = "BUSY" ~> (opState[o] # "BUSY" \/ ~LoopEnds)

\* A session whose peer is gone is noticed, and its handler ends it - or the
\* loop has come to spin.
LossNoticed ==
    \A s \in Session : (phase[s] = "open" /\ ~peerUp[s]) ~> (phase[s] = "done" \/ ~LoopEnds)

\* A client that was told to pause is told to resume, unless it goes itself or
\* no operator is left.
PausedIsResumed ==
    \A s \in Session :
        told[s] = "PAUSE" /\ Operators # {}
            ~> told[s] = "RESUME" \/ Operators = {} \/ ~peerUp[s]
=============================================================================
