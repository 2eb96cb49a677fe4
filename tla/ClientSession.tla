---------------------------- MODULE ClientSession ----------------------------
(***************************************************************************)
(* A client machine and its session at the server: the sender and the      *)
(* receiver task of ClientMachine.cs with the flags they share, the stream *)
(* between the programs, and the handshake and the read loop of NAR.cpp.   *)
(*                                                                         *)
(* What the client writes is a sequence of cells, and both ends only count *)
(* them: the identity is role, length, id and newline, an image is its     *)
(* length prefix and two cells of payload. read_until() of the handshake   *)
(* takes up to 512 bytes as they come, and its buffer is local: what it    *)
(* read past the identity is gone. From then on the session reads at an    *)
(* offset that is no length prefix and is "lost", until a frame of garbage *)
(* happens to end where an image begins. (Such a frame is taken not to     *)
(* deserialise: a stream that ends early leaves zero pixels, and pixels do *)
(* not imitate a message.)                                                 *)
(*                                                                         *)
(* The rest of the server is the environment: it writes commands and may   *)
(* close the connection. The handshake waits for its turn on the only      *)
(* thread, which may be long.                                              *)
(***************************************************************************)
EXTENDS Naturals, Sequences

CONSTANTS
    MaxImages,     \* bound: images that a client writes to a live connection
    MaxCommands,   \* bound: commands on their way to the client
    OverRead,      \* cells that fit into the 512 bytes behind an identity
    OddImages      \* images whose pixels do not match their width and height

ASSUME ClientAssumption ==
    MaxImages \in Nat /\ MaxCommands \in Nat /\ OverRead \in Nat /\ OddImages \subseteq Nat

VARIABLES
    pc,                          \* Main() and the sender task
    receiver,                    \* the task ReceiveCommands()
    paused, sbKeepConnection,    \* their flags
    link,                        \* the connection, as the client meets it
    written, consumed,           \* cells written by the client, read by the server
    cmds, told,                  \* commands on their way, the last one written
    session, systemId,           \* the server's Session
    received,                    \* images it handed to handleImage()
    newline,                     \* the length of the id has a byte 10
    late, sincePause             \* history: see TypeOK

flags   == <<paused, sbKeepConnection>>
down    == <<cmds, told>>
server  == <<session, systemId, received, consumed>>
history == <<late, sincePause>>
vars    == <<pc, receiver, flags, link, written, down, server, newline, history>>

Images   == 1..MaxImages
Reading  == {"length", "body", "lost"}
Identity == 4
Frame    == 3

\* Image k is in the cells EndOf(k - 1) + 1 .. EndOf(k).
EndOf(k) == Identity + Frame * k

TypeOK ==
    /\ pc \in {"connect", "identify", "check", "rest", "wait", "exited"}
    /\ receiver \in {"none", "reading", "ended"}
    /\ paused \in BOOLEAN /\ sbKeepConnection \in BOOLEAN
    /\ link \in {"none", "up", "fin", "reset"}
    /\ written \in 0..EndOf(MaxImages) /\ consumed \in 0..written
    /\ cmds \in Seq({"PAUSE", "RESUME"}) /\ Len(cmds) <= MaxCommands
    /\ told \in {"nothing", "PAUSE", "RESUME"}
    /\ session \in {"none", "handshake", "ended", "crashed"} \cup Reading
    /\ systemId \in {"none", "own", "garbled"}
    /\ received \in Seq(Images)
    /\ newline \in BOOLEAN
    /\ late \in BOOLEAN        \* an image was written before the handshake ended
    /\ sincePause \in 0..2     \* images written since PAUSE was read, 2 for more

Init ==
    /\ pc = "connect" /\ receiver = "none"
    /\ paused = FALSE /\ sbKeepConnection = TRUE
    /\ link = "none" /\ written = 0 /\ consumed = 0
    /\ cmds = <<>> /\ told = "nothing"
    /\ session = "none" /\ systemId = "none" /\ received = <<>>
    /\ newline \in BOOLEAN
    /\ late = FALSE /\ sincePause = 0

-----------------------------------------------------------------------------
(* The client: Main().                                                      *)

\* The server accepts, and blocks in the handshake of the new session.
Connect ==
    /\ pc = "connect" /\ pc' = "identify"
    /\ link' = "up" /\ session' = "handshake"
    /\ UNCHANGED <<receiver, flags, written, down, systemId, received, consumed, newline,
                   history>>

\* The folder of images is listed after the connection is made: without it
\* the program ends before it has said who it is.
NoFolder ==
    /\ pc = "identify" /\ pc' = "exited"
    /\ UNCHANGED <<receiver, flags, link, written, down, server, newline, history>>

Identify ==
    /\ pc = "identify"
    /\ IF link = "reset"
       THEN pc' = "exited" /\ UNCHANGED <<receiver, written>>
       ELSE /\ pc' = "check" /\ receiver' = "reading"
            /\ written' = IF link = "up" THEN Identity ELSE written
    /\ UNCHANGED <<flags, link, down, server, newline, history>>

\* The head of the sender's loop. When it ends Main() does, and the process:
\* commands nobody has read turn its FIN into a reset.
Check ==
    /\ pc = "check"
    /\ IF sbKeepConnection
       THEN pc' = (IF paused THEN "rest" ELSE "wait") /\ UNCHANGED link
       ELSE pc' = "exited" /\ link' = IF cmds = <<>> THEN link ELSE "reset"
    /\ UNCHANGED <<receiver, flags, written, down, server, newline, history>>

\* Mutant: the sender rechecks the flag after its rest.
RestRechecking ==
    /\ pc = "rest" /\ pc' = "check"
    /\ UNCHANGED <<receiver, flags, link, written, down, server, newline, history>>

\* Task.Delay(1000), and on to the delay before the next scan.
Rest ==
    /\ pc = "rest" /\ pc' = "wait"
    /\ UNCHANGED <<receiver, flags, link, written, down, server, newline, history>>

\* After its delay the sender writes an image. A connection that the server
\* has closed takes one more write, and answers it with a reset.
Send ==
    /\ pc = "wait" /\ pc' = "check"
    /\ \/ /\ link = "up" /\ written < EndOf(MaxImages)
          /\ written' = written + Frame
          /\ late' = (late \/ session = "handshake")
          /\ sincePause' = IF ~paused THEN 0 ELSE IF sincePause < 2 THEN sincePause + 1 ELSE 2
          /\ UNCHANGED link
       \/ link = "fin" /\ link' = "reset" /\ UNCHANGED <<written, history>>
    /\ UNCHANGED <<receiver, flags, down, server, newline>>

\* The handler of the sender's exceptions, paused or not.
StopSending ==
    /\ pc = "wait" /\ pc' = "check"
    /\ sbKeepConnection' = FALSE /\ paused' = TRUE
    /\ UNCHANGED <<receiver, link, written, down, server, newline, history>>

WriteFails == link = "reset" /\ StopSending

\* The next image file cannot be opened, or its text is no image.
NoImage == StopSending

-----------------------------------------------------------------------------
(* The client: ReceiveCommands(), until the process exits.                  *)

Receiving == receiver = "reading" /\ pc # "exited"

\* Mutant: any command flips the flag.
ReceiveLineToggling ==
    /\ Receiving /\ cmds # <<>> /\ link # "reset"
    /\ paused' = ~paused
    /\ cmds' = Tail(cmds)
    /\ receiver' = IF sbKeepConnection THEN "reading" ELSE "ended"
    /\ sincePause' = 0
    /\ UNCHANGED <<pc, sbKeepConnection, link, written, told, server, newline, late>>

\* A line, also one that was awaited when sbKeepConnection was cleared.
ReceiveLine ==
    /\ Receiving /\ cmds # <<>> /\ link # "reset"
    /\ paused' = (Head(cmds) = "PAUSE")
    /\ cmds' = Tail(cmds)
    /\ receiver' = IF sbKeepConnection THEN "reading" ELSE "ended"
    /\ sincePause' = IF paused THEN sincePause ELSE 0
    /\ UNCHANGED <<pc, sbKeepConnection, link, written, told, server, newline, late>>

\* At the end of the stream every read returns null at once: the task loops,
\* and changes nothing, until the sender clears the flag.
ReceiveNull ==
    /\ Receiving /\ cmds = <<>> /\ link = "fin" /\ ~sbKeepConnection
    /\ receiver' = "ended"
    /\ UNCHANGED <<pc, flags, link, written, down, server, newline, history>>

ReceiveFails ==
    /\ Receiving /\ link = "reset"
    /\ sbKeepConnection' = FALSE /\ receiver' = "ended"
    /\ UNCHANGED <<pc, paused, link, written, down, server, newline, history>>

-----------------------------------------------------------------------------
(* The server's session.                                                    *)

\* An image begins behind cell n.
AtPrefix(n) == \E k \in 0..MaxImages : n = EndOf(k)

\* Mutant: the identity is complete without its newline.
HandshakeShort(n) ==
    /\ session = "handshake" /\ link # "reset"
    /\ n \in consumed + 1 .. written /\ n <= Identity + OverRead
    /\ consumed' = n
    /\ IF n >= Identity - 1
       THEN /\ session' = IF AtPrefix(n) THEN "length" ELSE "lost"
            /\ systemId' = "own"
       ELSE UNCHANGED <<session, systemId>>
    /\ UNCHANGED <<pc, receiver, flags, link, written, down, received, newline, history>>

\* One read of read_until() ends with cell n; with a newline among the cells
\* read, the identity is parsed from what there is, and the client registered.
\* It is paused if no operator is connected.
Handshake(n) ==
    /\ session = "handshake" /\ link # "reset"
    /\ n \in consumed + 1 .. written /\ n <= Identity + OverRead
    /\ consumed' = n
    /\ IF n >= Identity \/ (newline /\ n >= 2)
       THEN /\ session' = IF AtPrefix(n) THEN "length" ELSE "lost"
            /\ systemId' = IF n >= 3 THEN "own" ELSE "garbled"
            /\ \/ UNCHANGED down
               \/ MaxCommands > 0 /\ cmds' = <<"PAUSE">> /\ told' = "PAUSE"
       ELSE UNCHANGED <<session, systemId, down>>
    /\ UNCHANGED <<pc, receiver, flags, link, written, received, newline, history>>

\* The client is gone, or its connection broken.
NothingComes == link = "reset" \/ (pc = "exited" /\ consumed = written)

\* Mutant: the end of the stream is not an error.
HandshakeThrowsOnReset ==
    /\ session = "handshake" /\ link = "reset"
    /\ session' = "crashed"
    /\ UNCHANGED <<pc, receiver, flags, link, written, down, systemId, received, consumed,
                   newline, history>>

\* The exception of read_until() leaves the handshake, and ends the server.
HandshakeThrows ==
    /\ session = "handshake" /\ NothingComes
    /\ session' = "crashed" /\ link' = "reset"
    /\ UNCHANGED <<pc, receiver, flags, written, down, systemId, received, consumed, newline,
                   history>>

\* Mutant: the read completes with what has come.
ReadLengthSome ==
    /\ session = "length" /\ link # "reset"
    /\ consumed' = consumed + 1 /\ session' = "body"
    /\ UNCHANGED <<pc, receiver, flags, link, written, down, systemId, received, newline,
                   history>>

ReadLength ==
    /\ session = "length" /\ link # "reset" /\ consumed < written
    /\ consumed' = consumed + 1 /\ session' = "body"
    /\ UNCHANGED <<pc, receiver, flags, link, written, down, systemId, received, newline,
                   history>>

\* Mutant: the payload stays in the socket.
ReadBodyPeeking ==
    /\ session = "body" /\ link # "reset" /\ consumed + (Frame - 1) <= written
    /\ \E k \in Images : consumed + (Frame - 1) = EndOf(k) /\ received' = Append(received, k)
    /\ UNCHANGED <<pc, receiver, flags, link, written, down, systemId, session, consumed,
                   newline, history>>

\* deserializeImage() throws on odd pixels, and the handler goes on.
ReadBody ==
    /\ session = "body" /\ link # "reset" /\ consumed + (Frame - 1) <= written
    /\ consumed' = consumed + (Frame - 1) /\ session' = "length"
    /\ \E k \in Images :
          /\ consumed' = EndOf(k)
          /\ received' = IF k \in OddImages THEN received ELSE Append(received, k)
    /\ UNCHANGED <<pc, receiver, flags, link, written, down, systemId, newline, history>>

\* Garbage for a length: as many bytes as it says are waited for and rejected,
\* or resize() cannot allocate them, outside any try block.
ReadGarbage ==
    /\ session = "lost" /\ link # "reset" /\ consumed < written
    /\ \/ /\ consumed' \in consumed + 1 .. written
          /\ session' \in {"lost"} \cup (IF AtPrefix(consumed') THEN {"length"} ELSE {})
          /\ UNCHANGED link
       \/ session' = "crashed" /\ link' \in {"fin", "reset"} /\ UNCHANGED consumed
    /\ UNCHANGED <<pc, receiver, flags, written, down, systemId, received, newline, history>>

\* Mutants: the error handler fails; only a reset is taken for an error.
ReadFailsThrowing ==
    /\ session \in Reading /\ NothingComes
    /\ session' = "crashed"
    /\ UNCHANGED <<pc, receiver, flags, link, written, down, systemId, received, consumed,
                   newline, history>>

ReadFailsOnReset ==
    /\ session \in Reading /\ link = "reset"
    /\ session' = "ended"
    /\ UNCHANGED <<pc, receiver, flags, link, written, down, systemId, received, consumed,
                   newline, history>>

ReadFails ==
    /\ session \in Reading /\ NothingComes
    /\ session' = "ended"
    /\ UNCHANGED <<pc, receiver, flags, link, written, down, systemId, received, consumed,
                   newline, history>>

-----------------------------------------------------------------------------
(* The environment.                                                         *)

Command(c) ==
    /\ session \in Reading /\ link = "up" /\ Len(cmds) < MaxCommands
    /\ cmds' = Append(cmds, c) /\ told' = c
    /\ UNCHANGED <<pc, receiver, flags, link, written, server, newline, history>>

\* The server's end is closed by another handler, or with its process.
ServerCloses ==
    /\ session \in Reading \cup {"handshake"} /\ link = "up"
    /\ session' = "ended" /\ link' \in {"fin", "reset"}
    /\ UNCHANGED <<pc, receiver, flags, written, down, systemId, received, consumed, newline,
                   history>>

ConnectionBreaks ==
    /\ link = "up" /\ link' = "reset"
    /\ UNCHANGED <<pc, receiver, flags, written, down, server, newline, history>>

-----------------------------------------------------------------------------

StartSendingImages == Check \/ Rest \/ Send \/ WriteFails \/ NoImage
ReceiveCommands    == ReceiveLine \/ ReceiveNull \/ ReceiveFails

ReadClientMachine ==
    \/ \E n \in 1..EndOf(MaxImages) : Handshake(n)
    \/ HandshakeThrows \/ ReadLength \/ ReadBody \/ ReadGarbage \/ ReadFails

Next ==
    \/ Connect \/ NoFolder \/ Identify \/ StartSendingImages \/ ReceiveCommands
    \/ ReadClientMachine
    \/ \E c \in {"PAUSE", "RESUME"} : Command(c)
    \/ ServerCloses \/ ConnectionBreaks

Spec == Init /\ [][Next]_vars

\* Delays end, pending reads complete, and the server's thread comes round.
Fairness ==
    /\ WF_vars(NoFolder \/ Identify)
    /\ WF_vars(StartSendingImages) /\ WF_vars(ReceiveCommands)
    /\ WF_vars(ReadClientMachine)

FairSpec == Spec /\ Fairness

-----------------------------------------------------------------------------
(* The first image follows the identity by seconds, and the identity comes *)
(* in one piece: then the handshake ends at an image.                       *)
Regular == ~late /\ ~newline

\* Whatever the handshake swallowed and however garbage was cut, the images
\* handed on are images that were written, in their order, none twice.
InOrder ==
    \A i, j \in DOMAIN received : i < j => received[i] < received[j]

\* A regular session never loses its place: it has handed on every image it
\* has read to its end, unless its pixels were odd.
NoneSkipped ==
    Regular =>
        /\ session # "lost"
        /\ \A k \in Images \ OddImages :
              EndOf(k) <= consumed => \E i \in DOMAIN received : received[i] = k

\* A regular session whose client has identified itself under its own name
\* never ends the server: only a client that leaves before does.
CrashedByLeavers ==
    session = "crashed" /\ Regular => systemId = "none"

\* While both ends are up, a client that has read all commands does what the
\* last one says; a failed sender takes itself to be paused.
PausedAsTold ==
    link = "up" /\ sbKeepConnection /\ cmds = <<>> => (paused <=> told = "PAUSE")

\* Once paused, a client writes at most the image it is waiting to scan: it
\* "sleeps 1 second and rechecks".
PauseStops == sincePause <= 1

\* Until it goes astray, the client is the one that ImageServer reckons with.
\* Images whose pixels are odd never reach the server, so they are left out.
Stage ==
    CASE ~Regular -> "stray"
      [] Regular /\ session = "none" -> "unused"
      [] Regular /\ session = "handshake" ->
            IF written > 0 /\ link # "reset" THEN "identified" ELSE "dialed"
      [] Regular /\ session \in Reading -> "open"
      [] Regular /\ session = "ended" -> "over"
      [] Regular /\ session = "crashed" -> "crashed"

Live == Stage \in {"dialed", "identified", "open"}

PeerUp == Live /\ link = "up" /\ pc # "exited"

Sent   == {k \in Images \ OddImages : Live /\ EndOf(k) <= written}
Unread == {k \in Sent : link # "reset" /\ consumed < EndOf(k)}
Got    == {received[n] : n \in {m \in DOMAIN received : Regular}}

Peer == INSTANCE ClientPeer WITH
    Image <- Images \ OddImages,
    stage <- Stage, up <- PeerUp, sent <- Sent, wire <- Unread, got <- Got

ImplementsPeer == Peer!Spec

\* A client whose connection is lost comes to its end, paused or not, though
\* its receiver does not take the end of the stream for a loss.
LossEndsClient == (link \in {"fin", "reset"}) ~> (pc = "exited")

\* The client programs do not keep the server in their handshake: they
\* identify themselves or end, and both are noticed.
HandshakeEnds == (session = "handshake") ~> (session # "handshake")

\* The server notices that a client has ended.
EndNoticed == (pc = "exited") ~> (session \in {"none", "ended", "crashed"})
==============================================================================
