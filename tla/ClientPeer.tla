------------------------------ MODULE ClientPeer ------------------------------
(***************************************************************************)
(* What ImageServer takes a client machine to be, from its connection to   *)
(* the end of its session: it identifies itself or is gone early, which is *)
(* the one way in which it ends the server, and sends images at increasing *)
(* scan times until it or its connection is lost, with what was not read   *)
(* or without. A client is stray when its identity does not end where its  *)
(* first image begins: ImageServer takes none to be, see Regular of        *)
(* ClientSession.                                                          *)
(***************************************************************************)
EXTENDS Naturals

CONSTANT Image     \* scan times

VARIABLES
    stage,         \* of the session: see Init and Next
    up,            \* the program runs, and its connection is not broken
    sent, wire,    \* images sent, and of them those the server has not read
    got            \* images the server has read

clientVars == <<stage, up, sent, wire, got>>

Init == stage \in {"unused", "stray"} /\ up = FALSE /\ sent = {} /\ wire = {} /\ got = {}

Dial ==
    /\ stage = "unused" /\ stage' = "dialed" /\ up' = TRUE
    /\ UNCHANGED <<sent, wire, got>>

Identify ==
    /\ stage = "dialed" /\ up /\ stage' = "identified"
    /\ UNCHANGED <<up, sent, wire, got>>

LeaveEarly ==
    /\ stage \in {"dialed", "identified"} /\ stage' = "dialed" /\ up' = FALSE
    /\ UNCHANGED <<sent, wire, got>>

\* The server waits for an identity that does not come.
EndServer ==
    /\ stage = "dialed" /\ ~up /\ stage' = "crashed"
    /\ UNCHANGED <<up, sent, wire, got>>

\* The handshake takes a part of the first image.
Stray ==
    /\ stage = "identified" /\ stage' = "stray" /\ up' = FALSE
    /\ UNCHANGED <<sent, wire, got>>

Open == stage = "identified" /\ stage' = "open" /\ UNCHANGED <<up, sent, wire, got>>

Send(i) ==
    /\ stage = "open" /\ up /\ \A j \in sent : j < i
    /\ sent' = sent \cup {i} /\ wire' = wire \cup {i}
    /\ UNCHANGED <<stage, up, got>>

\* The server reads the images in the order in which they were sent.
Read(i) ==
    /\ stage = "open" /\ i \in wire /\ \A j \in wire : i <= j
    /\ wire' = wire \ {i} /\ got' = got \cup {i}
    /\ UNCHANGED <<stage, up, sent>>

\* A reset, which may follow the end of the program, takes what was not read.
Lose ==
    /\ stage \in {"identified", "open"} /\ up' = FALSE /\ wire' \in {wire, {}}
    /\ UNCHANGED <<stage, sent, got>>

\* The session ends: by the end of its stream, or by the server.
Close ==
    /\ stage \in {"dialed", "identified", "open"} /\ stage' = "over"
    /\ up' = FALSE /\ sent' = {} /\ wire' = {} /\ got' = got

Next ==
    \/ Dial \/ Identify \/ LeaveEarly \/ EndServer \/ Stray \/ Open \/ Lose \/ Close
    \/ \E i \in Image : Send(i) \/ Read(i)

Spec == Init /\ [][Next]_clientVars
===============================================================================
