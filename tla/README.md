# FairWorkDistribution in TLA+

The repository is a "distributed system to send files from multiple clients to
multiple viewers" (`src/README.md`): client machines scan images and push them
to one image server, which hands each image to the operator station that has
been idle longest, stops the clients when all operators are busy and starts
them again when one is free, and writes a row per image to a database. This
directory holds TLA+ models of it, the TLC configurations that check them on
small instances, and theorems proved with TLAPS for every size.

## 1. The system

| component | code | state | operations |
|---|---|---|---|
| image server | `02-ServerAsio/.../NAR.cpp` 509-871, `ImageServer.hpp`, `ImageObject.hpp` | `clients_`, `operators_`, `operatorIdleMap_` (state, `tpAvailableTime`), `imageQueue_` (min-heap by scan time), `bClientsPaused` | `accept`, `registerClient/Operator`, `unregisterClient/Operator`, `handleImage`, `assignImages`, `allOperatorsStillBusy`, `sendImageToOperator`, `pauseClients`, `resumeClients` |
| session | `NAR.cpp` 98-440, `Session.hpp` | socket, `systemId_`, `serverRef_`, `imageHandler_`, the read in progress | `handshake`, `readClientMachine`, `readOperator`, `write`, `destroy` |
| startup and end | `NAR.cpp` 887-920 | the `io_context`, the `ImageServer` | `main` |
| wire protocol | `BinaryProtocol.hpp`, `SerializeImageObject`, `DeserializeImage`, `SerializeDecision` | bytes in transit | serialise, deserialise, length prefixes |
| database insertion | `DatabaseOperation.cpp/.hpp` | `hEnv_`, `hDbc_`, `iImageCnt`, shared by detached threads | constructor, `connect`, `disconnect`, `insertImage`, `getImageRowCount` |
| client machine | `ClientMachine.cs` | `paused`, `sbKeepConnection`, the stream | `StartSendingImages`, `ReceiveCommands` |
| operator station | `Operators.cs` | the stream, the console's keys, pending key readers | the main loop, `ReadBinaryMessageAsync`, `GetDecisionAsync` |

Interaction. Client machine to server: the identity line, then images. Server
to client machine: `PAUSE` and `RESUME` lines. Server to operator: images.
Operator to server: the identity line, then one decision per image. The server
is one thread in `io_context.run()`: completion handlers run one after the
other and call into each other directly (`Session` calls `ImageServer` through
`serverRef_`, `ImageServer` calls `handleImage` through `imageHandler_`). The
only other threads are the detached ones that run `insertImage()`; they end with
the process, when `main()` does.

What is hard in it:

* **Order of events.** Images, decisions, new connections and lost ones arrive
  in any order; the registries, the queue and `bClientsPaused` must agree after
  each handler.
* **The loop of `assignImages()`**, whose exits depend on the registries, and its
  catch block, which repairs the queue and the registry after a failed send.
* **Failure.** A connection may break between any two handlers, before its
  identity line, or with a read pending while another handler destroys the
  session; a write may fail or seem to succeed; a thread may not start.
* **Reconnects**: registries are keyed by id, handlers belong to sessions.
* **Time**: idle times are differences of readings of a clock that can be set.
* **Flow control**: one flag stands for what was told to many clients.
* **Shared handles** in the insertion threads, partial reads, and the leftover
  key readers of the operator station.

What makes each component correct: an image that was received is queued or was
sent, once, and in scan order; an operator has one image at a time; a pause
holds only while all operators are busy and ends; the registries agree with
each other and with the open sessions; no handler ends the process or loops
for ever; the operator waiting longest is served first; every sent image is
inserted once; a client told to pause does not send; a decision belongs to the
image it was made for.

`PROJECT.json` lists the components with their status and the hazards with
their lines and the properties that cover them.

## 2. Modules

| module | what it models | proofs | section |
|---|---|---|---|
| `ImageServer` | server, sessions, environment | `ImageServerProofs`, `ImageServerSessionProofs` | 3 |
| `FairShare` | `ImageServer` with a history of who was passed over | `FairShareProofs` | 4 |
| `ImageCustody` | `ImageServer` with histories of what operators were given and decided | `ImageCustodyProofs` | 4 |
| `ImageDispatch`, `ImageServerDispatch` | abstract server: images wait, operators are free; the refinement mapping | `ImageServerRefinementProofs` | 5 |
| `ClientPeer`, `OperatorPeer`, `ImageServerPeers` | the contracts between the server and the programs at the other ends; what a session shows of them | `ImageServerRefinementProofs`, `ClientSessionProofs`, `OperatorStationProofs` | 9 |
| `DatabaseInsert` | set-up, insertion threads over two shared handles and a counter, destructor | `DatabaseInsertProofs` | 6 |
| `ClientSession` | a client machine's two tasks, the stream of its images, the session's handshake and reads | `ClientSessionProofs` | 7 |
| `ScanTime`, `OperatorStation` | the scan time through all its conversions; an operator station, its key tasks, what it is sent | `OperatorStationProofs` | 8 |

`ImageServer` has programs at the other ends of its connections that it knows
little of (`ClientSends`, `OperatorDecides`, `OperatorChokes`, `LeavesEarly`,
`PeerDies`). `ClientSession` and `OperatorStation` are those programs, each with
the part of the server it meets. What the one side assumes and the other side
does is a contract, `ClientPeer` and `OperatorPeer`, and both sides are proved to
keep to it (section 9). The modules named `MC...` give TLC its symmetries and
say what an instance stands for; the constants are in the `.cfg` files. No module
has a RECURSIVE operator.

## 3. `ImageServer`

A completion handler is one action, because one thread runs them. Two things
are spelled out: the loop of `assignImages()`, one action per way through an
iteration (`pc = "assign"`), and the handshake, which blocks the thread
(`pc = "handshake"`) while peers go on. The variables keep the names of the
members; `operatorIdleMap_` is the pair `opState`, `tpAvailableTime`, and a
session's `serverRef_`/pending read show in `phase`:

`unused` -> `dialed` -> `identified` -> `open` -> `done`, or `destroyed` when another
session's handler destroyed it with its read pending.

| code | actions |
|---|---|
| `accept`, `handshake`, `register*` | `Accept`, `HandshakeAborts`, `RegisterClient`, `RegisterOperator` |
| `readClientMachine`, `handleImage` | `ReadImage`, then the loop; `ClientReadFails` |
| `readOperator` | `ReadDecision`, then the loop and `AssignReturns`; `OperatorReadFails` |
| read aborted by `destroy()` | `AbortedRead` |
| `assignImages` | `AssignDone`, `AssignNobody`, `AssignAllBusy`, `AssignSpins`, `AssignSends`, `AssignSendFails`, `AssignSpawnFails`, `AssignNoSession` |
| peers (C# programs, TCP, clock) | `Dial`, `Identify`, `ClientSends`, `OperatorDecides`, `OperatorChokes`, `LeavesEarly`, `PeerDies`, `ClockSet` |

What the environment may do is the constant `Faults`, so a property that holds
only without some fault says which (`Absent({...})`), and every run states its
faults. Abstractions: an image is its scan time (distinct per image); bytes are
left out; a send to a socket whose peer is gone may fail or succeed, as TCP
does; a write of a command to a broken client is caught and logged
(`Session::write`), so it has no effect. After a break the server either still
reads what the peer had sent (FIN) or not (reset), and a reset may follow a FIN
when the server writes to a program that has ended. A connection that is reset
before the handshake has read the identity fails there, whether the identity had
been sent or not (`LeavesEarly`). Both of these came out of proving the contracts
of section 9: an earlier `PeerDies` let neither happen, and `ClientSession` took
steps that the server had not reckoned with. `answers` are the images decided
and not yet read; the code sends only a byte for each, but the operator decides
in order, so the server's next decision is for the first of them.

### Runs that pass

| run | instance | faults | shows |
|---|---|---|---|
| `losses` | 4 sessions, 2 clients, 2 operators, 2 images | client and operator loss | (of `ImageCustody`) `TypeOK`, `PausedMeansBusy`, `OneImagePerOperator`, `MapsAgree`, `NeverCrashes`, `HandledOnce`, `AtMostOneUndecided`, and `IInv`, the invariant of the proofs |
| `everything` | 3 sessions, 2 clients, 1 operator, 2 images | all | `PausedFlagSound`, `AtMostOnce`, `SpinsOnlyDeserted`, `InScanOrder`, `ImplementsDispatch`, `PeersAsAssumed`: what holds whatever fails |
| `fair` | 4 sessions, 1 client, 2 operators, 3 images | overlapping connections of an id | `NoOvertaking`, `NoLoss`: what holds while no connection is lost |
| `liveness` | 3 sessions, 1 client, 1 operator, 2 images | client and operator loss | `BusyEnds`, `LossNoticed`: what must happen in the end, unless the loop spins; `PausedIsResumed`; `SoleClientFlagged`, why a pause ends |

A session is one connection, so four sessions give two operators and two
clients, or three and a reconnect. Two images and two operators make a queue
behind busy operators; three images let one operator be served, decide and be
served again beside one that waits. Every hazard met so far needs at most three
sessions, as the counterexamples below show. Sessions, clients and operators are
symmetric, as nothing compares them; the liveness runs use no symmetry. Deadlock
is not checked: sessions and images run out, and the server may crash.

A property that needs a fault to be absent says so by `Absent({...})`; the runs
`losses` and `fair` leave those faults out so that the properties are not
vacuous, and `everything` shows what needs no such condition.

### Fairness

`Fairness` assumes: a started handler goes on (one thread, no waiting inside,
the blocking handshake excepted); a ready completion is dispatched in its turn
(`SF`, because handlers of other sessions disable it for a while); a program that
connected sends its identity line; an operator answers, as `GetDecisionAsync`
has a timeout `t1`. Nothing is assumed of clients, losses or the clock.

`BusyEnds` and `LossNoticed` say what comes about unless the loop of
`assignImages()` comes to spin (`~LoopEnds`). That does happen in `liveness`: the
client is lost with two images queued, then an operator registers, is given the
first, and the loop goes round over the second for ever; its decision is never
read, the operator stays `BUSY`, and nobody's loss is noticed any more.
`SpinsOnlyDeserted` bounds this: it takes that every client machine that was ever
registered has lost a connection. A server with a client that stayed is not excused.

`PausedIsResumed` holds in `liveness` for a system with one client machine, and
fails with two (`twopaused`). The safety side of it is `SoleClientFlagged`: with
one client machine `bClientsPaused` is set whenever the client was told to pause
last, so that the next decision or registration of an operator resumes it.

### What the code does not do (runs that expect a violation)

| run | property | the code |
|---|---|---|
| `failedsend` | `NoImageDropped` | the catch block of `assignImages()` sees an outer `img` that the loop's `img` shadows: the image of a failed send is dropped, and an empty image may be queued, which ends the next operator program |
| `twopaused` | `PausedIsResumed` | `registerClient()` clears the flag of everybody's pause |
| `concurrentinserts` | `SavesImages` | insertion threads share `hEnv_` and `hDbc_` (section 6) |
| `pausesends` | `PauseStops` | a paused client rests a second and sends all the same (section 7) |
| `straykey` | `KeyReachesImage` | a timed-out image keeps its key task, which takes the key of the next (section 8) |

Each has a finding in `PROJECT.json` with the line of the repository it
contradicts. Other behaviours are conditions of the properties that hold, and
TLC refutes these properties when the condition is dropped:

* `early_close`, of `NeverCrashes`: `read_until()` throws outside the `try` of the
  handshake when a peer closes before its identity line;
* `overlap`, of `NeverCrashes`, `MapsAgree` and `OneImagePerOperator`: handlers
  unregister by id, not by session, so that the failed read of an old connection
  destroys the new session of its id, and the old handler then uses a null
  `serverRef_`;
* `clock_back`, of `PausedMeansBusy` and `NoOvertaking`: idle times are read off a
  clock that can be set back.

No property says that a queued image is served as soon as an operator is free:
a decision assigns the queue only while `bClientsPaused` is set, and after
`registerClient()` has cleared it images may wait beside an idle operator until
the next one arrives.

### Proofs

All theorems hold for any sets of ids, sessions, images and faults that satisfy
`ConstantsOK` (ids of clients and operators disjoint, `Null` apart, scan times
positive). Client and operator ids of one name are therefore two ids; the code
keeps them in different maps, so nothing is lost by it.

* `ImageServerProofs`: `TypeCorrect`; `PausedFlagCorrect`, by itself inductive
  over the type invariant; `ImagesInOnePlaceCorrect` (an image is on the wire of
  its session, or received, and then not both queued and delivered), of which
  `AtMostOnce` is a consequence (`DeliveredOnce`). `SentInScanOrder` proves
  `InScanOrder` from it and from `ReadInScanOrder`: what a session has on the wire is
  later than all that was received from it.
* `ImageServerSessionProofs`, the argument that no handler crashes:
  `SessionsHaveIdsCorrect` (a registered session carries the id it is registered
  under), then `MapsCorrect` (without reconnects the maps hold exactly the open
  sessions and agree with each other: neither half is inductive alone, because
  unregistering destroys whatever the map holds), `DialedPeersCorrect`, and
  from these `CrashFree`. `OnlyOperatorsOweCorrect` and `MapsCorrect` give
  `OneImageEach`: a session that registers has no image and no answer on the way,
  and a decision frees the operator of that very session (`AtMostOneImageCorrect`);
  while its program runs, an operator marked `BUSY` has been sent the image, because
  a write fails only if the program is gone (`BusyOwesImageCorrect`). `IInv` is the
  conjunction of these parts, checked by TLC in `losses` and proved as a whole
  (`Inductive`).
* `NoneAvailable` proves `PausedMeansBusy`. That no operator is `AVAILABLE` is
  claimed between handlers only; `BusyWhilePaused` says what is left of it inside
  one: while images are assigned with the clients paused, only the operator that
  has just registered can be `AVAILABLE`, and then an image is queued for it.
* `SoleClientCorrect` proves `SoleClientFlagged`, which `NothingToldBefore` makes
  inductive: a client that registers was told nothing yet, so clearing the flag for
  it is right while there is no other.
* `SpinsOnlyDesertedCorrect` proves `SpinsOnlyDeserted`: without a registered client
  the loop of `assignImages()` has no exit while images are queued and all operators
  are busy. A queued image came from a client that was registered
  (`QueueFromClients`), and such a client is in `clients_`, so that the loop can pause
  it and leave, until a connection of its id is lost (`RegisteredOrLost`).

## 4. `FairShare` and `ImageCustody`

`SpecF` is `ImageServer` with a history variable: `passed[p][o]` counts the images
given to `o` while `p` waits, that is, stays `AVAILABLE` with the idle time it has.
It restricts no step. `NoOvertaking`: at most one, unless the clock is set back.

`FairShareProofs` proves it (`Fair`). The counts alone are not inductive;
`OvertakersBehind` adds why they stay low: an operator that passed `p` got a later
`tpAvailableTime` than `p` has, so the scan prefers `p` from then on, and no idle time
lies in the future. `EntryStep` says what a step can do to an entry of
`operatorIdleMap_`: nothing, stamp it with a new reading of the clock, serve the most
idle one, or remove it.

`SpecC` is `ImageServer` with two histories per session: the images its operator
was assigned, written to it or not, and those whose decision was read from it. The
server keeps neither, and an image whose decision does not come is gone for it.
`HandledOnce`: whatever fails, an image that was received is queued or was
assigned, and one that got as far as an operator is on one desk, or one answer is
on its way, or it was decided, by that operator and once, and it is not queued
again. What becomes of an image whose send fails is left open: the comment in the
catch block has it queued again, the code drops it (`failedsend`), and
`HandledOnce` holds either way.
`AtMostOneUndecided`: unless an id connects twice, the decisions read from an
operator are for the images it was assigned, in order, all of them while it is
`AVAILABLE`, and otherwise all but the last; this bounds what a loss costs.

`ImageCustodyProofs` proves both (`HandledOnceCorrect`, `AtMostOneUndecidedCorrect`).
`HandledOnce` is inductive over `ImagesInOnePlace`: a decision, and its reading, move
an image within what its operator handles, a loss takes away the end of that, and
only the image just written is added (`HandledStep`), which was queued and so at no
operator yet.
`CustodyInv` is why the second is inductive: an image that was assigned and not
judged is on the desk, or its answer is on the way, or both are lost
(`LastOnItsWay`), and a session that registers has no history. The invariants of
`ImageServer` carry over, as the histories restrict no step
(`CustodyImplementsServer`).

## 5. `ImageDispatch` and `ImageServerDispatch`

`ImageDispatch` is what the server promises without its sessions and its flow
control: images arrive, wait, and leave earliest first, each to an operator that
is free. `ImageServerDispatch` maps `imageQueue_` (without the empty image) to
`waiting`, the `AVAILABLE` entries to `free`, and lets assignments fail exactly when
`operator_loss` or `spawn` may happen. TLC checks `ImplementsDispatch` in `everything`.

In `ImageServerRefinementProofs`: `NoFailureUnlessLossyCorrect` (without those faults
no empty image exists and the peers of operators are up, so no send fails),
`Implements` (the step simulation, from `TypeOK` and `ImagesInOnePlace`),
`NoneLost` (`NoLoss` for every instance), and `ServerConserves`: images are conserved
in the server, because they are in the dispatcher (the lemma `ConservedCorrect`,
which says nothing of the code by itself) and the server implements it.

## 6. `DatabaseInsert`

The main thread runs the constructor's set-up, serves, and may end by an
exception (the port is taken, or a handler throws); the destructor then runs
`disconnect()`. Every image that is sent starts a detached thread, and all threads
run `insertImage()` on one object. A step is one access to `hEnv_`, `hDbc_` or
`iImageCnt`; what a thread does with the driver manager alone is joined to it. The
driver manager is external: it refuses calls on handles that are gone, on a
connection that is connected already, and frees neither an environment with
connections nor a connection in use. `DbFails` lets the database refuse a
connection, a statement of the set-up, or a row. The set-up looks at its connection
only: a refused `CREATE DATABASE`, `USE` or `CREATE TABLE` goes unnoticed, and all
insertions fail later. Reads and writes of the shared members race; each is taken
to be atomic, as it is on the target (aligned pointers and `int` on x86-64).

* `insertions` (2 threads, refusals): `MembersClearAtRest`, `CleanAlone`,
  `NumbersBounded`. Two threads and the destructor already meet at every pair of
  steps; the theorems hold for any number.
* `concurrentinserts` (2 threads, nothing refused): `SavesImages` fails.
* `DatabaseInsertProofs`: `MembersCorrect` (inductive: a member that is not null has
  a user still to come to its reset), `CleanAloneCorrect` (inductive: the place
  of the one insertion that runs tells which handles are live, `LiveAt`, a
  destructor that runs alone finds none, numbers differ, `Numbered`, and nothing is
  served before the set-up has made database and table or was refused one,
  `SetUpFirst`), `NumbersCorrect` (the counter is at most the number of threads past
  the increment).

## 7. `ClientSession`

One connection between a client machine and the server, at the level of the
stream. Both ends only count what they write and read, so the stream is two
counters of cells: role, length, id and newline of the identity, then three
cells per image, its length prefix and two of payload.

| code | actions |
|---|---|
| `Main` of the client | `Connect`, `NoFolder`, `Identify`, and the exit in `Check` |
| `StartSendingImages` | `Check`, `Rest`, `Send`, `WriteFails`, `NoImage` |
| `ReceiveCommands` | `ReceiveLine`, `ReceiveNull`, `ReceiveFails` |
| `Session::handshake` | `Handshake`, `HandshakeThrows` |
| `Session::readClientMachine` | `ReadLength`, `ReadBody`, `ReadGarbage`, `ReadFails` |
| the rest of the server, the network | `Command`, `ServerCloses`, `ConnectionBreaks` |

The hazards are those of the handshake: `read_until()` may read past the newline,
or stop at a byte 10 of the length prefix of the id (`newline`), and what its
buffer holds is gone; the session then reads at a wrong offset (`lost`). `Regular`
names the sessions to which that cannot happen. `InOrder` holds of all of them,
`NoneSkipped` and `CrashedByLeavers` of regular ones. `PausedAsTold` relates the
flag to the commands, which two tasks write.

* `client` (3 images, one of them odd, 2 commands on their way, 5 cells of
  over-reading): the above, `ImplementsPeer` (section 9) and three liveness
  properties. Three images and five
  cells let the handshake swallow an image and a part of the next; two commands
  let one overtake the other's effect. Fairness: delays end, pending reads
  complete, and the server's thread gets to this session. `LossEndsClient` needs
  the sender, as the receiver loops at the end of the stream; `HandshakeEnds`
  holds because the client programs identify themselves or end.
* `pausesends`: `PauseStops`, which the comment in the sender promises, fails.
* `ClientSessionProofs`: `ClientTypeCorrect` (with `Placed`: the stream consists of
  whole frames), `ClientInOrder` (`HandedOn`: what was handed on lies before the
  place of the reader), `ClientNoneSkipped` (`Kept`: a regular reader stands at a
  prefix or behind one), `ClientCrashedByLeavers` (`Nameless`),
  `ClientPausedAsTold` (`Follows`: the flag follows the last command read, the queue
  ends with the last one written), `ClientImplementsPeer`. They hold for all bounds.

Left out: half-open connections, on which nothing is ever noticed, programs other
than the repository's, and garbage that happens to deserialise.

## 8. `ScanTime`, `OperatorStation`

`ScanTime` is arithmetic. `DateTime.ToBinary()` gives ticks with a flag in bit 62,
the server reads them as milliseconds, `time_point` multiplies by 10,000, and the
product wraps; the wrapped value is the key of the queue, and goes to the operator
as milliseconds again. The definitions take the width of the integers and the
units as constants, and `ScanTimeAssumption` says what of the real ones is used.

`OperatorStation` is the program of the operator: the main loop (`Show`, `ShowFails`,
`ShowBreaks`, `ReadFails`, `KeyDecides`, `TimesOut`, `Answer`), the key task of each
image (`SeesKey`, `TakesKey`, which are `KeyAvailable` and `ReadKey()`), the keyboard,
and of the server the queue and one image at a time.

* `station` (3 images, 2 keys, integers of 7 bits): images of one era, one whose
  key is no date, one just before the epoch, one behind it. `EndsForCause` (the
  station ends by a fault, an empty image, or one of the first half of an era),
  `InEraOrder` (the queue keeps the scan order between two wraps; across a wrap it
  does not), `AcceptedByKey`, `MisledByTimeouts` (what racing key tasks can and
  cannot do), `ImplementsPeer`, and `Answered`, under fairness of the main loop
  alone: the delay of `t1` needs no key. Three images let a key task be two images
  late; two keys let tasks compete for one and decide by the other.
* `straykey`: `KeyReachesImage`, which the prompt promises, fails.
* `OperatorStationProofs`: lemmas on the arithmetic (`WrapRange`, `KeyInEra`,
  `KeyMonotone`, `DateUnlessEarly`: for any width and units), from which
  `StationInEraOrder` and `StationEndsForCause` follow; `StationImplementsPeer`, a
  step simulation; `StationAcceptedByKey` and `StationMisledByTimeouts`, which count
  key presses: every press is unread, was read for nothing, or has decided one
  task, and a task left behind by a time-out can take one key only. They need that
  an image is sent once (`StationSendsOnce`).

## 9. The contracts: `ClientPeer`, `OperatorPeer`, `ImageServerPeers`

The server, the client machine and the operator station are modelled apart, each
with as much of its neighbours as it can see. That the pieces fit is stated by
two contracts, small specifications of one connection:

* `ClientPeer`: a client machine dials, identifies itself or is gone early, which
  is the one way in which it ends the server, then sends images at increasing scan
  times, of which the server reads the earliest first, until it or its connection
  is lost with what was not read, or without. It may go `stray`: the handshake took a
  part of the first image.
* `OperatorPeer`: an operator has a desk, decides the images on it in order, one
  answer each, and its program ends by an image it cannot read or by a fault.

| claim | property | theorem |
|---|---|---|
| the client program and its stream keep to the contract | `ImplementsPeer` of `ClientSession` (run `client`) | `ClientImplementsPeer` |
| the operator program keeps to the contract | `ImplementsPeer` of `OperatorStation` (run `station`) | `StationImplementsPeer` |
| every session of `ImageServer` is one side of the contracts | `PeersAsAssumed` (run `everything`) | `PeersAsAssumedCorrect` |

`ImplementsPeer` says that a program does nothing beyond its contract, and
`PeersAsAssumed` that neither the peers in the model of the server nor the server's
own reads and writes do. That this model leaves out nothing of what the contracts
allow would be a theorem about ENABLED, which the prover does not have; it is read off
action by action (`Dial`, `Identify`, `LeaveEarly`, `Send`, `Lose` are `Dial`,
`Identify`, `LeavesEarly`, `ClientSends`, `PeerDies`; `Decide`, `Choke`, `Die` are
`OperatorDecides`, `OperatorChokes`, `PeerDies`). Their guards differ in what `Faults`
excludes and in three points: scan times of different clients differ; `ImageServer`
has no stray client, it takes identity and first image to be seconds apart
(`Regular` of `ClientSession`; `NoneSkipped` says what that costs); and its only
unreadable image is the empty one, while `OperatorStation` also ends on images of
the first half of an era, so that the model of the server is the system up to the
wrap of June 2026 (`ScanTime`).

The proofs are step simulations. `ClientImplementsPeer` reads off the mapping what
a session shows in each phase (`Mapped`), and needs `Shaking` (a handshake that is not
over has read less than an identity), `Kept` and `NoneSkipped`, as the contract has
the images read in order without a gap. `PeersAsAssumedCorrect` is about all sessions at
once: a step of the server acts on one of them, or on those that an operator's
name leads to, and shows as a stutter at the others. It needs that the thread's
session is one in its handshake (`CurInHandshake`), that images come from sessions
that have had theirs (`SendersEstablished`), and the invariants of section 3.

## 10. Limits

Every safety and action property of the passing runs is proved, and so are the
refinements. Only model-checked are the liveness properties (`BusyEnds`,
`LossNoticed`, `PausedIsResumed`, `LossEndsClient`, `HandshakeEnds`, `EndNoticed`,
`Answered`), which are out of the prover's reach, and the runs that expect a
violation. That the keys wrap on 2026-06-25 at 07:10:15 UTC, with the numbers of the
code, is arithmetic done outside the provers, which do not evaluate numerals of
that size; the theorems of section 8 hold for those numbers as for any others.

`socket_.close()` in `Session::destroy()` is taken to succeed; if it throws,
`unregisterClient()` or `unregisterOperator()` catches and leaves the session in its
map, with no read pending. That `lock()` throws on a mutex the thread holds, in the
catch block of `assignImages()`, is what the runtime of the project's compiler does.

Not modelled: `NAR_WO_Json.cpp` is in no project file. Pixel files, PNG output, text
formatting, the UUID text and `parse_iso8601_to_time_point` (unused) carry no
state, and ids and pixels are copied byte by byte. `getImageRowCount()` and the
query helpers of the database are called by nothing. The modules meet by the
contracts; there is no composition of all of them in one state space, which would
be out of TLC's reach.

## 11. Running

`tlc -config <run's cfg> <run's module>` for the runs of `PROJECT.json`, `tlapm
<module>.tla` for the modules named `*Proofs`. Operators preceded by a comment that begins with
"Mutant" are plausible bugs: replacing the definition after them by the mutant
makes the property `PROJECT.json` names fail in the run it names.
