# Tarakan Runs: a TLA+ model

Tarakan Runs is a cockroach race manager: a *management* process keeps the timetable of
races and the names of the registered teams, and *team* processes register themselves and
their tarakans with it over TCP. This directory models the two programs of
`src/src/trk/multi_call_main.cpp` with the code they run: the timetable, the handlers of the
management, its server and socket group, the client of a team with its two threads, and the
calls of a team. The parts that stand by themselves have modules of their own: the escaping of
names, a race, the JSON documents, and a `Server` that is stopped and started again. TLC checks
small instances; TLAPS proves, for every instance, all the invariants TLC checks, the action
properties, and the steps of both refinements (see [What is proved](#what-is-proved) for the hypotheses).

## The system

| Part | Source | State | Operations |
| --- | --- | --- | --- |
| Timetable | `src/src/trk/Timetable.*` | vector of entries: track, timestamp, map of tarakans | `isFree`, `addTarakan`, `addTarakanInfo`, `serialize`, `deserialize` |
| Management | `src/src/trk/Management.*` | timetable, names of teams | `start`, `messageHandler` and its four handlers |
| Server | `src/src/network/Server.*` | `running`, `is_listening`, socket group, listener thread | `start`, `stop`, destructor, `OnAccept`, `OnRead`, `OnDisconnect` |
| SocketGroup, Socket | `src/lib/netlink/src/socket_group.cc`, `socket.cc` | vector of sockets, descriptors | `listen`, `add`, `remove`; `accept`, `read`, `send`, `disconnect` |
| Client | `src/src/network/Client.*` | `connected`, `is_listening`, mutex, inbox, group, listener thread | `connect`, `sendMessage`, `clearInbox`, `disconnect` |
| Team | `src/src/trk/Team.*` | name, tarakans, a client | `registerTeam`, `deregisterTeam`, `registerTarakan`, `requestTimetable` |
| programs | `src/src/trk/multi_call_main.cpp` | | `management_main`, `team_main` |
| Race, RaceResult, Strategy, Tarakan, Stadium | `src/src/trk/` | racers, ways, positions, tracks | `setDuration`, `addTarakanInfo`, `start`; no program calls them |
| stringutils, logging, MultiCallHandler | `src/src/util/` | | escaping of names, output, choice of the program |

How the parts interact. Every call of a team is one connection: `connect`, one request, a
polling loop over the inbox, `clearInbox`, `disconnect`. In the team process the main thread
makes the calls and a listener thread, replaced in the middle of each call, fills the inbox;
the two share the fields of `Client` without a lock that both take. In the management process
one listener thread selects the readable sockets, walks the vector of sockets by index and runs
a callback for each: it accepts, removes a connection that was closed, or reads a message, runs
its handler and sends the answer. The main thread of the management only sleeps.

What is hard here:

- the requests of several teams interleave, and a team may be killed and run again while its old
  connections still hold requests that were not read;
- the walk by index goes over a vector that its own callbacks append to and erase from;
- `stop()` erases from the vector another thread is walking, and only then stops that thread;
- an exception of any callback silently ends the listener for every team;
- the messages are cut by fixed buffers whose limits differ between sender and reader;
- two threads of a client close, remove, select, stop and restart with flags that are not atomic;
- nothing has a timeout: the polling loops end only if every request is answered.

`PROJECT.json` lists each hazard at its line with the properties that would show it going wrong.

What makes each part correct:

- **timetable**: one entry for a slot, never more tarakans in a slot than five, a tarakan that was
  acknowledged stays, a serialized timetable reads back as itself;
- **management and server**: seen by its clients, one atomic object; each request is performed once
  and answered on its own connection; no connection is lost or served twice; a closed connection
  is let go; teams that are registered stay so until they leave;
- **server that is stopped**: no thread of it is left, nothing deleted is used, and `stop()` comes back;
  until then no descriptor leaks;
- **documents**: what was saved loads again;
- **team**: what it was told is true, the timetable it gets holds what it was promised, each polling
  loop ends;
- **escaping**: a name crosses the protocol as one word, two names never become one, and a name that
  lost its end is refused;
- **race**: everybody gets one place, by the way it went, and nothing of an earlier race counts;
- **client**: an answer goes to the call that asked, one listener at a time, the mutex is free
  between the calls, every call ends; seen by `Team`, an exchange of one request and one answer.

## The modules

| Module | What it is |
| --- | --- |
| `Timetable` | the operators of `Timetable.cpp`, on sequences of entries |
| `Network` | the messages of the protocol and the TCP connections, which the kernel keeps |
| `Management` | the listener thread: a pass of `SocketGroup::listen`, the three callbacks, the four handlers |
| `Team` | a team process: a script of calls, each of the same steps; kill and restart |
| `TarakanRuns` | the composition, the properties, the inductive invariant, the refinement mapping |
| `Registry` | abstract: what the management promises, an atomic object with sets for slots |
| `MCTarakanRuns` | the instances TLC checks: scripts of the team processes |
| `Client` | one client in detail: the main thread and the listener threads, access by access |
| `Exchange` | abstract: what a client promises to `Team`, one request and its answer per call |
| `Server` | the life of one `Server`: its owner against its listener thread, access by access |
| `Documents` | `serialize` and `deserialize` of `Team`, `Tarakan`, `Stadium` and `RaceResult` |
| `Escape` | `escape` and `unescape` of `stringutils.cpp`, character by character |
| `Race` | `Race.cpp`: one object that runs several races |
| `Timetable_proofs` | lemmas about the operators of `Timetable`, and the round trip |
| `TarakanRuns_proofs` | the types, the entries and the quota of the slots |
| `Requests_proofs` | connections, requests and answers, what teams are told, the members, the steps of `Registry` |
| `Client_proofs` | the types and the inbox of a client; its threads and the steps of `Exchange` while the server stays |
| `Server_proofs` | a server that is stopped, its sockets and its descriptors |
| `Documents_proofs` | what is saved loads back |
| `Escape_proofs` | what `escape` writes and what `unescape` makes of it, for every name |
| `Race_proofs` | a race and its places |

### Timetable

An entry is a record with the fields of `Timetable::Entry`; its `std::map` is a function from all
names, with `NoKey` for a key that is not there. A vector of strategies is its length, because every
strategy is a `RandomStrategy`. `isFree` and `addTarakan` stop at the first entry of the slot, as
the loops do. `serialize` and `deserialize` go to and from the JSON the code builds: an array
that holds `"RandomStrategy"` once for each strategy.

### Management, Server and SocketGroup (`Management`)

`Select` is the return of `select()` with the readable sockets in `ready`. `OnAccept`,
`OnDisconnect`, `OnRead` and `OnReadThrows` are the callbacks, each run to its end for the first
index that is still due; between two of them the network goes on. A socket that is selected and
erased from under the index moves its successor down to a place the index has left:
`OnDisconnect` takes that successor out of the pass. `OnRead` takes one message, picks the handler
by its prefix, changes the timetable or the names and sends the answer, all in one step, because
the listener is the only thread that touches them. `OnReadThrows` ends the listener while
`running` stays true.

### A server that is stopped (`Server`)

`Management` needs a server that starts once, as `management_main` does. The class can do more, and
`Server` models it: the owner thread calls `start`, `stop` and the destructor in any order, while the
listener is anywhere in a pass. `owner` and `pc` are the places of the two threads. The group is a
`std::vector`: `size` is its end and `cells` its memory, where `erase` moves the later elements
down and leaves the rest as it was, so that a read at an index that was in range a moment ago gives
some socket, perhaps one that has been erased. `isset`, `type`, `nextReadSize` and the callback each read the element
anew, as `socket_group.cc:110-125` does; `stopTest` and `remove` are the two halves of the loop
of `stop()`. `start` succeeds if the port is free and `startThrows` is the failed `bind`, whether
another program has the port or the listening socket that the last `stop()` left open. An `accept()`
that fails puts `Null` into the group, and the next access of it ends the process (`"crashed"`).
Handlers are external: `recv` ends with a handler that returned or threw.

An `erase` and a `push_back` are atomic here, though two threads may call them at once: what they
would do to the memory of each other is undefined. `delete` closes a descriptor and marks the
socket as `deleted`; `NoDeletedUsed` says that nobody uses it from then on.

What comes out: the thread of a server is always joined, or has ended, when `stop()` or the destructor
is over (`StoppedIsQuiet`), though `stop()` itself may throw out of its loop and leave `running` true.
A server that was stopped never listens again, because nothing closes the old listening socket
(`OneLife`): every later `start()` throws. And `stop()` may wait for ever in `join()`, in two ways, which
`StopEnds` excepts: the shift under the walk has sent the listener to read from a client that says
nothing (`Stuck`), or the listener came to the subtraction of `socket_group.cc:94` after `finTime`, so that
its `select()` has a timeout of nearly 2^64 ms, and none of its sockets becomes readable (`Overslept`).

Descriptors leak when a server ends: `stop()` erases from the group sockets nobody closes, and the
destructor deletes the group and not what is in it (`Finish`). `DescriptorsAccounted` and
`OnlyClosedDropped` therefore speak of a server that nobody has stopped, the first also of one that is
not destroyed.

### The network (`Network`)

The kernel is modelled as its callers see it: `backlog` holds the connections nobody accepted,
`toServer` and `toClient` the messages in flight, in order, and `closed` the connections whose
client is gone. A message is one unit, since both sides send with one call and read with one call
and a client has one request outstanding; a request longer than one read is several units
(`Wire`). `Received` is what `unescape(escape(name))` gives: a byte outside ASCII is mangled; two
names never become one.

### Team processes (`Team`)

A process runs its script, for `team_main` the six calls. `connect` completes in the kernel whether
anybody accepts or not. `sendMessage` puts what the reads of the server will make of the call on
the connection: all of it, or (`"stray"`, `"cut"`) a request and bytes that make the server throw,
or nothing when the client refuses the length. `receive` is the end of the polling loop with what
the call makes of the answer; `receiveUnusable` is the exception that ends the process. A timetable of
exactly as many characters as one read takes (`Weight` equal to `ReplyCapacity`) leaves its final NUL to a
read of its own, which pushes an empty message; when the listener does that after `clearInbox`, the message is
still there in the next call (`leftover`), which throws (`receiveEmpty`).
This module takes the client as its inbox. `Client` shows when that is right: with a server that
stays it implements `Exchange`, whose steps are those of a process here.

### One client (`Client`)

The same five steps at the grain of single accesses: the test, the set and the reset of
`is_listening`, the creation of a thread and the assignment of `p_listening_thread`, close and
removal of a socket, the fill of an `fd_set`, `select()`, a launch, a push to the inbox, `join()`.
`pc` gives the place of the main thread (0) and of each listener thread. `depth` counts the
recursive mutex. `OnDisconnect` runs the same `disconnect` in a listener thread, beside that of the main
thread: a thread that has read the size of the group and finds it emptied by the other gets
`OUT_OF_RANGE` from `get(0)` or `remove(0)`, and `disconnect` throws it on without the stop of the listener
(`disconnectThrows`). That ends the team, or the listener. An error that
leaves `listen()` takes the thread through `"dying"` to the reset of `is_listening`. `"oversleep"`
is a `select()` whose timeout wrapped because the thread came to the subtraction after `finTime`.

`Exchanges` is the refinement of `Exchange`: the place of the main thread gives the step of the call
(`StepOfCall`), and an answer counts as given from its arrival at the socket, whether a listener
holds it, has pushed it, or has not read it (`Arrived`). An answer is one message here; the one that
leaves a NUL behind is in `Team`. With the fairness of `Exchange` it says that
every call takes exactly its own answer and ends.

### Names on the way (`Escape`)

A character is its code. `escape` and `unescapeStep` are the iterations of the two loops; `escapeChar`
gives what one character is written as, `Malformed` the reasons of `unescape` to throw, `Unescaped` and
`Width` what an escape stands for and how many characters it takes. A `char` is signed: `(int) c` of a
code from 128 on is negative and has eight hexadecimal digits, and `unescape` reads the first two, `ff`,
and keeps the other six as characters. So a name outside ASCII is stored as a longer one. `receive` is the
read of the server that cuts the end off a message that is too long. `OneToOne` is what
`ReceivedAssumption` of `Network` assumes, and `CutThrows` what `Wire` of `Team` says of a cut
call.

### A race (`Race`)

One action for each function of `start()`, with the loop of `processRace` as `round`, and for what a
caller does between two starts. A name is a number, ordered as the `std::map` orders names. A strategy
is nothing but a number of steps from one to five in each round, so `current_tarakans_info` only says
which was chosen. In `initRace` a tarakan without strategies makes `size() - 1` wrap, and `at()` of the
empty vector throws: the strategies chosen so far stay in the object, and the positions stay those of
the race before. `Team::registerTarakan` and `Timetable::addTarakan` give no strategies, so no tarakan
that was registered over the network could run. The pairs are sorted ascending: the tarakan that
went farthest is the last of the positions. No document says which end wins, so the order is a
property (`PlacesByWay`) and not a finding.

### Documents (`Documents`)

One object, a team with its tarakans, a stadium with its tracks or a race result, is changed, saved
and loaded. `deserialize` clears the vector and reads item by item, so a document that is malformed in
the middle leaves what was read before (`ReadItems`); a wrong type throws, and a key that is absent
fails the assertion in `operator[] const` of `json.hpp` and ends the process, since the Makefile does
not define `NDEBUG`. `serialize` of a tarakan with strategies throws (`Tarakan.cpp:37` pushes to the
object instead of the array in it), so that what is saved never holds one. Such a team can come only
from a document of somebody else. `UnitTest.cpp:65` writes a tarakan without the key `strategies`,
which this code would abort on (and `UnitTest.cpp` does not compile against it).

## The runs

| Run | Distinct states | What it shows |
| --- | --- | --- |
| `TeamMain` | 33,934 | two processes run `team_main` under two names: the walk of the group doubles no connection and loses none in use, the system implements `Registry` with its fairness, each polling loop ends |
| `Contention` | 362,886 | three teams register more tarakans than a slot takes, with a name that is mangled, a timetable that outgrows a read, a call that ends the listener and one that is not sent: slots fill to the limit and not beyond, answers are true, no tarakan and no request is lost |
| `Failures` | 116,026 | a team is killed at any point and run again, another makes a call longer than a read: the registrations of the other hold, each answer belongs to its request, `Registry` is kept until the listener ends, closed connections leave |
| `ClientSteady` | 8,859 | while the server stays, the hand-over of the listener works: one listener, mutex free between calls, inbox heard, and three calls implement `Exchange` |
| `ClientServerCloses` | 17,299 | the server closes in the middle and two threads disconnect at once: an answer still never reaches a later call |
| `Escape` | 27,057 | every name of up to three characters from an alphabet with each kind of escape: one word, told from all others, refused when cut |
| `Race` | 269,877 | two races of one object with changes in between: the places are right and nothing is left over |
| `ServerLife` | 143,415 | a server is stopped, started and destroyed at any point of a pass: no thread left, nothing deleted used, no descriptor leaked before, `stop()` returns but for two ways |
| `Documents` | 2,138 | what a team, a stadium or a result saves loads back, whatever failed in between |
| `ServerStops` | | **violated**: a callback gets a socket that did not trigger it (`Server.cpp:117` against `socket_group.h:49`) |
| `ClientDisconnects` | | **violated**: the socket is disconnected while the listener uses it (`Client.cpp:112` against `socket.cc:668-670`) |
| `ClientOversleeps` | | **violated**: `listen(10)` may listen for ever (`socket_group.cc:94` against line 60) |

Deadlock is not an error in these runs: scripts end, sessions are bounded, and a system whose teams
are done stops, a name that arrived or was refused is at its end, a
`Race` may rest, a server may be gone or wait in `recv()` or `select()`, and a failed assertion ends the process of
`Documents`.

### Bounds

- `Teams`: two, or three where a slot must be contended by more teams than it has room for.
- `SlotSize`: the code's 5 for `TeamMain`, 1 or 2 elsewhere so that a slot fills; the theorems hold
  for every size.
- `Tracks`, `Times`: one track and two times give two slots, enough to confuse one with another.
- `MaxSessions`: the connections of one team; a killed team needs more than its script.
- `ReplyCapacity`: how many tarakans one read of a client holds. `Contention` gives it a value that
  is exceeded, so that a timetable is cut, and `TeamMain` too, where a timetable may also fill the read
  exactly and leave an empty message to the next call. `Failures` has no timetable.
- `Script`: scripts with each request, from two teams of one name in `Failures`.
- `MaxCalls`: three calls, so that a listener and an inbox of one call can disturb the next and the one
  after it; two where the server closes.
- `Conn` of `Server`: two clients, so that an erased socket has a neighbour that moves down (three,
  without the liveness properties, give 6 million states and no violation). `MaxMessages`: one.
- `MaxItems` of `Documents`: two, one before the malformed item.
- `Alphabet`: one character at least of each branch of `escapeChar` and of `unescape`: a space, a
  newline, the quote, the backslash, a digit, `f` and `x` (which may stand after a backslash or in a
  hexadecimal escape), 127, 233 and 255. `MaxLength`: three, so that an escape has one before and one
  after it. `MaxCut`: two, because the client sends at most two characters more than one read takes.
- `Tarakans` of `Race`: three, so that the middle one may lack strategies. `Durations`: none, one and two
  rounds. `MaxStep`: two instead of five, enough for ties and overtaking. `MaxStarts`: two, the
  second to find what the first left. `MaxStrategies`: two. The theorems hold for all of them.
- `MaxCloses`: one close. `Punctual`: FALSE allows the wrapped timeout.

### Fairness

`FairSpec` of `TarakanRuns` has weak fairness of the listener and of each team process between
`connect` and `disconnect`: they are threads that sleep 10 ms and go on, and no step of another
process disables one. To start the server, to start a call, to kill and to run again are not
fair. `FairSpec` of `Client` has weak fairness of the main thread, of each listener thread and of
the answer of a server that is there, which is what `PollingEnds` says of the server.
`FairSpec` of `Server` has weak fairness of the listener and of the steps of a call the owner has begun; to
begin a call is not fair. It has strong fairness of `return`, the end of `listen(10)`: the passes of one
`listen` go on until 10 ms are over, and the clock does not stop.

### What the three violated runs mean

`ServerStops`: a pass finds the listening socket at index 0 readable and tests its type. Then `stop()`
erases index 0, and the element the callback `OnAccept` gets is the client's socket that moved down, which
`select()` did not report. In the full model the next step is `acceptThrows`: `accept()` of a socket that
does not listen throws, and the listener ends. The other callbacks can get a wrong socket in the same
way; where that leads is what `NoDeletedUsed` and `StopEnds` of `ServerLife` speak of. No
program of the repository calls `stop()` on a running server.

`ClientDisconnects`: `disconnect()` closes the descriptor, removes the socket from the group and only
then stops the listener. In between the listener may fill its `fd_set` from the group that holds
the disconnected socket. It happens in a system where nothing fails.

`ClientOversleeps`: the loop of `listen` tests the clock, fills the `fd_set`, and then computes
`finTime - getTime()` in unsigned arithmetic. A thread that is not scheduled for 10 ms in between waits
for 2^64 ms. The main thread, in `sendMessage`, waits for it before the request is sent, so nothing
ever comes that would wake it. With `Punctual = TRUE` the same property holds.

### What a team that is killed may lose

`MembersHold` speaks of the teams that nobody kills. A process that dies after it sent `DEREGISTER TEAM`
leaves a connection with an unread request. Run again, it may register, be told so, and then lose
its membership to the old request: the pass that reads the new connection has to miss the old one, and it
does when it removes the connection in front of it, twice in a row. It takes three teams: TLC finds it in
50 steps when `a` and `c` request the timetable and `b` registers, deregisters and deregisters again
(`MaxSessions = 4`, `Mortal = {b}`, 2.3 million states). With two teams there are not enough connections in
front. No document of the repository promises otherwise, so it is not a run; it is one of the hazards.

### What holds only while the server stays

When the server closes during a call, TLC shows `OneListener`, `MutexHeldInCall` and `Exchanges` of
`Client` violated. No document of the repository promises otherwise, so they are not runs:

- the listener of an old call, in the `catch` of `Client::listener`, resets `is_listening` of the next
  call, whose new listener ends, or is joined by nobody and runs beside the one after it;
- the listener's own `disconnect()` resets `connected`, so that the one of the main thread returns early
  and leaves the mutex locked;
- a listener that gets the end of its stream late joins the thread of the next call, which the main
  thread joins too;
- the listener's own `disconnect()` empties the group between two accesses of the main thread's, which
  then throws `OUT_OF_RANGE` and ends the team, or the other way round.

## What is proved

TLAPS checks the eight modules `*_proofs` for every value of the constants under the named assumptions
of the modules, which TLC evaluates in the runs: `SlotSizeAssumption`, `NoKeyAssumption`,
`ReceivedAssumption`, `MaxSessionsAssumption`, `ServerSocketAssumption`, `ScriptAssumption`,
`MortalAssumption`, `ReplyCapacityAssumption` of the system; `MaxCallsAssumption`,
`MaxClosesAssumption`, `PunctualAssumption` of `Client`; `SocketsAssumption`,
`MaxMessagesAssumption` of `Server`; `MaxItemsAssumption`, `MalformedAssumption` (a part that is
malformed is no name, track or tarakan) of `Documents`; `AlphabetAssumption`,
`MaxLengthAssumption`, `MaxCutAssumption` of `Escape`; `TarakansAssumption`, `BoundsAssumption` of `Race`.

| Theorem | States | Hypothesis |
| --- | --- | --- |
| `RoundTrip` | `deserialize(serialize(entries)) = entries` for every timetable | |
| `TypeCorrect` | `TypeOK` of `TarakanRuns` | |
| `SlotsDistinct`, `Quota` | `EntriesDistinct`, `SlotWithinQuota` | |
| `RegistrationsStay` | `TarakansStay`, an action property | |
| `ConnectionsKept` | `ConnectionsOnce` | |
| `RequestsKept`, `AnswersFit` | `NoRequestLost`, `AnswerToRequest` | |
| `AcknowledgedIsBooked`, `BusyIsFull`, `TimetableIsCurrent` | `AcknowledgedBooked`, `BusyMeansFull`, `TimetableCurrent` | |
| `MembersStay` | `MembersHold` | `OneName` |
| `AtomicSteps` | every step is one of `Registry` or none | |
| `ClientTyped`, `OwnAnswers` | `TypeOK`, `OwnAnswer` of `Client` | |
| `OneListenerAlive`, `MutexHeld`, `PollsAreHeard` | `OneListener`, `MutexHeldInCall`, `PollingHeard` | `MaxCloses = 0` |
| `ExchangeSteps` | every step of a client is one of `Exchange` or none | `MaxCloses = 0` |
| `StopLeavesQuiet`, `NoSecondLife` | `StoppedIsQuiet`, `OneLife` of `Server` | |
| `NoUseAfterDelete`, `Descriptors`, `DropsOnlyClosed` | `NoDeletedUsed`, `DescriptorsAccounted`, `OnlyClosedDropped` | |
| `SavedIsLoaded` | `SavedLoadsBack` of `Documents` | |
| `EscapedIsOneWord`, `CutIsRefused` | `OneWord`, `CutThrows` of `Escape` | |
| `AsciiReturns`, `NamesStayApart` | `AsciiRoundTrip`, `OneToOne` | |
| `RaceStartsFresh`, `ResultsNeedStrategies` | `FreshStart`, `NoPartialRace` of `Race` | |
| `EveryoneHasAPlace`, `WayDecides` | `EveryonePlaced`, `PlacesByWay` | |

Calls may be of any length the client sends. A registration of a tarakan that is cut by a read loses digits of
its time, books another slot than the team asked for and is acknowledged all the same: the properties
`AcknowledgedBooked`, `BusyMeansFull` and `TimetableCurrent` themselves except such calls
(`CutTarakans`), and the theorems need no hypothesis.

The hypotheses. `OneName`: a team process registers and deregisters one name, as a `Team` has one; without
it `MembersHold` asks for names that were never registered. `MaxCloses = 0`: the server does not go away;
[with closes](#what-holds-only-while-the-server-stays) three of the four statements are
false, and `PollingHeard` itself speaks only of the time before a close. Kills are
never excluded: `Mortal` is any set of teams in all theorems about the system.

### The arguments

**The timetable** (`IInv`). `SlotWithinQuota` speaks of all entries of a slot together, while `isFree`
looks at the first one, so it is not inductive: two half-full entries of one slot would pass `isFree`.
With `EntriesDistinct` the first entry is the only one, and what `isFree` counts is what the slot holds.
`EntriesDistinct` in turn needs the types: the names, tracks and times of the messages that the
teams send, for which a team in a call must have a call (`CallsOK`), and an accept that takes a
connection out of a backlog that holds one (`AcceptsOK`). `QuotaOK` adds that the sets are finite,
without which their cardinality says nothing.

**Requests** (`PInv`). A call that waits is at one of four places (`CallOK`): its request is unread and
first on its connection (`RequestWaits`), its one answer is on the way (`AnswerWaits`), the client sent
nothing (`NotSent`), or the listener has ended (`Lost`). That needs to know where a connection is:
open and in the backlog or in the group as long as the call lasts (`PlacedOK`), never twice
(`NoneTwice`), nowhere before it is opened (`FreshOK`); that a connection the pass is
to launch has a message or no client (`ReadyOK`), so that a disconnect removes nobody who waits; and
that only a call longer than a read leaves bytes no handler takes (`StrayOK`), so that without one
the listener lives (`LifeOK`).

**What teams are told** (`TInv`). The properties speak of answers that were taken; `AnswersTrue` says it
of the answers on the way. It stays true because no step takes a tarakan out of a slot (`Grows`), and it
becomes true because the handler answers what it did, of the request that `PInv` says is the team's, with
the time the team wrote unless the call was cut.

**Members** (`MInv`). Who registers or deregisters a name on a connection has that name in its script
(`AllAsked`), also when the process is dead, so no other team takes the name. For a team that is not
killed and has not ended in an exception, what the server has not read is the request of the call that
waits (`Unread`), so no deregistration is left when it has its answer.

**The registry**. The mapping gives each slot the set of its tarakans, and each answer what it says of
the slots. A handler is the one step of `Registry` for its request, a step of the network or of the pass
is a stutter; `PInv` says that what is read is what the process asked.

**A client** (`TypeInv`, `TokenInv`, `Steady`). There is one token: the answer to the call is at most once
in the socket, in the hands of one listener, or in the inbox, and nowhere before the request is sent
(`TokenInv`). That does not need the server to stay, because every call leaves the inbox empty.
`Steady` says for each place of the main thread where the last listener is (`PhaseOK`), and that
all earlier ones have ended (`ThreadsOK`): a thread is started only after a `join`. Only the main thread
disconnects then, and nobody empties the group under it. With both, a
poll is heard, and the steps map to `Exchange`.

**A server that is stopped** (`IInv`, `SocketInv` of `Server_proofs`). `StoppedIsQuiet` speaks of the end
of a call, but `stopListening` does not join when it finds `is_listening` down. `DownMeansEnded` says
why it need not: the flag goes down in the `catch`, where the thread ends, or in `stopListening`
itself, which goes on to `join()`. `StopsRunning` covers the `stop()` that throws, and `PortKept` says that
the port is taken with the first thread and never given back, from which `OneLife` follows.
`NoDeletedUsed` needs more than the group: between the check of the index and the read of the
element the owner may erase, and what the listener then reads is what the shift left behind. `LiveOK`
says that all cells up to the index of the pass hold sockets that live. `PassOK` says that, as long as
nobody stops the server, what the pass found out of the socket at its index is true of the element
it finds there.

**Documents** (`DocumentsInv`). The object is one of its class whatever was loaded, and what is in the file is
the document of an object without strategies; reading it item by item meets no malformed item.

**Names** (`WordInv`, `EscapeInv`). `OneWord` speaks of the finished word; `WordInv` says of the unfinished one
that it is graphic and begins with its quote, and `escapeCharLemma` that each branch of `escapeChar`
adds graphic characters only, the digits of a negative `char` included. What `unescape` makes of a
word needs to know where in it each character begins: `Layout` gives the place of each piece, `Written`
its characters, as far as the word was not cut. `Walk` says of the loop that it stands at the start of
a piece, or in the six digits of a negative `char` that `unescape` takes as characters, and `Stored` what it
has stored until then. A cut word ends before its quote, or with the quote of an escape, which the
loop passes (`CutIsRefused`). `OneToOne` compares the name with `Original`, a recursive function on
what was stored: it exists (`DecodingExists`) and gives back what is stored of a name (`NameTold`).

**A race** (`RaceInv`, `PlaceInv`). `FreshStart` speaks of the ways after all rounds; `RaceInv` bounds them after
each round, from the zero of `processRace`. It also says that from `initRace` to the end everybody has a
strategy, because `initRace` goes on only if `Chosen` are all racers; a change of the positions is
a `packResults`, and with that `NoPartialRace` follows. The product of `MaxStep` and the round is kept
out of the solver's sight by `StepLemma`. `PlaceInv` says that the sorted pairs are a list of all
results in order; that there is such a list for every finite set of pairs is `SortedLemma`.

Facts about every natural number (`DecodingExists`, `NameTold`, `SortedLemma`) are proved by a least
counterexample: `WFMin` of `WellFoundedInduction` gives the least element of the set of numbers for
which the fact fails, which needs no operator as a parameter.

### Only model-checked

Liveness stays with TLC: `PollingEnds`, `ClosedConnectionsLeave`, `StopEnds`, `AcceptedOrDown`, and the fairness
that `AtomicRegistry` and `Exchanges` add to the steps. It needs `ENABLED`, which is out of the reach of the
provers here.

## Not modelled

- SIGPIPE, a failed `select()` of the server, more descriptors than `FD_SETSIZE`: the kernel's errors.
- Two threads inside `erase` or `push_back` of one vector at once: undefined, and taken as one after the
  other.
- A read that returns a part of a message, or two: every connection is to 127.0.0.1 and carries one
  request and one answer at a time, which arrive whole.
- The setters of `Timetable`, `addEntry`, `Tarakan::addStrategy`: nothing calls them.
- The message handler of `Stadium`: `START RACE` constructs a `Race` of 5 to 20 rounds and starts it once,
  but nothing starts the server of a stadium, so it cannot be reached. The overflow of a way would take
  a duration of hundreds of millions.
- `MultiCallHandler`: it picks a main function by the name of the program, once, and keeps no state
  afterwards.
- Logging, Doxygen settings, the unit tests, smart buffers.
- About nine tenths of the lines of the repository: the vendored `json.hpp` and `catch.hpp`, two copies
  of each. Of the program's own code and of netlink, what is left is logging, the branches for UDP and
  Windows, getters and the tests. json.hpp enters as what `serialize` and `deserialize` do with it.
- The data race on the inbox as undefined behaviour of C++: `Client` takes `push_back`, `size()` and
  `clear()` as atomic. Data races on `connected` and `is_listening` are taken as single accesses in
  some order, which is what the build without optimisation does.

## Plan

1. Done: `Timetable`, `Network`, `Management`, `Team`, `TarakanRuns`, `Registry`, `Client`, `Exchange`,
   `Server`, `Escape`, `Race`, `Documents`, with the theorems above.
2. Left: what a client keeps when the server closes, as a theorem with `MaxCloses` above zero
   (`OneListener` up to the first end of stream); the membership of a team that is killed, up to its
   first death; the limit of characters `Wire` takes from the two buffers, as a module of its own.
