# hnode2_mgmt_device in TLA+

The hnode2 management device is a daemon (`hnmgmtd`) that finds the devices of
a home network with Avahi, identifies them over REST, claims and releases them,
maps the services they desire to the ones others provide, polls their health,
and serves a REST API to a web front end over SCGI, part of it by passing
requests on to devices. This directory models what its threads do to shared
state, checks the models with TLC and proves every safety property of theirs
with TLAPS.

Sources are all in `src/src/daemon/`. Below, A is `HNManagedDeviceArbiter.cpp`
(H its header), M `HNManagementDevice.cpp`, S `HNSCGISink.cpp`, P
`HNMgmtProxy.cpp`; A:1632 is line 1632 of A. `PROJECT.json` maps each
definition to the lines it translates.

## Inventory

### Threads

| thread | code | what it does |
|---|---|---|
| main | M:82-350 | one epoll loop: Avahi events, requests from the sink, responses from the proxy |
| monitor | A:1645-1831 | sleeps, then walks the device map and moves each device one step |
| sink | S:920-1035 | one epoll loop: connections of the front end, responses to send |
| proxy | P:313-383 | takes tickets and talks HTTP to devices, one at a time |

The threads start in M:176-190 and are not stopped: the loop's `quit` is never
set, so the `shutdown()` calls behind it are not reached.

### Components

**Arbiter, management states and commands** (A, H). State: the map from CRC32
id to record; in each record the management state, the ownership state, the
command, the addresses; `m_monitorWaitTime`. Operations: `notifyDiscoverAdd`,
`setDeviceMgmtCmdFromJSON`, `startDeviceMgmtCmd` (main thread); the switch of
`runMonitoringLoop`, one REST handler for most states, `setNextMonitorState`
(monitor thread, and main for a start). Hard: the map, the states, the commands
and the wait time are guarded by two different mutexes, or by none, and the
monitor works for seconds on a state it read before. Correct when: service work
follows ownership; a state is not acted on when it is stale; deadlines are
kept; a parked device moves only by command; discovered devices settle and
started commands are executed.

**Arbiter, services** (A:737-967, 2281-2831). State: per record the services
provided and desired, with a visited mark; two indexes by type; default
mappings. Operations: start, update, complete and abandon of each map, rebuild
of each index, lookup of a provider, the mapping PUT. Hard: updates that fail
halfway, marks set by lookups, the management device's own record, which enters
without a rebuild. Correct when: a completed update leaves what the reply
lists; the indexes agree with the records; mappings lead to the provider.

**Device record: mutex, copies, addresses** (A:417-472, 617-735, 1495-1570;
the lookups A:675-734). State: a pointer to a mutex made by the first lock; the
list of addresses, each with its name, port and type. Operations: lock, unlock,
`getDeviceCopy`; `updateRecord` with `addAddressInfo` and `setAddressInfo`;
`findPreferredConnection`. Hard: two first locks, copies that share the pointer,
an unlock too many; the list is written under the map's mutex and read under the
device's, or under none. Correct when the mutex excludes and is not deleted in
use; when the list has what was announced last, and a lookup finds it.

**SCGI sink** (S:834-1280). State: the descriptor to record map, the epoll set,
the response queue. Operations: accept, close, read a request, send a response.
Hard: stale events, hang-ups during a request, descriptors and heap addresses
used again; the record's two file buffers, which close its descriptor once more
after the sink has (S:1222, S:450), when another thread may have got the number.
Correct when: descriptors and records match, a record has one owner, every
request that was read is answered, to the right client, nobody is cut off, and
the connection of a client that left is released.

**SCGI parser** (S:437-813). State: `m_rxState` and the header buffer. Hard:
pieces of any size on a non-blocking, edge triggered socket; lengths of zero.
Correct when a request is queued once, with exactly its header bytes.

**SCGI content** (S:295-423). State: bytes moved, the stream's state. Hard:
bytes that have not come yet, short and missing lengths. Correct when a
transfer that ends is complete, and one whose bytes are there ends.

**Main loop** (M:82-350, 645-721, 805-1292): routing, and the local handlers.
**Proxy sequencer** (P): tickets, the exchange, the response. Both interact
with the sink through four queues that carry the record's address.

**Not concurrent, not stateful**: configuration (M:400-470), path registration
from the OpenAPI text (M:540-643), tokens (M:723-803), JSON rendering, address
parsing (A:185-253).

**External**: the hnode2 library (queues, health and string caches, Avahi
browser), Poco (HTTP, threads), the kernel (epoll, descriptors), the front end
and the devices.

### How they interact

Main calls the arbiter directly (discovery, commands, lookups, reports), which
shares the device records with the monitor. Sink to main, main to proxy, proxy
to main and main to sink are queues with an event descriptor each. The sink
allocates request records and deletes them; main and proxy only have the
address. Content is read and written by whichever thread handles the message,
on the sink's socket.

## Modules

| module | models | composes |
|---|---|---|
| `DeviceLifecycle` | what the arbiter promises of each device, abstractly | - |
| `ServiceOrder` | the order in which a device's services are learnt, set and polled, abstractly | - |
| `RequestService` | what a client of the front end is promised, abstractly | - |
| `RequestReader` | what the sink takes the parser for, abstractly | - |
| `ManagedDeviceArbiter` | arbiter states, commands, wait time; main and monitor threads | implements `DeviceLifecycle` and `ServiceOrder` |
| `ServiceMaps` | service maps, indexes, mapping PUT, REST reports | the arbiter's service phases in detail; implements `ServiceOrder` |
| `RecordMutex` | one record's mutex, two threads, copies | what `ManagedDeviceArbiter` takes as a working lock |
| `DeviceRecord` | a record's address list and the lookup of a connection | extends `RecordMutex` |
| `ScgiRequests` | a request's way through sink, main and proxy, and the descriptors of all threads | sink, main, proxy; implements `RequestService` |
| `ScgiRequestParser` | the parser of one request | what `ScgiRequests` takes as one choice; implements `RequestReader` |
| `ScgiContent` | one content transfer | what `ScgiRequests` takes as "answered or stuck" |
| `..._proofs` | the theorems about the module of that name (`DeviceLifecycle_proofs`: that the arbiter implements `DeviceLifecycle` and `ServiceOrder`; `RequestService_proofs`: that `ScgiRequests` implements it) | `TLAPS` |
| `MC...` | instances for TLC | |

A definition whose comment begins with "Fault" is a faulty variant of the one
after it. No specification uses it; it is there to show that a property notices.

### ManagedDeviceArbiter

`deviceMap`, `mgmtState`, `ownerState`, `cmd` and `ipv4` are the records' fields
(`ipv4`: those for which `findPreferredConnection` succeeds). `monPC` says where
the monitor is: `Wake` and `Sleep` are the two ends of the outer loop, `Visit`
the iterator's step together with the read of the state in the switch, then one
action per `case`. A case ends in `GoTo`, the call of `setNextMonitorState`,
whose two statements are `CommitState` and `CommitWait`, since the main thread
may change the wait time between them under another device's mutex. The main
thread's `PostCommand`, `ReadCommand` or `RejectCommand`, `StartCommand`,
`StartWait` are the statements of one POST. Device mutexes are `MonitorHolds`
and `MainHolds`: the thread inside `setNextMonitorState` holds the device's.
`Answers` are the ways an exchange ends that does not throw; `ContactThrows` is
the one that does. `RECOVERED` and `DISAPPEARING` are declared but never
entered: nothing reads a configuration of devices, and M:279 drops removals.
The map is ordered by id, as `std::map` is, and a record inserted during a walk
is visited if it sorts after the cursor.

A POST clears the record's command (`PostCommand`), then sets its type and its
name from the body (`ReadCommand`, once each), all under the map's mutex only,
while the monitor may be at any step of executing the old one; a body found
wrong halfway leaves what was set (`RejectCommand`). Four history variables
record what properties speak of: `ownerFresh` (owner read since the last command
was dispatched), `armed` (commands started during the current walk), `sleepFor`,
and `overtaken` (a post came for the device whose command is being executed;
what is then sent is not claimed).

### DeviceLifecycle

The abstract state of a device is its `phase` (absent, self,
identifying, serving, parked, commanded) and whether it is `mine`. Nothing is
said of threads, walks, waits or mutexes. `ManagedDeviceArbiter` maps to it by
`PhaseOf`, which groups the management states, and by `mine`, the devices whose
owner was found to be us since their last command. Almost every step of the
arbiter is a stutter of it. `Lose` is there because a command may be lost
(finding 2): the promise the code keeps is weaker than one would like, and the
specification says exactly how much.

### ServiceOrder

The abstract state is a `stage` for each device: none, provided, desired, put,
polled. `Begin` may happen at any time, `Proceed` takes a device to the stage
that follows its own and no further, `Leave` gives it up. It is where two
modules meet: `ServiceMaps` has one variable for a device's stage and moves it
in order, and what it says of the maps rests on that; the arbiter has a
management state that two threads write, and the state in the monitor's hand.
Both implement `ServiceOrder`, so the arbiter takes no device through stages
`ServiceMaps` does not have. The arbiter's mapping (`Order`, `StageOf`) takes the
state the monitor's switch was entered with (`seen`) for the device in hand and
the record's for all others: a command that comes in the meantime is not a step
backwards until the monitor has committed, and is none at all if the commit
overwrites it (finding 2).

### ServiceMaps

Both kinds of service have the same code, so `Kind` is a parameter. A handler
is `BeginUpdate`, one `ListService` per element of the reply, `CompleteUpdate`,
`RebuildIndex`; or `AbandonUpdate`, from any point, because an element may be
malformed. `PutMappings` looks each desired service up, which marks it visited,
and `AnswerPut` is the device's answer. `Discover` puts the management device's
services in before its record is inserted. The main thread reads both indexes
for the REST reports at any moment (`Reported`), so `IndexAgrees` is about every
state and names its exceptions: the index that is being rebuilt, the device
whose update is running, and the devices in `unindexed`, whose map changed
without a rebuild. The same index decides whether a mapped device is polled
(`ProvidesService`). `stage` abstracts the arbiter's states to the service
phases; `Restart` is a command that takes a device back. `real` is what the
device has; `DeviceChanges` is the device's own doing, and `current` are the
devices that desire what they did, with the sink where it was, when the arbiter
last read and looked it up. Versions are left out: they only cause more rebuilds.

### RecordMutex, DeviceRecord

`lockForUpdate` is `CheckMutex`, `NewMutex`, `StoreMutex`, `Lock`: a thread can
come between any two. A deleted mutex reads as it was until its address is used
again. `disturbed` becomes true when a first lock is raced, a copy shares a
mutex, or an unlock hits somebody else's.

`DeviceRecord` puts the address list beside that mutex. `UpdateRecord` appends a
new address or begins to rewrite a known one, `SetAddressInfo` writes its name
and then its port. The monitor's `findPreferredConnection` is `BeginLookup`, one
`CheckEntry` per entry, and `CopyName` and `CopyPort` in either order, since they
are arguments of one call. An append may move the list under the monitor's
iterator, and an assignment may hit the string being copied: `misled` is then
true and `LookupMisled` may yield anything, as undefined behaviour may.
`AnnouncedKept` and `LookupRight` say what holds otherwise.

### ScgiRequests

`edge` is the kernel's ready list, `batch` what is left of the last
`epoll_wait`. `fdOf` and `rrMap` are the kernel's and the sink's view of a
descriptor; `alive` and `heap` the allocator's. The four queues hold addresses.
`closing` is the descriptor a deleted record's file buffers have yet to close
once more, `session` one that the monitor or the proxy has opened to a device
(`OpenSession`, `CloseSession`): descriptors are numbers of the process, so the
two can collide. `raced` records that a session got a number that was still to
be closed; then its connection is cut, and the properties do not hold. The loop
looks for a hang-up first (`HangUpFirst`): edge triggered, it would not be told
of it again. Clients are external: they connect, send in pieces, hang up at any
time. The parser and the content transfer are choices here (`ProcessRequest`,
`SendSpins`, `LocalSpins`, `ExchangeFails`), worked out in their own modules.

`NoneForgotten` is about the edges: events are told once, the loop may be
looking at a batch that is older than the descriptors in it, and the sink
reads, sends or closes for an event only. Whatever there is to do has an event
in the batch or still to be told. `NothingMore` says when the parser leaves off
to go on later, which `NeverForgotten` of the parser's own module is the reason
for.

### RequestService

The abstract state of a client is its `phase` (away, served, leaving, released),
what it has sent and what it got. `Answer` and `Release` are the two ways it is
let go. A client that hangs up on its whole request, and a session that races a
close (`Disturb`), end `orderly`; from then on a client may also be let go by
`Misserve`, with another's answer, with one that was never made, or none. That
much the code gives away (S:1023, S:1222), and no more: even then no client is
answered twice, nor after it was let go (`AnsweredOnce`, a consequence of the
abstract specification alone).

### ScgiRequestParser, ScgiContent

Bytes are positions; the environment delivers them in any pieces. In the parser
one action is one turn of `readRequestHeaders`. `RequestReader` is what those
turns come to for an event: the header is read, or has failed, for want of a
comma or because the parser came to the end of what was there too early, or the
parser waits, having read all there was. That is `ProcessRequest` of `ScgiRequests`,
there one step; `Reader` maps a recvData that is going on (`busy`) to an event
that is not dealt with yet, so that bytes coming in its middle count as having
come before or after. In the transfer one action is
one `xferContentChunk`; `Read` is `istream::read` over a file buffer: all, or
what there is with end of file, or a bad stream when the socket would block.

## Runs

Deadlock is checked for the arbiter, the services and the mutex, whose
environments can always go on. It is not for the three SCGI modules: a client
that is done, a request that was parsed, a transfer that ended stop for good,
and a thread that spins is a stop, too.

| run | what it shows |
|---|---|
| `arbiter` | `TypeOK`, `ServicePhasesOwned`, `StateInHand`, `PromptNextStep`, `CommandNotSleptOver`; `OnwardsUntilCommand`, `OnlyRacedCommandsLost`; `ImplementsLifecycle` and `ImplementsOrder`, the refinements of `DeviceLifecycle` and `ServiceOrder` |
| `arbiter_live` | `CommandInHand`; `DiscoveredSettles`, `CommandLeaves`, under fairness |
| `service_maps` | `TypeOK`, `SweepExact`, `IndexAgrees`, `HealthPolledRight`, `MappedRight`; `ImplementsOrder`, the refinement of `ServiceOrder` |
| `scgi_requests` | `TypeOK`, `MapMatchesDescriptors`, `OneOwner`, `OwnAnswer`, `NoneForgotten`, `NoneDropped` |
| `scgi_requests_live` | `Answered`, `Released`, under fairness; `ImplementsService`, the refinement of `RequestService` |
| `scgi_parser` | `TypeOK`, `QueuedIntact`, `NeverForgotten`; `WholeRequestParsed`, under fairness; `ImplementsReader`, the refinement of `RequestReader` |
| `record_mutex` | `RecordTypeOK`, `UndisturbedExcludes`, `AnnouncedKept`, `LookupRight`, of mutex and addresses together |
| `scgi_content` | `TypeOK`, `CompleteMovesAll`; `OnlyLateContentStalls`; `ContentInTimeMoved`, under fairness |
| `monitor_dies` | `MonitorRunsWhileAsked` is violated |
| `command_overwritten` | `StartedCommandIsTakenUp` is violated |
| `scgi_parser_waits` | `PartialRequestWaits` is violated |
| `record_copy_shares_mutex` | `MutexUnique` is violated |

The last four are disagreements between a comment of the code and what the code does:

1. *A device that cannot be contacted ends the monitor* (A:1945, 2064 and the
   other exchanges): Poco throws, nobody below the thread's `run()` catches.
   Every device stays in the state it was in, for good.
2. *A started command can be lost* (A:1637): the monitor finishes an exchange
   it began before the command was started and overwrites `EXEC_CMD`. The POST
   was answered with 200. `OnlyRacedCommandsLost` says how far this goes: only a
   command started during the walk under way is ever lost.
3. *A request in pieces fails* (S:493): `EAGAIN` is taken for an error. The
   record stays in the error state and the connection open.
4. *A copied record shares its mutex and deletes it* (A:1566, 449): the copy
   constructor takes care, the implicit assignment does not.

More can be read off the code. It is listed as hazards, and no property says
the contrary; where a property has to make an exception for it, the exception is
part of the property:

| what the code does | what is claimed all the same |
|---|---|
| A command is replaced while it executes (A:1850). | `CommandInHand`, unless it was `overtaken` by a post. |
| A rejected body clears a pending command (A:1850), or leaves its type behind (A:137). | Nothing of the command; `CommandLeaves` of the device. |
| The management device's record leaves `SELF` when it is sent a command (A:1871). | `OnwardsUntilCommand`: nothing else moves it. |
| The index is not rebuilt after an abandoned update (A:2412), nor when the management device is discovered (A:1478). | Nothing of such a device until the next rebuild (`unindexed`). |
| An address that is not announced any more is kept, and found first (A:1497). | Nothing of whether an address is still right. |
| A lookup meets a list being moved, or an entry being rewritten (A:703, 2561). | Nothing: it is undefined. `LookupRight` is about all other lookups. |
| A hang-up deletes the record another thread works on (S:1023), and the answer is sent to whoever has the descriptor (S:1001). | `ImplementsService`: no second answer. `OneOwner`, `OwnAnswer` and `NoneDropped` are for runs without such a hang-up. |
| Connections that wait at the descriptor limit are not accepted until another one comes (S:1195). | Nothing of those that wait. |
| A record's file buffers close a descriptor another thread was given meanwhile (S:1222). | `ImplementsService`. Without `~raced` TLC finds `MapMatchesDescriptors` violated. |

### Bounds

- `arbiter`: two devices, one of them `Self` (the special record), so that a
  walk has a device before and one after the one in hand; two commands, so that
  one can be posted while the other is pending or executing, and to either
  device; no names, which matter only to `CommandInHand`. `arbiter_live` has one device and three commands
  with and without a name, so that one can be cleared while another is pending and
  a third recovers from it; other devices only lengthen a walk, which stays
  finite. Waits are the three the code uses.
- `service_maps`: two devices, two types (the sink, with a default mapping, and
  the source, which is polled), a set and an empty URI, so that entries appear, change, lose and
  keep their URI; two restarts, so that a completed update can follow an
  abandoned one and a PUT. After the last restart, runs in which the management
  device's own services are being worked on are not followed (`SelfAtRest`);
  with fewer restarts the two are, in every combination of stages.
- `scgi_requests`: three connections over two descriptors and two addresses, so
  that both are reused while one is still in use, and the descriptor limit is
  met; one of the clients asks for a proxied path. Clients of the same kind,
  descriptors and addresses are symmetric; symmetry is used in this run only. It
  stops at the first race or hang-up on a request (`Orderly`), beyond which
  `OneOwner`, `OwnAnswer` and `NoneDropped` claim nothing.
- `scgi_requests_live`: two connections, of which one may hang up on its request
  (`OneImpatient`), for `ImplementsService`; two are enough for it, since an answer
  can reach the other one, by its descriptor or its address. Which descriptor and
  which address are used first is fixed, as they are alike. `Answered` and
  `Released` claim nothing beyond good order. Sessions with devices are in the
  other run. What `MapMatchesDescriptors`, `NoneForgotten` and `ImplementsService`
  say of races, of more clients and of more hang-ups is proved, not checked.
- `scgi_parser`: header lengths 0 to 3, a two byte prefix, a two byte body, all
  ways to cut them in pieces. `scgi_content`: 0 to 5 bytes in chunks of two, so
  that the last chunk is whole, partial or missing.
- `record_mutex`: three mutex addresses, more than the two threads can have at
  once; a device with two private IPv4 addresses and a private IPv6 one, so that
  a lookup passes entries and may find either of two, each announced with two
  names and ports, so that a mixture of two announcements would show.

`MaxPosts` and `MaxRestarts` bound counters in guards (`PostCommand`,
`Restart`); `MaxHeader` and `MaxLength` bound inputs.

### Fairness

- `ManagedDeviceArbiter`: weak fairness of the monitor (its sleep returns, an
  exchange ends or times out in Poco) and of the main thread's handler once
  begun. None for discovery and posting, which are the environment's. Mutexes
  are held for two statements, so a thread waiting for one is enabled in the
  end. Both properties except a dead monitor, which is finding 1.
- `ScgiRequests`: weak fairness of each thread as a whole. That suffices since
  a thread handles a finite number of events before it has nothing to do;
  nothing is assumed of clients or of the sessions with devices. `Answered` and
  `Released` name the threads that may be stuck.
- `ScgiRequestParser`: weak fairness of the sink; `ScgiContent`: of the loop
  and of the arrival of bytes that are to come, but not of the source's closing.

## Proofs

Every invariant and every action property of the passing runs is a theorem, for
all values of the constants that satisfy the modules' named assumptions, and so
are the refinements: five, of four abstract specifications. Nothing is assumed besides those.

`ManagedDeviceArbiter_proofs` (any set of devices, numbers other than 0; any
names; any number of commands):

- `TypeCorrect`: `Spec => []TypeOK`.
- `ServicesOnlyWhenOwned` and `StateInHandHolds`: `ServicePhasesOwned` is not
  inductive. The monitor commits a state it chose before, so what it has in
  hand must be covered: `InHandOwned` says that a service phase it read or is
  about to commit belongs to an owned device. That the state it read is still
  valid when it commits is `StateInHand`, which in turn needs that only records
  in the map are worked on (`MapInv`), because rediscovery keeps the state of
  those and of no others. `OwnedInv` is the conjunction, and inductive.
- `MonitorIsPrompt`: `WalkInv` says that the wait time honours every device
  before the walk's cursor, what `setNextMonitorState` was called with honours
  the device at the cursor, and that between its comparison and its assignment
  either is enough; the main thread can only set the wait time to 0.
- `CommandSentWhole`: `CommandInv` relates the command being executed to the
  one on record while nobody has overtaken it.
- `CommandsAreNotSleptOver`: `StartInv` follows a started command through the
  two threads' comparisons and assignments of the wait time until the sleep.
- `OnlyCommandsSendBack`: the action property `OnwardsUntilCommand`, from
  `StateInHand` and two facts about what the monitor is about to commit: it is
  nearer to a settled state than what the switch was entered with (`NearerInv`),
  and the switch was entered with a state the monitor acts on, which is kept if
  it is one to stay in (`ActedOn`). A command that came in between has the
  longest way of all.
- `CommandsLostByRaceOnly`: the action property `OnlyRacedCommandsLost`, from
  `RaceInv`: a command the switch has not seen, on the device in hand, was started
  in this walk or is being started, and then holds the mutex the commit needs.

`DeviceLifecycle_proofs`: `ArbiterImplementsLifecycle`. `LifeInv` adds to
`OwnedInv` what the monitor reads (`ReadingInv`) and where it may move a device
(`MoveInv`); `LifeStep` then shows that a step changes at most one device
(`OneMoves`, `NoneMoves`), and by a step of `DeviceLifecycle`.
`ArbiterKeepsOrder` is that it implements `ServiceOrder`, with an invariant about
what the monitor may be about to commit (`CommitInv`): the successor it chose
follows, in the order, the state the switch was entered with, or is no service
state. The commit may come after a command or a rediscovery, so it is compared
with what the switch saw and not with what is on record.

`ServiceMaps_proofs`: `SweepInv` says when marks are right during an update and
that an update that changed nothing leaves index and map in agreement;
`SweepsExactly`, `IndexAlwaysAgrees` and `PolledRightly` follow. `MappingsRight`
needs `MapInv`: a current device, at each stage between reading and polling, has
what was read, looked up or put (`DeviceRight`). `MapsKeepOrder`, that the stages
follow `ServiceOrder`, needs `SweepInv` for the stage an update was begun in and
`PutPending`: a device whose PUT is under way is still at that stage.

`DeviceRecord_proofs`: `MutexTypeCorrect` and `MutexRight`, by `MutexInv` (who has made, stored, holds
and awaits the mutex); a step of `DeviceRecord` is one of `RecordMutex` or leaves
it alone (`RecordStepsMutex`), so the theorems are about both. `AnnouncementsKept`
and `LookupsRight`, by `RecordInv`: entries are distinct, all but the one being
rewritten say what was announced last, the lookup has passed no entry it looks
for, and it copies from one of the right type that is not being rewritten.

`ScgiRequests_proofs`: `DescriptorsMatch`, by `Matched`, which gives the closed
descriptor's second close its place. `RequestHasOneOwner`, `AnswersArriveRight`
and `NobodyIsDropped` are consequences of `OrderInv`: each queue and each hand
holds an address at most once and no two of them the same (`Held`, `Once`,
`Apart`); a held record is alive and was read to its end (`Kept`); a descriptor
is open for one client that is there, and a hang-up in the events is that
client's, who had not sent its request (`Served`); an answer not yet sent is its
client's own (`AnswersRight`), and a client that got one is done (`Received`).
It is guarded by `Orderly`, which a behaviour leaves once and for good
(`StaysOrderly`). `NoWorkForgotten` needs, besides `DescriptorsMatch`, that a
descriptor is open only for a client that was accepted (`AttendInv`), so that
accepting one never finds it at another descriptor, whose events would be about
somebody else. `AnswersTold` is the conjunct about the answers.

`RequestService_proofs`: `RequestsImplementService`. Most steps of the threads
are stutters; what is to be shown is that `AcceptClient`, `CloseOnHangUp` and
`SendResponse` move one client, and by a step the abstract specification has in
that phase. In good order that follows from `OrderInv`; out of it only from
`Accepted`, which survives races and hang-ups: a descriptor is open for an
accepted client only, so nobody is let go twice. `AnsweredAtMostOnce` is that
`AnsweredOnce` then holds of the threads.

`ScgiRequestParser_proofs`: `QueuedWhole` and `NothingForgotten`, by what has been read (`ReadSoFar`)
and what of it was kept (`KeptSoFar`) in every receive state; that
a request which is there as a whole is not left for later rests on the parser
waiting only when it has read all there was. `ParserImplementsReader` has one
lemma for each way a turn can end: it goes on and nothing is seen (`ReadsOn`), it
leaves off (`LeavesOff`), which is a stutter if more came in meanwhile, or it
fails (`Fails`), which `FailStep` shows to be at the byte after the headers or at
one before it that has not come.

`ScgiContent_proofs`: `NothingLeftBehind`, by what the stream's state says of
the bytes moved (`StreamSays`); `StallsOnLateContentOnly`, because a good stream
has moved what it has taken and is never asked for more than is left.

Only model-checked: the liveness properties (`DiscoveredSettles`,
`CommandLeaves`, `Answered`, `Released`, `WholeRequestParsed`,
`ContentInTimeMoved`), which are out of the prover's reach, as is everything
about `ENABLED` and induction over recursive data. What is proved of them is the
part that is about steps: that each commit leads on (`OnlyCommandsSendBack`),
that only a part of a request fails (`ParserImplementsReader`), that only late
content stalls (`StallsOnLateContentOnly`), that no work is left without an event
(`NoWorkForgotten`, `NothingForgotten`); that the steps are taken is the fairness.
Also only model-checked are the four properties the code violates.

## Not modelled

- The components listed as such in the inventory: configuration, path
  registration and tokens run once, before the threads; JSON rendering reads and
  changes nothing.
- Data races on the links of `m_deviceMap` (A:1670): an insertion is atomic, and
  whether the walk meets it is decided by the ids. The race on the address list
  is modelled.
- What an answer says, the one of a device that is not known included (M:1006):
  an answer is the client it is for.
- Shutdown, because nothing reaches it; `RECOVERED` and `DISAPPEARING`, because
  nothing enters them.
- When a queue gets its event descriptor (P:331), which is the library's doing.

## Plan

Done: the modules above; the refinements of `DeviceLifecycle`, `ServiceOrder` (by
both the modules that have stages), `RequestService` and `RequestReader`; every
safety property as a theorem; descriptors across threads; addresses and their lookup.

Left, in this order:

1. Parser and content on one socket, so that the body begins where the header
   ended.
2. The contents of the REST answers, as far as they depend on the device's state.
