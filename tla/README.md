# A verification project for Mozart

Mozart implements Oz: a virtual machine with lightweight threads, logic
variables, computation spaces and garbage collection, libraries and a compiler
written in Oz, and transparent distribution. Distribution is the work of the
DSS (`platform/dss`), a middleware library of its own, and of the glue that
couples it to the virtual machine (`platform/emulator/libdp`). The protocols of
the DSS are where the hard behaviours of the system meet: messages between
sites, garbage collection while messages are under way, crashes and inquiries
about them. The second place where behaviour is hard to see by testing is the
tree of computation spaces inside the virtual machine, where threads suspend,
fail and move between spaces and the emulator must still know when a space is
stable. This project models both in TLA+, checks them with TLC on small
instances and proves theorems about them with TLAPS.

## Inventory

| Component | State | Operations | Hard behaviours |
|---|---|---|---|
| Migratory protocol (`protocol_migratory`) | proxy: token status, successor, request id, suspended threads; manager: chain, last proxy | access, kill, monitor, weak roots, 11 messages, site failures | forwards racing the token, deletion with messages under way, inquiry around crashed proxies |
| Pilgrim protocol (`protocol_pilgrim`) | proxy: token, ring and color state, successor; manager: ring, color | access, kill, weak roots, entering and leaving the ring, coloring | a token that circulates while the ring changes, colorings that cross |
| Invalidation protocols (`protocol_invalid`) | proxy: reader and valid bits, suspended reads and writes; manager: readers, number of valid ones, write requests | read, write, kill, monitor, 6 messages, site failures | readers that fail, leave or subscribe during an invalidation phase |
| Once-only and transient-remote protocols (`protocol_once_only`, `protocol_transient_remote`) | status, registered proxies, unanswered requests, who has the write token | bind, need, kill, export of references, collection | concurrent bindings, loss or departure of the proxy that may bind |
| Channel and immutable protocols (`protocol_simple_channel`, `protocol_immutable_*`, `protocol_immediate`, `protocol_sited`) | few flags | request/reply, state transfer | duplicated transfers |
| Protocol base (`protocols`) | failure and registration bits, registered proxies | register, deregister, kill, permanent failure | registration racing failure |
| Access architectures (`coordinator_stationary`, `coordinator_fwdchain`) | coordinator site, forwarding chain, unacknowledged messages | create, migrate coordinator, find coordinator | migration racing messages, lost coordinators |
| Reference consistency (`referenceConsistency`, `dgc_fwrc`, `dgc_rl1`, `dgc_rl2`, `dgc_tl`) | weights, reference lists, leases | send, merge and drop a reference | drops racing references in flight, leases racing renewals |
| Messaging layer (`msl_dsite`, `msl_comObj`, `msl_transObj`, `msl_prioQueues`, `msl_timers`, `mslBase`) | connection state, unacknowledged messages, timers | open, handover, close, probe, resend | crossing connection attempts, closing with traffic, retransmission |
| DSS threads (`dss_threads`) | global thread ids and mediators | create, resume, collect | stale references |
| Glue (`libdp`) | mediators of language entities, annotation, fault streams | entity operations, garbage collection, marshaling | callbacks during collection |
| Computation spaces (`board`, `board-bi`, `scheduler`, `thr_int`, `suspendable`, `trail`) | the tree of boards, counters of runnable threads, suspension lists, scripts, status | create, ask, inject, kill, choose, commit, merge; suspend, wake up, fail | stability while threads suspend outside, fail and are merged |
| Virtual machine, the rest (`platform/emulator`) | abstract machine registers, stores, heap | instructions, builtins, collection | collection of cyclic structures |
| Constraint systems, Oz libraries, compiler, tools | - | - | sequential |

Components interact by calls within a site (glue - abstract entity - proxy -
protocol - coordination - messaging layer) and by messages between sites; the
only callbacks from below are received messages and changes of a site's fault
state. A site is single threaded: every handler runs to its end.

What makes each component correct:

* state protocols: one authoritative state, no operation on stale state, every
  suspended thread eventually resumed or failed;
* reference consistency: a coordinator is not collected while a reference to it
  exists, and is collected eventually when none does;
* coordinator migration: a message to the coordinator reaches it once, or its
  loss is reported;
* messaging layer: FIFO delivery without loss or duplication until a permanent
  failure is reported;
* variable protocols: the sites agree on one value, every attempt to bind is
  answered, a need is known where the value is computed;
* computation spaces: a space is reported stable when and only when nothing in
  it can run, now or after a binding outside; no wake-up is lost.

## Modules

| Module | Models |
|---|---|
| `Network` | what the protocols see of the messaging layer |
| `Migratory` | the migratory protocol |
| `Pilgrim` | the pilgrim protocol |
| `MobileState` | abstract specification of a mobile state, implemented by `Migratory` and `Pilgrim` |
| `Invalid` | the invalidation protocols, eager and lazy |
| `Transient` | what the variable protocols share: variable mediator, references, base classes |
| `OnceOnly`, `TransientRemote` | the two variable protocols |
| `Decision` | abstract specification of a variable, implemented by both |
| `Weighted` | fractional weights |
| `References` | home and remote references with all four algorithms |
| `Connection` | the connection between two sites, over channels that break |
| `Spaces` | computation spaces and the scheduler |
| `MC...` | instances for TLC |
| `NetworkProofs` | lemmas about `Network` that the other proofs share |
| `MigratoryProofs`, `PilgrimProofs`, `InvalidProofs`, `ConnectionProofs` | theorems about these protocols |
| `TransientProofs`, `OnceOnlyProofs`, `TransientRemoteProofs` | theorems about the variable protocols, and what they share |

The protocol modules extend `Network`: the links carry the messages of one
entity, between its proxies and its manager at the home site. `Transient` and
`References` also send the references to the entity that travel in messages of
other entities. `Connection` is the layer below, whose links `Network` takes to
be reliable. `Spaces` is about one site and uses no network.

### Network

`chan[<<s, d>>]` is the FIFO link from `s` to `d`: the `ComObj` connection that
all proxies and coordinators of `s` share for messages to `d`, or, if `s = d`,
the queue of loopback events. The heart beat executes the loopback queue until
it is empty, in one sweep during which the site does nothing else; `draining`
is the set of sites in such a sweep, so a loopback message may be overtaken
before the sweep and not during it. A crash (`alive`) loses what was under way
to the site, and what it has sent may still arrive until the receiver is told
(`perm`, `FS_GLOBAL_PERM`), which drops the connection. `Sent` follows
`Site::m_sendMsg`: messages to a site known to have failed are deleted.
Assumptions: the messaging layer delivers in order and once until a permanent
failure; only crashed sites are reported as `FS_GLOBAL_PERM`. `FS_TEMP` changes
nothing in the protocols. `FS_LOCAL_PERM`, an explicit user action, is not
modelled.

### Migratory

A unique token, and the state of the entity with it, migrates among the
proxies. Variables are the fields of the C++ classes; every `case` of the two
`msgReceived` functions is an action, `Operation(p)` are the calls of the
threads and of the garbage collector, `SiteCrash`, `DetectRemote` and
`DetectHome` are failures. A handler is one step, the calls it makes included:
`GetToken` installs the state, resumes the threads and forwards the token or
reports it; at home `DetectHome` first notifies the proxy and then the manager,
as the tables do. Where the code follows a null pointer (a `MIGM_FAILED_SUCC`
from a proxy without successor, an inquiry on an empty chain) the site goes
down, which is what the build does: assertions are compiled out.

The coordinator is stationary, and the home site keeps it as long as there are
remote proxies (the promise of reference consistency). `DeleteProxy` and
`ImportProxy` are the garbage collection of a remote proxy that is no weak root
and the arrival of a reference at a site without proxy.

### MobileState

The state is at one site, moving to one, or lost for ever. `Migratory`
implements it with `at` the live proxies that may operate on the state and
`moving` the destinations of `MIGM_TOKEN` messages.

### Invalid

Every reader has a copy of the state; the manager performs the writes on the
copy of the home site after an invalidation phase. `copy[p]` is the number of
writes that the copy of `p` contains, which is what the properties tell apart.
`readers` is the list `a_readers`, in which a site may come to stand twice, and
`nvalid` the unsigned `a_valid`, which becomes `MaxUInt` when zero is
decremented. `CheckOperations` and `CheckOperationsOut` are the effect and the
messages of `m_checkOperations`, which several handlers call at their end; they
take the readers, the count and the requests as the handler has already changed
them. A thread that waits is counted (`reads`, `writes`): the first `a_numRead`
threads of `a_susps` are the reads. The constant `Lazy` chooses the variant.
`DeleteProxy` deregisters only a proxy that is registered for monitoring, as
`protocol_Deregister` does. Reads of a valid copy and operations on a failed
proxy change nothing and are not actions. Writes without a caller are made only
by relaxed mutable entities, which do not use this protocol.

### Pilgrim

The token circulates in a ring of proxies. A proxy that has not used it for
`a_freeRounds` rounds leaves the ring; one that wants it enters. `proxy[p]` and
`manager` are records of the fields of the C++ classes, and a handler of the
proxy is an operator from one such record to the next and the messages sent
(`Result`), because the handlers call each other: `gotToken` may leave the ring,
forward the token and start a color change in one step. A coloring goes around
the ring with a color of its own; a manager that gets it back light knows that
the token is lost, and proxies outside the ring that have not seen the color
that was completed are declared unreachable. Colors are compared by number: in
the code they wrap around at 2^29.

### Transient, OnceOnly, TransientRemote and Decision

`value`, `needed` and `waiting` are the variable of each site as its mediator
sees it. The value that site `p` tries to bind is `p`, so that disagreement is
visible. In `OnceOnly` the manager decides between bindings and the home proxy
binds at once; in `TransientRemote` the proxy with the write token decides, the
manager keeps every request until it is answered and sends all of them again
when the token moves. References are messages of their own (`Reference`); their
kind (`AUTO`, `MANUAL`, `TOKEN`) is the registration that
`marshal_protocol_info` put into them, and `m_initRemoteProt` acts on it when a
proxy is built. `Decision` is what both promise: an outcome per site that never
changes, and never two different values; failure may be seen beside a value only
after a kill or the crash of the home site. `history` records the events that
the properties depend on: a kill, the departure of a proxy, a `TOKEN` reference
that was `dropped` at a site with another proxy, and one that `crossed` the
deregistration of an earlier proxy of the site it was sent to. After a crossing
two proxies may hold the write token (`Decision.split`), and the manager may be
told of the end of a request that it no longer has; it then pops an empty queue
(`PopNothing`: a null pointer, the site goes down).

### Weighted and References

`Weighted` has the fractions of `dgc_fwrc`: a weight is a map from denominators
(as depths, the denominator is `MaxEnum^depth`) to enumerators; `InsertPair`
carries into the next larger fraction at `MaxEnum`, and `GiveFrom` splits a unit
when nothing else is left to give. `References` has the home reference and the
remote references of one entity. Both run the same set of algorithms, and an
entity is localized when one of them no longer makes the home reference a root.
Export, import, merge and drop of a reference call every algorithm in turn, as
`Reference` does, and each algorithm has its own operators for what it gives,
builds and answers (`RLV1Merge`, `TLHomeGive`, ...). Time is a counter: it may
not pass beyond a timer that is due, and a lease or a renewal takes at most
`MaxDelay` steps, which is the assumption under which leases are used. A lease
that is passed on is taken for younger than it is, by the delay of each message;
`DelayAssumption` says that the time left for a renewal covers this, as 65 seconds
do in the code.

### Connection

`conn[s]` is the `ComObj` with which site `s` talks to the other site, a record
of its fields and of its `PrioQueues`; the functions of the class are operators
from one such record to the next, named as in the code. A ComObj with something
to send asks the glue for a channel (`requests`, answered by `handover`); the
other site accepts it with an anonymous ComObj, which presents itself, learns
who the first site is, and takes the place and the queues of the ComObj that its
site has already, or closes the channel (`m_merge`). Each site then tells how
many messages it has received (`CI`), and the other sends the rest again
(`extractCI`). `chan[c]` is a channel: the frames on their way, and which ends
are open. A channel ends in order (`EndOfFile`: the frames that were sent are
read first) or breaks (`ChannelBreaks`: frames are lost in both directions); both
are what `SocketChannel` of `libdp/glue_ioFactory` makes of the results of `read` and
`write`. At the end of a channel `read` returns 0 and does not set `errno`, and
the channel is reported lost only if the `errno` of some earlier call classifies as
`EC_LOST`; otherwise nothing happens and the event loop reads again, so that
`EndOfFile` may be taken at any time or never. A frame may also be read in part
(`IncompleteFrame`): its acknowledgement is then taken each time.
`writeDataAvailable` writes one message per step, which is finer than the code.
A writer that is registered while nothing may be written is gone at once: the
event loop calls it before the next frame comes. The numbers of acknowledgements
and messages are small and never wrap; large messages, tickets and encryption
are left out. Frames that the state does not expect, and that the code answers
with a failure, do not arrive in any behaviour that was checked.

### Spaces

The emulator is one process, so the whole state is one record `vm` and every
function of the C++ code an operator on it; an action is a round of
`scheduler()`, in which the thread that is picked has its board installed, does
one thing, and is preempted, suspends, terminates or fails. `vm.crt`,
`vm.suspCount`, `vm.suspList`, `vm.status` and `vm.dist` are the fields of
`Board`. `vm.script[b]` is what `b` has told about variables above: the part of
the trail that belongs to `b` while it is installed, its script otherwise. The
variables are the root variable of each board, its status, and the choice of a
distributor; values are two atoms, enough for a conflict. Programs are
nondeterministic: a thread may perform any operation that its budget allows. The
choice of the next thread is arbitrary, as threads have priorities and are
preempted at any time.

## Runs

Every run bounds what threads, collectors and the environment start, never what
a handler does. Deadlock is not checked: a system in which everything is
delivered and the bounds are used up may stop. Sites are a home site and two
remote ones, in `Connection` two equal ones.

| Run | Shows |
|---|---|
| `migratory` | proxies deleted and imported again, or a kill, monitoring and a crash, fair: `ChainIsPath` (until a proxy is imported again, since its request ids then start from zero), `StateIsNeverLost` (as long as nothing is killed and nobody crashes), `SuspendedResume`, `MonitorsNotified` as long as the sites concerned are up, `HomeCrashResumes` when the home site is not |
| `migratory_crash` | up to two sites crash: types, `TokenUnique`, `ChainConsistent`, `ChainCoversToken`, `ForwardFindsNoSuccessor`, and the refinement `StateIsMobile` |
| `invalid_eager` | one crash, or a reader, monitoring or not, that is collected and imported again, fair: `WritesTracked`, `CountAmongReaders`, `WritesServed` (unless a reader left); until the crash or the departure `FaultFreeReadsAreCurrent` |
| `invalid_lazy` | one crash, or a kill with a monitoring proxy, fair: types, `ReadsServed`; until the crash `CountIsExact`, `NoWriteIsUndone` (nobody leaves here) |
| `transient` | both variable protocols, fair: they implement `Decision` (`Agreement`), every attempt to bind comes to an end (`BindSettles`), a need reaches the home site (`NeedReachesHome`), and the write token is only where the manager takes it to be (`TokenKnown`); each until a token crosses a deregistration, or is dropped where that matters |
| `pilgrim` | fair, with accesses, collections, kills or a crash: the refinement `StateIsMobile`, the manager's ring (`RingConsistent`) and the proxies' (`RingClosed`), the token is not lost without a cause (`LostOnlyIfDisturbed`), waiting threads resume (`WaitingResumes`) |
| `references` | every algorithm alone and two combinations, with and without a crash, fair: no localization while a reference exists (`NoDangling`, until the timer of a lease has been set again), conservation of the weight (`WeightConserved`), exact lists (`ListsExact`), and eventual localization (`Reclaimed`) |
| `connection` | both sites send while a channel breaks, or while connections without need are closed, fair: `WorkingAgree`, `WriterWaits`, `FifoUnlessBroken`; and, if no end of a channel stays unreported for ever, `QueuesDrain` |
| `spaces` | five kinds of programs with up to three spaces: `CrtExact`, `AskIsSound`, `AskIsAnswered`, `NoLostWakeup` |

Runs whose property TLC refutes, each a claim of the source or its
documentation:

| Run | Claim | What happens |
|---|---|---|
| `migratory_false_loss` | "closest non-failed successor" | the loop ends on the farthest one; a token that a live proxy holds is declared lost |
| `connection_loss` | "Resend/Ack msgs", and that only a permanent failure ends "reliable in order communication" | every frame acknowledges one message more than it says, each time its header is read; the first message that was unacknowledged when a channel broke is lost on the next one |
| `spaces_down` | `Space.ask` "waits until Space becomes stable or merged" | a downward merge copies the wrong suspension list; a space is stable for `Space.ask` although a binding above would wake a thread in it |

### Bounds

* `Migratory`: `MaxRequests` requests per proxy (two: the request id of the
  chain is older than that of the proxy), `MaxThreads` suspended threads,
  `MaxWeak` weak-root requests, `MaxKills`, `MaxImports`, `MaxCrashes`. Two
  remote sites make a chain with a first, a middle and a last element. In the
  run `migratory` a behaviour with a kill, a crash or a monitor has one request
  at each proxy and neither weak roots nor imports (`Separate`); only operations
  and crashes are held back by this, no step that is fair.
* `Invalid`: a writer, a reader that answers and one that has not answered yet
  (the home proxy is a reader too). Two writes are enough for a phase in which a
  second request arrives and for a second phase; `MaxUInt` is any number larger
  than the readers. Kills, monitors and departures are not combined with a crash
  or a second write (`Separate`).
* `Connection`: budgets with one or two messages of a site and a lost channel,
  and with messages of both, pings and two collections. Three channels are as
  many as ever exist at the same time.
* `Transient`, `Pilgrim`, `Spaces` choose one of several budgets in the initial
  state, each a mix of environment actions that is interesting together: two
  bindings and a crash, a need and a departure, and a second departure so that
  the write token crosses a deregistration; four accesses, which is enough for
  proxies to leave the ring and enter it again; two nested spaces that tell,
  wait and are merged, or three that fail. All actions together in one budget
  exceed what TLC can explore. `MaxThreads` of `Spaces` is large enough never to
  be used up.
* `References`: `MaxEnum = 3` and `Alpha = 2` instead of 2^27 - 1 and 10000, so
  that carries and splits occur within five exports; `MaxDepth` is never reached
  in them. `Lease`, `Update` and `MaxDelay` keep the order that the defaults
  have; `MaxTime` is two leases and some. Under leases alone three references
  are sent, two of them to sites that had one before, so that a lease is extended
  while its timer runs, and a reference comes back to a site that dropped it.

### Observations

Seen in the models while the properties were written, and stated here because
the properties above exclude them:

* Migratory: after two crashes a `MIGM_FAILED_SUCC` comes from a proxy without
  successor in the chain, against `Assert(p())` (`protocol_migratory.cc:184`); an
  `MIGM_OLD_SUCC` overtaken by a new request is ignored, so that the loss is never
  diagnosed (line 210, against the comment at line 61); `MIGM_NEED_NO_MORE` makes
  the home proxy ask for the token although it has already asked, against the
  assertion in `requestToken`; a proxy answers `MIGM_FAILED_PRED` while the token
  is on its way to it; a `MIGM_FORWARD` to a site known to be dead is obeyed.
* Invalid: a reader that has answered and then crashes is subtracted a second
  time (`protocol_invalid.cc:186`), so a write is performed while another reader
  is valid, against the comment at line 41, and a late `INV_COMMIT` in the
  loopback queue can undo it; a reader that is garbage collected during a phase
  never answers and the writes wait for ever (line 301, comment at line 53); it
  is still in `a_readers` when its site subscribes again, against the assertion
  in `m_register`. A monitoring reader that is collected and imported again gets
  the copy that was meant for the collected proxy; the deregistration of that one
  then ends the phase, and the write is performed while the new proxy reads the
  old state. A monitoring reader that subscribes during a phase is not counted,
  but its deregistration is discounted (line 186): the phase ends before the home
  proxy has answered, and an `INV_COMMIT` that is still on its way to it then
  overwrites a newer state, so `NoWriteIsUndone` also excepts departures. `ReadsServed` excepts a kill at proxies that are not
  registered, because `m_failed` tells nobody else, and `WritesServed` excepts a
  reader that left.
* Once-only: after a kill the home proxy still binds at once while the
  `PROT_PERMFAIL` of the manager is in its loopback queue
  (`protocol_once_only.cc:232`), so home sees a value where all others see a
  failure. A need registered between the manager's `OO_UPDATE` and the home
  proxy's is not passed on. A reference exported by home after the manager has
  failed registers its receiver at a failed manager. The deregistration of a
  collected proxy can overtake the registration in a reference sent to it.
* Transient-remote: the `PROT_PERMFAIL` with which the proxy with the token
  answers a kill is ignored by a home proxy that waits
  (`protocol_transient_remote.cc:349`); a `TOKEN` reference is disposed of at a
  site that has a proxy from another reference, and the token is lost with it:
  bindings and needs then wait for ever. A `TOKEN` reference and the
  deregistration of an earlier proxy of the same site can cross each other: the
  manager takes the token back while the new proxy receives it, so two proxies
  bind, to different values, against "the proxy that has the write token"
  (`protocol_transient_remote.hh:52`) and the comment "Don't care about the write
  token, the manager knows" in the proxy. Once there are two holders a
  `TR_UPDATE_REPLY` finds `a_requests` empty. The assertion `s == a_current` of the
  manager fails when the home proxy has sent `TR_UPDATE` to itself and gives the
  token away before the heart beat.
* Pilgrim: without any failure, a color change that overtakes changes of the ring
  declares the token lost (claim at `protocol_pilgrim.cc:96`); an older
  `COLOR_DONE` declares a proxy unreachable while its `ENTER` is under way (claim
  at line 70); a proxy that fails stays a weak root; `clearWeakRoot` lets a proxy
  leave the ring with threads suspended; `a_freeRounds` falls below zero. The last
  proxy, waiting to leave, can be declared unreachable by an older coloring; it is
  deleted and deregisters while the manager still has it in the ring, against
  `Assert(!a_ring.find(sender))` (`protocol_pilgrim.cc:175`) and "all proxies in
  the ring are in a_proxies" (`protocol_pilgrim.hh:70`).
* References: `TL_Remote::updateTimerExpired` asks for the next timer at the end
  of the lease, not `a_periodTime` before it (`dgc_tl.cc:126`, against
  `dss_enums.hh:212`). It happens when a second reference extends a lease whose timer
  runs; the renewal is then sent when the lease ends, and the home site localizes
  the entity while a proxy has it. `NoDangling` says nothing after such a step
  (`rearmed`), and fails without this exception; `RLV1` is not safe
  after the crash of the sender of a reference; `RLV2` alone never reclaims, as its
  remote reference starts with zero decrements (`dgc_rl2.cc:84`); with `alpha` 1 a
  weighted reference gives all its weight away; the weight of a crashed holder
  never comes back.
* Connection: the end of a channel may never be reported (`glue_ioFactory.cc:111`:
  `EINTR`, `EAGAIN`, `ETIMEDOUT` and `EHOSTUNREACH`, left in `errno` by any earlier
  call, do not count as a loss). A ComObj that works or negotiates then keeps the
  closed channel, and a site that opens another one is refused by it or waits on
  it for ever. So `QueuesDrain` is stated under `EndsReported`, and fails without it.
  Two sites that send `C_CLOSE_WEAK` at the same time both wait in
  `CLOSING_WEAK`, because it is answered only in `WORKING`
  (`msl_comObj.cc:557`), and what is queued is never sent. A ComObj that loses
  its channel in `ANONYMOUS_WF_NEGOTIATE` closes and does not open again, although
  a merge may have left it queued messages (`msl_comObj.cc:850`, against
  "Eventually we will have a channel" at line 357). After accepting a weak close a
  ComObj is `CLOSED` with a transport object, against `msl_comObj.hh:67`, so that
  `m_open` does nothing until the channel ends. `m_merge` swaps the queues and not
  the numbers that go with them, and its "Severe - connection in illegal state"
  is reached by an old ComObj in `ANONYMOUS_WF_NEGOTIATE`. `mt<C_FIRST` in `m_send`
  never holds, so `a_sentClearRef` is never reset.
* Spaces: a downward merge also leaves threads asleep on variables that are bound
  in the boards between, and enters the list of the destination into boards for
  which its variables are local, which are then never stable.

## Fairness

In `Migratory`, `Invalid` and `Pilgrim` fairness is weak fairness of the receipt
of each link's messages and of the detection of a crash: the event loop of a
live site reads all its connections and its heart beat executes the loopback
queue; broken connections are reported by the failure detector. In the variable
protocols and `References` it is weak fairness of all these steps together: each
message causes finitely many others, so no message waits for ever. In
`References` the collector's preparations, localization and the passing of time
are among them: the garbage collector runs again and again. Threads owe nothing,
and neither does the collection of proxies. In `Connection` it is weak fairness of
the timer, the writer and the reader of each channel, all served by the event
loop, and of the glue's answer to a request for a channel; a channel need not
break, and its end need not be reported: `QueuesDrain` assumes the latter in its
own formula. `Spaces` states no fairness: its
"eventually" is `AskIsAnswered`, an invariant, because the answer must be there
in the same step in which the space becomes stable.

## Proofs

For every set of sites and all bounds, from the assumptions named in the
modules (`Home` is a site, `NoSite` is not, bounds are natural numbers):

* `TypeCorrect`: `Spec => []TypeOK`;
* `TokenIsUnique`: `Spec => []TokenUnique`;
* `MigratoryIsMobile`: `Spec => StateIsMobile`, the refinement of `MobileState`;
* `ChainIsConsistent`: `Spec => []ChainConsistent`;
* `ChainCovers`: `Spec => []ChainCoversToken`;
* `ForwardFindsNone`: `Spec => []ForwardFindsNoSuccessor`;
* `NeverLost`: `Spec => StateIsNeverLost`;
* `ChainLeads`: `Spec => []ChainIsPath`.

`NetworkProofs` shows what the network operators do to the messages of a kind:
sending others keeps them unique, absent and on their links (`Keeps`, `Stays`),
sending one where there is none makes it unique on one link (`OnlyAt`), and every
step changes the number of them on a link (`OnLink`) by what it adds (`Added`) and
what it takes away. `MigratoryProofs` has one lemma per action. Most actions are
`Quiet`: they create neither a holder nor a token message. The others are a
`Departure`, a `Passage` or an `Arrival` of the token, which is where uniqueness
is needed: a proxy that has the token can only conclude that no message carries
it from the invariant itself. The inductive invariant `IInv` adds to `TypeOK`
and `TokenUnique` that an absent proxy has status `MIGT_EMPTY` and that the home
proxy is never absent (`AbsentEmpty`): without it the proxy that is created for
an imported reference could start with the token.

The chain of the manager is consistent only because of what is under way between
the proxies and the manager, so its invariant (`ChainInv`) is about queues: `On`
says that a message of some kind is on a link and none of another kind ahead of
it, `Two` that one is ahead of another. What matters of the link from a proxy is
what the manager will still hear, that is, what is ahead of the first
`MIGM_FAILED_PRED`, at which it gives the entity up. A proxy is `Flagged` when
the manager relies on it to pass the token on: it is `a_last`, a `MIGM_FORWARD`
is under way to it, it has a successor, or its `MIGM_FAILED_SUCC` is under way.
For each proxy (`SiteOK`) it is flagged for one reason only (`OneDuty`), which is
what makes the assertion of `MIGM_FORWARD` hold; a flagged live proxy is in the
chain (`Enlisted`) for its current request (`Current`), and its successor is the
next element (`Guided`), so that a `MIGM_FAILED_SUCC` of a live proxy finds an
element to remove, and that element has crashed; a proxy that asks has no duty yet (`Waiting`), and
its request carries its number (`Numbered`); a proxy that waits or has the token
is flagged (`Resting`, `TokenKept`, `OnDuty`), and the one with the token, or to
which it is under way, is in the chain even when it is not (`TokenKept`); and an inquiry only reaches a proxy
whose successor has crashed (`Inquired`). `Ordered` ties them together: a proxy
that is ahead in the chain of one that the token has come to (`Reached`) is not
flagged and does not have the token, so the elements that `MIGM_TOKEN_HERE`, `MIGM_OLD_SUCC` and a repeated
`MIGM_GET` remove are never needed again. All this holds while the home site
lives and the entity has not failed (`Able`); `Base` is the part that outlives
the manager. There is one lemma per action again (`...Chain`), and frame lemmas
for the proxies that an action does not concern (`IdleSite`, `ProxyFrame`,
`PopFrame`). TLC checked this invariant, on the instance of `migratory_crash` and
by simulation with four sites, before it was proved.

The last two are about behaviours without crashes and rest on a second invariant
(`Safe`, theorem `SafeInvariance`) on top of `IInv` and `ChainInv`. `Calm`: without
a crash none of the messages of an inquiry exists, and without a crash and a kill
the entity does not fail and no `PROT_PERMFAIL` is under way. `Somewhere`: in that
case the token is at a proxy or in a message. It cannot be dropped, because it is
only sent to a site that is in the chain and whose proxy is flagged, hence
present; the answer to `MIGM_NEED_NO_MORE` could overwrite a proxy that has the
token only if `Ordered` did not hold; and a proxy that has the token is neither
deleted nor imported again (`AbsentEmpty`). `Numbering`: as long as no proxy is
created a second time, the request id in a proxy's entry of the chain is at most
its `a_request` (`Behind`), and less once it has passed the token on (`Parted`). So
an entry with the current id is that of a proxy that still has to pass the token
on, and `Guided` gives the next element. TLC checked `Safe` before it was proved.

The theorems about the invalidation protocols hold for both variants, any set
of sites and all bounds:

* `InvalidTypeCorrect`: `Spec => []TypeOK`;
* `CountNeverWraps`: `Spec => []CountAmongReaders`;
* `EveryWriteIsTracked`: `Spec => []WritesTracked`;
* `ReadsAreCurrent`: `Spec => []FaultFreeReadsAreCurrent`;
* `CountExact`: `Spec => []CountIsExact`;
* `WritesStand`: `Spec => NoWriteIsUndone`.

That `a_valid` never wraps around is not obvious: the manager subtracts a reader
that crashes even if it has already answered, so the count can be lower than the
number of valid readers (see the observations). The inductive invariant
`CountPositive` says why it still stays in range: the count is zero only when
there are no readers, because `m_checkOperations` fills it up again in the same
step, and never while requests wait. A decrement with removal finds a reader,
hence a positive count. A decrement without removal happens only in the eager
variant, where the home proxy is always a reader, because it never deregisters
(`HomeStays`: no `PROT_DEREGISTER` is ever in the loopback queue) and the
manager never finds its own site crashed.

That no write is lost or performed twice is an equation between numbers: the
threads of a proxy that wait for a write are as many as its requests on the link
to the manager, in `a_requests`, and among the answers on the link back
(`Tracked`). It is kept by every step except those after which nobody waits for
the answer any more: `FailureCaused` says that a proxy fails only after the
manager or the home site has, `AbsentIdle` that a deleted proxy had no thread waiting, `FromHome` that
only the manager answers, and `Detected` that a site drops a link only when the
other end has crashed.

The last three are the coherence of the copies, and follow from one invariant
(`CInv`), which claims something only as long as no site has crashed and no proxy
has left. The state of a subscription is divided among `a_readers`, the proxy and
the messages between them (`Subscribed`): `INV_READ` is on its way only from a
proxy that is not in the list, or, lazily, one whose answer is ahead of it;
`INV_INVALIDATE` or its answer is on its way only during a phase, only to or from
a member of the list, and never both; a proxy that has the state or is being sent
it is in the list and, during a phase, still has its `INV_INVALIDATE` to come. No
such message is doubled, and none is in the wrong order on its link (`Orderly`).
So the members with an invalidation or an answer under way are those that
`a_valid` counts (`CountRight`), and when it is zero nobody has the state or is
being sent it, the home proxy included: the writes may be performed, and
`INV_COMMIT` then brings all readers the new state (`PhaseEnds`). `Fresh` says
that whoever has the state, or is being sent it, has the home site's. The list has
no site twice (`Injective`), so that sending to the list is sending to a set of
sites (`ToEachInjective`) and its length is a cardinality (`ListSize`). There is
one lemma per action (`...Coherent`), on lemmas that say what taking, posting and
mailing a message does to each of the five kinds (`Taking`, `Posting`, `Mailing`).
TLC checked `CInv` for both variants before it was proved.

`PilgrimProofs`, for any set of sites and all bounds:

* `TypeCorrect`: `Spec => []TypeOK`, the types of the records and of the messages:
  no handler meets a message that it does not know;
* `RingIsConsistent`: `Spec => []RingConsistent`;
* `PilgrimIsMobile`: `Spec => StateIsMobile`, the refinement of `MobileState`.

The ring of the manager has no proxy twice because a proxy enters it only when
it has left. That is a property of the order of its messages: what a proxy has
sent to the manager and the manager has not read alternates between entering and
leaving, starting from what the manager's ring says and ending at what the proxy
believes (`Alternates`), whatever colorings and failures do in between. The
refinement goes as for `Migratory`.

`OnceOnlyProofs` and `TransientRemoteProofs`, for any set of sites and any budget:

* `OnceOnlyAgrees`: `Spec => Agreement`, the refinement of `Decision`;
* `TokenIsKnown`: `Spec => []TokenKnown`;
* `RemoteInvariance` and `RemoteAgrees`: `Spec => []AInv` and `Spec => Agreement`,
  the refinement of `Decision` by the other protocol.

The first rests on messages that stay true (`Honest`): the value in a redirection
is the value of the home site, and a report of failure comes from a manager that
has failed. So every value is that of the home site (`OneValue`), and a failure
has a cause (`Justified`). The second has to show that the write token is not
doubled: one proxy has it or one reference brings it, to the site that the manager
takes for its holder, and no deregistration of that site is under way, until a
crossing has happened (`Exclusive`); and that it is not lost without a crash, a
departure or a dropped reference (`Kept`).

The refinement by transient-remote is harder than by once-only, because the value
is decided at any site and the manager learns it later. Its invariant `AInv` adds
to the one of the token what holds whatever happens to the token (`Basics`: bindings
carry a value, a proxy that knows the value is bound, the home proxy announces only
what it has bound) and, until a crossing, that there is one value, or none, that
makes sense of the whole state (`Sound`): the sites, the redirections and the
announcements have no other (`OneValue`); once there is one, no proxy has the token
unbound or is sent it (`NoBinder`), so that nobody binds a second time; before the manager knows it, only
the holder of the token does and no redirection exists (`Early`); its announcement
is on the link to the manager ahead of any deregistration (`Announced`), for
otherwise the manager would take the token back and give it away again after the
variable is bound; and without a kill and a crash of the home site the variable
fails only with the site that has the token, and only when no site knows a value
(`Excused`). Every action that says nothing about the value or a failure is
shown to be a `Lull`, from what its messages are not; the others have a lemma of
their own. TLC checked `AInv` on the instance of `transient`, and by simulation
with larger budgets, before it was proved.

`ConnectionProofs`, for any two sites, any number of channels and any budget:

* `TypeCorrect`: `Spec => []TypeOK`, which includes that `connectionLost` knows
  every state in which a ComObj has a channel;
* `WriterAlwaysWaits`: `Spec => []WriterWaits`;
* `WorkingAgrees`: `Spec => []WorkingAgree`.

Every operator on a ComObj has a lemma that says which ComObj it makes of which;
an action composes them, as the handler composes the functions. The only
assumption used about the constants is `SiteAssumption` (two sites, one of them
the smaller, and positive bounds).

`WorkingAgree` says nothing about a ComObj that does not work yet, so its
inductive invariant `AgreeInv` describes the whole handshake. `Proper` is about
one ComObj: each queue holds what belongs in it (`Sorted`), and the state tells
which messages of the handshake may still have to be written (`Staged`). `View`
is about one channel as both of its ends see it (`Ends`, which is `End` both
ways): while an end is anonymous nobody has answered on it (`Unknown`); a ComObj
that waits to be presented to is alone on its channel (`Presents`); one that waits
for the answer has said what it last received, and the other end, if it has
answered, counts from there (`Negotiates`); one that has answered finds
`INIT_NEGOTIATE` ahead of everything that counts (`Answers`, `Announced`); and
while both count, what one has sent is what the other has received and what is on
its way. `Together` is about two channels: the two ComObjs are never engaged on
different ones, where a ComObj is engaged when it works or will as soon as it
reads what is on its way to it. That is what the rule for crossing openings is
for: without it each site would keep its own channel. TLC checked `AgreeInv` on
the instances of the connection runs before it was proved.

Only model-checked: `RingClosed` and `LostOnlyIfDisturbed` of `Pilgrim` and
`FifoUnlessBroken` of `Connection`, which needs the order of every queue, the
unacknowledged messages and the channel together; everything about `References`, whose conservation laws are sums over sets and recursion over
fractions, and about `Spaces`, whose operators are recursive over the tree of
boards; and all liveness, which is out of the reach of the prover.

## Plan

The models that are left:

1. `FwdChain`: migration of the coordinator; messages of one proxy reach the
   manager in order and once.
2. The channel and immutable protocols.

Then the safety properties of `Pilgrim` and `Connection` that are only
model-checked so far.

## Not modelled

* Manager migration (`sendMigrateInfo`) in the protocols: it is used only by the
  forwarding chain, which is in the plan.
* In `Spaces`: propagators and their queue, non-monotonic propagators, cloning,
  the commit of ranges, `Space.choose` at the top level, stopped threads, bindings
  between two variables, garbage collection and the debugger.
* In `Connection`: hard closing, which nothing starts, encryption, routed
  connections, and messages sent in several frames.
* The encoding of messages, `msl_crypto`, most of the DSS interface: sequential
  code without protocol state.
* `dss_threads` and the mediators of entities other than variables: the threads
  and the garbage collector of a site are the environment of the protocols, which
  may call any operation at any time.
* The rest of the virtual machine (scanner and parser, which are generated, builtins,
  instruction dispatch, memory), the constraint systems, the compiler, the Oz
  libraries and the tools: more than nine tenths of the repository's lines, and
  sequential programs over data whose properties TLC cannot tell apart on small
  instances. The models therefore cover a small share of all lines, and the
  larger part of the protocol code of the DSS.
