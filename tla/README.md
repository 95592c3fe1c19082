# Verification of linkmgrd

linkmgrd runs on each of two top-of-rack switches (ToRs) that share a rack of
servers over dual-homed cables. For every cable it decides which ToR forwards:
it probes the server with ICMP heartbeats, watches the state of the cable's mux
and of the port's link, and asks orchagent or xcvrd to switch or to probe the
mux. This directory models the parts of it that are hard to test, model-checks
them with TLC and proves theorems about them with TLAPS.

File names below are relative to `src/`.

## The system

### Inventory

| Component | State | Operations | What is hard |
|---|---|---|---|
| **Active-standby link manager** `link_manager/LinkManagerStateMachineActiveStandby.cpp` | composite state (prober, mux, link), cause of the last wait, component-init bits, default route, label, last direction requested, postponed mode, retry counters, three timers | notifications from the databases, reports of the sub state machines, expiries, commands of the peer; a table of transition functions indexed by composite state | handlers that post handlers, timers whose completions are already queued when they are cancelled, two copies of every state, postponed configuration |
| **Sub state machines** `mux_state/`, `link_state/`, `link_prober/*State.cpp` | current state and its event counters | process an event, be forced into a state | the composite state learns of a move only later, or never if it was forced |
| **Software link prober** `link_prober/LinkProberSw.cpp`, `LinkProberBase.cpp` | sequence numbers, suspend and shutdown flags, deadline and suspend timer | send, receive, time out, suspend, resume, shut down, restart | runs on a strand of its own while the port's strand suspends and shuts it down by direct calls; wrapping numbers |
| **Hardware link prober** `link_prober/LinkProberHw.cpp` | sessions, who the peer is and how it probes, suspend and shutdown flags, four timers | create and delete sessions, apply their states, suspend, resume, shut down, restart, follow a peer in software | a suspension ends in three steps on two strands; sessions are told apart by their type only |
| **Active-active link manager** `link_manager/LinkManagerStateMachineActiveActive.cpp` | as above plus the peer's mux and prober state, what the last notice and probe said, five timers | as above over gRPC; set the peer's half of the card, probe periodically, hold handlers until activation | every switch and probe may fail; handlers that run again after activation |
| **Mux port** `MuxPort.cpp` | the sub objects of a port, its strand | turns words into labels, posts each notification to the strand | order of notifications, of creation and of activation |
| **Mux manager** `MuxManager.cpp` | map of ports, cable types, routes, warm restart count and timer | create ports, pass on what concerns one or all of them, reconcile after a warm restart, start and end the process | a port created after a broadcast; a count that is raised and lowered by different threads; barriers |
| **Database interface** `DbInterface.cpp` | tables, barrier, the warm restart flag | read the configuration, subscribe and dispatch, write states, sessions and metrics | its own thread and strand; order across tables |
| **Configuration** `common/MuxConfig.h`, `MuxPortConfig.*` | intervals, retry counts, mode | getters and setters | written by one thread and read by others |
| **Framework** `common/State*.cpp`, `AsyncEvent.h` | current state | set the state, reset its counters | |
| **Netlink, logging, main** | | | pure I/O |

### How the parts interact

One `io_service` is run by several threads. Each port has a strand, on which its
link manager and the sub state machines run one handler at a time; each prober
has another. Notifications (CONFIG_DB mode, APPL_DB and STATE_DB states, xcvrd's
answers, route states) come from the database thread and are posted to the
port's strand. The link manager calls the prober directly (suspend, shut down)
or posts to it (send a command); the prober posts heartbeat events to the
port's strand, where its state machine counts them and posts a report of a
change to the link manager, on the same strand again. A completion posted to a
strand is ordered with respect to nothing that another thread or a timer posts,
so the models keep the waiting handlers in collections without an order.

### What makes it correct

* Active-standby: every copy of a state catches up; a port that waits is not
  forgotten; a port whose prober and mux disagree looks again; what STATE_DB
  says is so; heartbeats stop exactly without a route; the operator's mode holds
  and a postponed one is executed; the peer is told only when it must be.
* Prober: what is reported is what was heard; a verdict changes exactly after
  enough equal events in a row; silence is detected, a suspension ends.
* Hardware prober: sessions are those that should exist; verdicts follow the
  server and the peer in the end.
* Active-active: as active-standby, and, closed with orchagent, ycabled and the
  card: a port that can forward comes to, one that cannot stops, and the
  operator is obeyed, whatever fails on the way.
* Process: ports are built as configured whatever mentions them first; what the
  databases say last is what the ports were told last, and the other way round;
  a warm restart leaves every port in auto; a signal ends the process.
* Both ToRs of an active-standby cable together: if either can forward,
  eventually one does, and not both. (Not modelled yet.)

`PROJECT.json` lists the hazards behind these, each at its line, with the
properties that would catch it or why none does yet.

## Modules

| Module | What it is |
|---|---|
| `LinkManagerActiveStandby` | the link manager of one active-standby port with its sub state machines |
| `MCLinkManagerActiveStandby` | its instances for TLC, one per `as_*.cfg` |
| `LinkManagerActiveStandby_proofs` | type correctness and coherence |
| `ActiveStandbySafety_proofs` | its other seven properties; EXTENDS the module before |
| `SubStateMachines` | the machines of the mux and of the link, with their counters |
| `LinkManagerActiveActive` | the link manager of one active-active port; EXTENDS `SubStateMachines` |
| `ActiveActiveLoop` | composes it with the tables, orchagent, ycabled, the server's card, the wire and the operator |
| `MCActiveActiveLoop` | the instance for TLC, and the machines of `SubStateMachines` against a definition by streaks |
| `LinkManagerActiveActive_proofs` | six invariants of the active-active port |
| `ActiveActiveLoop_proofs` | the same invariants in the closed system |
| `IcmpPacket` | the heartbeat: its checksum, kept up to date, and its TLVs |
| `LinkProber` | the software prober and its state machine, two strands; EXTENDS `IcmpPacket` |
| `ProberVerdict` | the abstract promise of the state machine to the link manager |
| `MCLinkProber` | instances of `LinkProber` for TLC, one per `prober*.cfg` |
| `LinkProber_proofs` | type correctness, the sequence numbers, the checksum, and the refinement of `ProberVerdict` |
| `LinkProberHw` | the hardware prober and the active-active state machine, two strands |
| `MCLinkProberHw` | its instances for TLC, one per `prober_hw*.cfg` |
| `LinkProberHw_proofs` | type correctness and two properties of the sessions |
| `MuxPort`, `MuxManager` | a port and the manager of the ports, as operators on records |
| `Linkmgrd` | the process: main thread, database thread, workers, strands, tables; EXTENDS `MuxManager`, which EXTENDS `MuxPort` |
| `MCLinkmgrd` | its instances for TLC, one per `manager*.cfg` |
| `Linkmgrd_proofs` | type correctness and the two invariants of the process |

### LinkManagerActiveStandby

The C++ object is one record `lm`, whose members are listed in the module beside
those of the class. A method is an operator from the record to the record it
leaves behind; an action applies the whole handler, the calls it makes composed
as the code composes them (`handleMuxStateChange` takes the event off the
strand, copies the state, calls the transition function, executes a postponed
mode, publishes the label). `lm.posted` counts the handlers waiting on the
strand, `lm.armed` holds the timers with a wait outstanding; the suspend timer
and the shutdown flag of the prober are members because the link manager calls
it directly.

* Durations are abstracted: an armed timer may expire at any moment, and its
  expiry is a handler on the strand like any other, which a later cancel does
  not take back. The backoff factors only stretch durations and are left out.
* The prober is `ProberDetects(l)`: it may come to any state it can report, at
  any time and any number of times. That is what `ProberVerdict` allows; that
  the prober does no more is shown in `LinkProber`.
* mux and link retry counts are 1, the value `MuxConfig` gives them, so one
  report moves those machines.
* A port is created with the server's address first, which is what the
  notification order of CONFIG_DB gives; everything else may arrive before the
  port is activated, and the handlers without a guard on `mComponentInitState`
  have none here.
* `PeerCommandSent` is the cause of the switch command to the peer, which the
  handler only reports.
* `lm.request` records what orchagent was asked for in the last step and exists
  for the properties only.

Action properties are conditioned on `Initialized`: while the components report
for the first time the code does not execute what is pending, and
`activateStateMachine` decides afresh from the state it finds.

### LinkProber

Variables bear the names of the members. `posted` holds the heartbeat events
that wait on the port's strand, `suspendDone` the completions of the suspend
timer that wait on the prober's, successful or aborted. `handleTimeout`,
`handleIcmpPayload`, `handleSendSwitchCommand`, `detectLink` and
`handleSuspendTimeout` are handlers of the prober's strand; `suspendTxProbes`,
`resumeTxProbes`, `shutdownTxProbes`, `restartTxProbes` and `enterState` are
calls from the port's strand, which run at any moment between them.
`processEvent` is the state machine. `heard` is a history variable: who was heard
since the last heartbeat was due. `count` holds the counters of the present
state; a state that is left loses them when it is entered again.

`mSuspendTx` and `mShutdownTx` are plain members written from two strands. The
model writes them atomically and one call at a time. The one further
interleaving this hides, an aborted completion that runs before `suspendTxProbes`
has set the flag, ends in the very state in which that second call was made.

The buffer that is sent is modelled by `IcmpPacket`: the TLVs behind the payload,
the sum of all words (`mIcmpChecksum`), which `updateIcmpSequenceNo` raises by one
instead of computing it, and the checksum that is its complement. `Content` is
the sum of the words that do not change, with and without a command. The code
folds the carries of 32 bits in at the end, the model each at once;
`FoldedAtOnce` in `MCLinkProber` says that this is the same. The 32 bits
themselves overflow after 2^32 heartbeats without a command, some ten years,
and are not modelled.

Left out: statistics of lost packets and the interval of 10 ms after a switchover
(whose timer, aborted by being armed again, ends the interval early as the
suspend timer does, `LinkProberSw.cpp:302`).

### LinkManagerActiveActive and ActiveActiveLoop

The same form: the object is the record `lm`, whose members are listed with those
of the class, a method is an operator from record to record, an action applies
the whole handler. `lm.out` is what the handler asked of the databases and of the
prober, for the composition and the properties. Handlers that
`handleMuxConfigNotification` registers with `mWaitStateMachineInit` are in
`lm.registered` until the activation posts them. `lm.psm`, `lm.peerPsm`, `lm.mux`
and `lm.link` are the machines that report; `lm.ps`, `lm.ms`, `lm.ls` and
`lm.peerPs` what the link manager has heard of them.

`ActiveActiveLoop` closes the port. A table is a slot with the newest value, as
`swss::Table` and `SubscriberStateTable` give it, which orchagent, ycabled and the
database thread read in their own time. What orchagent, ycabled and the
card do is external, and so are faults: a switch that fails with the card in
either state, a probe that fails or is answered with a lost connection, the
peer's takeover of this ToR's half, a slow answer that timers overtake, and
changes of server, peer, link, route and mode. `MaxFaults` of them happen in a
run, at any moment. The handlers of the strand run at once (`Backlog = 0`):
with two of them waiting, reports of the link overtake each other, and a port can
be left in the state of the older one (`:256`), as the executor could in principle
do; the theorems about `LinkManagerActiveActive` need no such bound.

### LinkProberHw

The prober writes ICMP_ECHO_SESSION_TABLE of APP_DB and reads the same table of
STATE_DB; `session` is what the hardware makes of each entry, `notice` what the
prober has not read yet. The prober's strand runs completions and packets, the
port's strand the state machine, which calls the prober directly. Every handler runs
whenever it has something to run on, as in the code, so the model has what the code
does not guard against, and the properties say how far that goes:

* `updateEthernetFrame` (`:421`) renews the session that sends while heartbeats are
  forbidden. `OnlyNewAddressBreaksSilence` says that nothing else starts it then.
* Notices that arrive while heartbeats are forbidden are dropped (`:234`), and a fall may
  meet the sign of life it should cancel (`:195`, the run `prober_hw_flap`). A peer in
  software that keeps the name it had in hardware, or never was in hardware, has no
  deadline (`:548`, `:107`): its guid is made of two addresses (`LinkProberBase.cpp:704`),
  so `PeerRestarts` may keep it. What comes true in the end is then another thing, so
  `VerdictFollowsServer` and `SilentPeerIsNoticed` have these cases as premises of the
  form `[]P`: behaviours in which they happen are explored and promise nothing.
* A command that is read before the hardware has seen the peer changes the peer's name
  and not the session (`:548`), which `PeerSessionMatches` does not survive. A command is
  sent by a peer whose heartbeats run, so the constant `EarlyCommands` says whether it
  may come first.

### MuxPort, MuxManager and Linkmgrd

A port is a record: what it needs to be activated, mode, addresses, the last
argument of each handler and the handlers on its strand. What the handlers do
otherwise is in the modules of the link managers. `MuxManager` finds or creates
ports and passes on. `Linkmgrd` has the threads: the main thread (`main`), the
thread of the databases (`swss`), which reads the configuration in the order of
`DbInterface::handleSwssNotification` and then takes up notifications, the workers
that run strands and the timer of a warm restart, and the handler of a signal
(`stopper`), which meets the database thread at two barriers. A notification
carries no value; the table is read when it is taken up. What the link managers
ask of the databases is any sequence of `Requests`, carried out by the handlers of
the database strand. A prober reads the interval and asks for its session in two steps
(`readInterval`, `createIcmpEchoSession`), between which the interval may change. A
notification may be taken up as soon as the ports exist, before the main thread has
stored the options, and a mode is taken up whatever older one waits for the activation.

### ProberVerdict

A verdict and one streak of events that speak against it. Events confirm the
verdict, lengthen or replace the streak, or end it by a decision, which is
reported; forcing a verdict is not reported. `LinkProber` implements it with
`verdict <- state` and `streak <- StreakOf(count)`, which turns the counters the
four states reset selectively into that one streak. `reports` is a parity: it
tells a step with a report from one without.

## Runs

| Run | Checks | Shows |
|---|---|---|
| `as_failover` | `CompositeCoherent`, `DriverWaitIsWatched`, `DisagreementIsWatched`, `LabelAccurate`, `MismatchIsReconciled` | a port in auto with a route under all heartbeats, link changes, answers and expiries |
| `as_operator` | `TypeOK`, `ShutdownMatchesRoute`, `OperatorHoldsDirection`, `PendingIsExecuted` | mode, route, peer link and peer commands at any moment |
| `as_route` | `NoSwitchToActiveWithoutRoute` | violated, see below |
| `as_mode` | `NewestModeWins` | violated, see below |
| `as_late_timeout` | `TimeoutMeansNoAnswer` | violated, see below |
| `prober` | `HeartbeatsIntact`, `SequenceMeansHeard`, `KeepsVerdict`, `SilenceIsDetected`, `StopIsEffective`, `SuspensionEnds` | the software prober on two strands with loss, commands, suspension and shutdown |
| `prober_suspend` | `SuspendedWhileTimerRuns` | violated, see below |
| `prober_hw` | `TypeOK`, `OnlyNewAddressBreaksSilence`, `PeerSessionMatches`, `VerdictFollowsServer`, `SilentPeerIsNoticed` | the hardware prober with a server and a peer that fail, return, restart under any name and change how they probe |
| `prober_hw_flap` | `CancelledTimerIsSilent` | violated, see below |
| `aa_loop` | `TypeOK`, `CompositeCoherent`, `WaitEnds`, `LabelAccurate`, `ShutdownMatchesRoute`, `OperatorHoldsDirection`, `Recovers`, `Yields`, `ObeysOperator` | an active-active port with everything around it and two faults at any moment |
| `manager` | `BuiltAsConfigured`, `PortsAndDatabasesAgree`, `AutoAfterWarmRestart`, `SignalEndsProcess` | the process with one port of either cable type, cold or in a warm restart, two changes, requests or a signal |
| `manager_mode` | `ModeIsCurrent` | violated, see below |

Every property of the passing runs has a mutant, a plausible bug in one
definition that stands beside it in the module with the bug in its name; TLC
finds the property violated with it.

### Bounds, and why they are enough

* `MaxPosted = 2`, `MaxCopies = 1` (`as_*`): at most two different handlers wait
  on the strand at once, each once. The races the properties are about take a
  report and a completion, or a completion and the answer that should have
  cancelled it. Further handlers only add steps between those two, and the
  theorems hold for every number.
* `NegativeRetry = 1` (`as_*`), and no answer of xcvrd that leaves the direction open: the
  retries of such answers are compared with the limit, and the theorems, among them
  `DisagreementIsLookedAt`, hold for every limit and every answer.
* The sets of reports differ per run so that each stays small and meets the
  events it is about. `as_operator` takes the modes auto, manual and standby;
  mode active is the one of `as_mode`. The run of
  `DisagreementIsWatched` leaves out the two notifications after which it does
  not hold and nothing says that it should (hazards at lines 765 and 972).
* `PositiveRetry = 2`, `NegativeRetry = 3`, `SeqModulus = 3` (`prober`): counters
  with a value strictly between none and the limit; sequence numbers that wrap
  within one verdict and a modulus that tells "before", "now" and "next" apart.
* `MaxPosted = 2`, `MaxDone = 2`, `MaxOwn = 1` (`prober`): two events that may be
  processed out of order, two completions of either kind, one echo on the wire.
  Received heartbeats leave room for the one event a deadline may have to post,
  so a bound never stops the deadline for ever.

* `MaxFaults = 2`, `Backlog = 0` (`aa_loop`): no report is ever queued while another handler
  runs, so what `CompositeCoherent` is checked for here are states forced by handlers; the
  order of queued reports is the theorem's (`Coherence`). A fault and a second one while the
  port recovers from it. Each reaction of the port (switch, failure, probe,
  switch again) is shorter than the distance the run can put between two
  faults, so a third meets a port that has been met before. Retry counts are
  the program's own, 1; `MCActiveActiveLoop` compares the machines with the
  definition "the last streak that was long enough decides" for counts up to 3
  and every sequence of up to 5 events.
* `PositiveRetry = 1`, `NegativeRetry = 2`, two names, `MaxChanges = 2` (`prober_hw`):
  a verdict that takes one and one that takes several events; a peer with a past;
  a suspension and whatever else may be asked during it. `MaxPosted = 1`, `MaxDone = 1`: each
  event and each completion waits at most once, but all of them together, so their
  orders differ. `EarlyCommands = FALSE` leaves out what is described above.
* `MaxChanges = 2`, 1 in a warm restart, `MaxQueue = 2` (`manager`): the start, with
  its seven reads and the ports it creates, interleaves with the workers and the
  timer in any way; then two notifications, a notification and a request, or
  either and a signal. Every table has a key of one of the two ports: the ports
  do not share state but for the manager's. The run begins with mode manual, the
  one a warm restart has to change. A port without mux cable (`Strangers`) is left
  out. Keys change once the main thread has stored the options (a bound in `Change`:
  what has changed earlier is what the tables hold at the start). The notifications of
  the start may be taken up before, as in the code: a route that is `na` and read by
  then is passed on as `OK`, which `PortsAndDatabasesAgree` allows for a route that has
  not changed since. `manager_mode` has one active-active port and the three keys that
  activate it and set its mode, which is all that its counterexample needs.
  The run has a VLAN address when cold and none when warm. Without one, asking
  for the VLAN's address as source (`src_mac`) gives heartbeats the source
  00:00:00:00:00:00; the run leaves that combination out.

### Fairness

The active-standby link manager's specification has none and no liveness property is stated
of it: what it promises depends on orchagent, xcvrd and the peer answering,
which is for a closed model of two ToRs. The software prober's has weak fairness of the deadline
(re-armed by each expiry and cancelled by nobody), of the suspend timer's
expiry and of every handler on either strand: the `io_service` runs what is
queued and its timers expire. Nothing is assumed about heartbeats, their loss or
what the link manager calls. The leads-to properties therefore put their
conditions on the world into `outside`: `Cut` (nothing is received any more) and
`Stop` (heartbeats stay shut down) can happen or not, at any moment.

The hardware prober's has weak fairness of the handlers on both strands, of the
timers, of the hardware's detection and of the notices, and of the peer's packets
while server and peer answer. Liveness is conditional on what the world
becomes for good (`<>[]`), never assumed of it.

`ActiveActiveLoop` and `Linkmgrd` have weak fairness of `System`, the disjunction of
all that the process, orchagent and ycabled do: something of it happens while
something can. This is less than fairness of each action. Timers are periodic,
so a run in which only they act is a fair one; the properties hold for
those as well because a timer only overtakes an answer when a fault (`Slow`) lets
it, of which there are `MaxFaults`. World, operator and signal have no fairness.

## What disagrees with the code's own words

* **A port without a default route may switch to active** (`as_route`). The
  document on default routes says it should not; the peer's switch command and
  the switch after unanswered probes do not look at the route.
* **A postponed mode outlives the one that replaced it** (`as_mode`). An auto or
  manual that arrives while the mux is in Wait is applied at once and leaves the
  older postponed mode pending.
* **A wait timer that expired just before the answer still hands the mux over**
  (`as_late_timeout`). The handler looks at the cause of the last wait and not
  at whether the port still waits.
* **A second suspension is not one** (`prober_suspend`). Arming the suspend timer
  anew aborts the first wait, and its handler, which runs later, clears the flag
  that the second call has set. The link manager does suspend twice: the
  prober goes from Unknown to Active and back, the report of Active is delivered
  when the machine has left it again and is dropped, so nothing resumes.
* **A cancelled positive probing timer acts** (`prober_hw_flap`). Its handler does
  not look at the error code, so a session that falls within an interval of its
  rise posts a sign of life after the verdict Unknown, and the port takes the
  server to answer until the next change of the session.
* **An older mode replaces the newer one** (`manager_mode`). An active-active port that is
  told a mode before it is activated takes it at once and handles it again after the
  activation, behind a newer mode that was told or was waiting meanwhile. No
  notification follows, so the port stays in the mode that was replaced.

Three more were met in `LinkProberHw`. No run is about them: properties that pass name
them in an action or a premise, described above.

* **A new address starts heartbeats that are forbidden.** `updateEthernetFrame`
  (`LinkProberHw.cpp:421`) looks neither at the suspension nor at the shutdown, whose
  comments (`:334`, `:368`) say that sending is suspended and stopped.
* **Some peers in software have no deadline.** One that keeps the guid it had in hardware
  is never given the timer, and what is said of one that never was in hardware is
  ignored by `handleTimeout` (`:548`, `:107`), so that the silence of either is not
  noticed. The comments (`:135`, `:97`) promise a timer for software peers.
* **Notices are dropped while heartbeats are forbidden** and not read again (`:234`); the
  comment (`:227`) says that they are handled.

`PROJECT.json` quotes the lines.

## Proofs

**`LinkManagerActiveStandby_proofs`.** `TypeCorrect` (`Spec => []TypeOK`) and
`Coherence` (`Spec => []CompositeCoherent`), for all sets of reports, retry
counts and bounds, from `ConstantsAssumption`. `CompositeCoherent` alone is not
inductive: it indexes `posted` with the state of a sub state machine, and only a
state a machine can report is an index, so `IInv` says as well that a machine
that differs from its copy is in such a state. Nearly every handler is a
composition of the same methods, so the proof is about a relation: `Kept(s, t)`
says that in `t` each component is as in `s` or equal in both copies and that no
handler left the strand. Each method keeps, `Kept` composes as the calls do, and
only the steps that move a sub state machine or take its report off the strand
have an argument of their own.

**`ActiveStandbySafety_proofs`.** The other seven: `WaitIsWatched`,
`ShutdownFollowsRoute`, `LabelIsAccurate`, `DisagreementIsLookedAt` are invariants,
`MismatchReconciled`, `PendingExecuted` and `OperatorHolds` action properties, from
`ConstantsAssumption`. Each of the four invariants is strengthened to a predicate
of an object:

* `Watchful` lists what may be on its way while the mux waits;
* `Matches` adds that without the feature no route is missing and that heartbeats
  run until the activation, which need not look at the route for that reason;
* `Labelled` is `LabelAccurate` of any object;
* `Looked` says which thing looks at the mux again in which state. A probe timer whose
  expiry would not probe, the end of a suspension that would find another
  state and a report that is dropped as stale do not count.

The relation `Effect(s, t)` is what a method may do that neither takes a handler off
the strand nor moves the mux but to Wait nor changes the configuration. It
composes, so that a handler is an effect after its report was taken, and
only the reports of the mux, the modes, routes and the activation have an argument of
their own. The core is `TransitionFunctionEffect`: whichever entry of the table
runs, and whether or not anything looked before, the state it leaves is `Looked`.

Two theorems have a hypothesis on the constants. `LabelIsAccurate` assumes
`LabelPublished`, that there is the default route feature or the peer's link does
not go down: without the feature a port that has had no route report puts
its prober in Wait then and does not publish the label (`:765`), so the invariant
itself is false. `DisagreementIsLookedAt` assumes `NothingBlinds`, which excludes the two
notifications that `as_failover` leaves out as well.

**`LinkProber_proofs`.** `ProberTypeCorrect`, `MatchMeansHeard`,
`HeartbeatsLeaveIntact` and `ImplementsVerdict` (`Spec => KeepsVerdict`), for all
retry counts, widths of a word, contents of a packet and bounds, from
`LinkProberAssumption` and `IcmpPacketAssumption`. That numbers match
exactly when something was heard needs that the next number differs from the
present one, which is where the modulus must exceed 1. The refinement needs
`OneStreak`: at most one counter is positive and none for the event that
confirms the state. With it, the counter of the next event and the length of
the abstract streak agree (`CountIsLength`), and each entry of the four tables
either confirms or satisfies `EstablishesKeeps`, whose condition is that the
counters the entry does not reset hold nothing. Dropping any of the resets
fails there. `HeartbeatsLeaveIntact` rests on lemmas about
`Plus`, addition with an end-around carry: it is associative on the sums that
occur, adding one per heartbeat yields the sum of the packet with the next
number, wrapped or not, and a word and its complement make all ones.

**`LinkManagerActiveActive_proofs`.** Six theorems `Spec => []...`: `TypeOK`,
`CompositeCoherent`, `WaitEnds`, `LabelAccurate`, `ShutdownMatchesRoute` and
`OperatorHoldsDirection`, for all sets of reports, retry counts, with and without
the default route feature, and any number of handlers on the strand, from
`ConstantsAssumption` and `RetryCountAssumption`. None is inductive alone, and the
handlers are compositions of the same methods, so there are two relations. `Kept(s, t)`
carries the type, `Coherent`, `Covered` (`WaitEnds` with the completions that
cancelled timers leave behind), `Directed`, `Resyncs` and `Matches` from a record to
the one a method leaves; `Shown(s, t)` carries `Published`, which says that the
label is the one of the state unless the method's caller publishes it before it
ends. Every method keeps; a handler is the composition of its methods' lemmas;
the steps that move a machine or take a handler off the strand have an argument
of their own.

**`ActiveActiveLoop_proofs`.** `LoopIsPort` and `LoopSafe` carry this over to the closed
system, from `LoopAssumption`: whatever the tables hold is something their reader
takes (`IsTables`, an invariant of its own, as one handler's request is another
actor's input), so each step of `LoopNext` is a step of `LinkManagerActiveActive` or
leaves its record as it is, but for the answer of a failed probe that the port
ignores, which keeps the invariant as well. The six invariants thus hold for every
`MaxFaults` and `Backlog`; `aa_loop` explores two faults.

**`LinkProberHw_proofs`.** `TypeCorrect`, `SilenceBrokenByAddressOnly` and
`PeerSessionKept`, for all names, retry counts, requests and bounds, from
`LinkProberHwAssumption`. The last assumes `~EarlyCommands`, as `prober_hw` does: the lemma
about `SoftwarePacket` shows that it is the only call that needs it. The second
needs no hypothesis: each method either sends nothing new while heartbeats are
forbidden or is `updateEthernetFrame`. `PeerSessionMatches` names the session of the *present* peer,
so a packet that replaces the peer has to be shown to delete the old session in
each of the four combinations of old and new kind.

**`Linkmgrd_proofs`.** `TypesAreThoseOfTheCode`, `PortsAreBuiltAsConfigured` and
`AgreeWhenAtRest`, for every set of ports, names, keys, words,
requests and starts, any number of changes and queues of any length, from
`LinkmgrdAssumption`. That a property holds at rest says nothing of the way there, so the
inductive invariant speaks of what *will* have happened.

* `LastIs(port, handler, label)`: when the port's strand has run, `label` is the
  last that `handler` was told. `ToldOK` requires it of every key that was taken up, and
  a key not taken up is in `fresh`. A notification adds a handler at the end, a worker takes the
  first away, and both keep `LastIs` of every other kind of handler.
* `Replay` does the same for the strand of the databases: a sequence of contents, from
  what is written to what was asked, one step for each handler that waits. It is a
  witness that each action lengthens or shortens, so no induction over the
  length of the queue is needed.
* `Phases` and `Stored` say what each phase of the start has read and that members which come
  from a key hold what the table holds. `NothingTaken` says that no notification
  is taken up before all ports exist: this is why none can miss one.
* `Built`, `FrameOK`, `BladeOK` and `ModesOK` are about one port: its type and that of its
  prober, the addresses of its heartbeats, and the modes kept for the activation, of which an
  active-standby port has none (`ModesOK`): for it the last mode told is the mode of
  now. For an active-active port that is false, see `manager_mode`.
* `IsRoute` is what a route may have been told as, with the options stored or not: a key that
  has changed was taken up with them, since keys change after that.

There is one hypothesis on the constants, `SourceKnown`: if the VLAN has no
address nobody configures it as source (otherwise the source is 00:00:00:00:00:00, see
the bounds above). `PortsAreBuiltAsConfigured` and `AgreeWhenAtRest` need it,
`TypesAreThoseOfTheCode` does not; `manager` satisfies it. `LinkmgrdAssumption` says that the ports are finitely many and no strangers, that keys,
values, requests and starts are of the kinds the code has, and that every port has a
mode in CONFIG_DB.

Only model-checked: liveness, which is out of the prover's reach under fairness
(`SilenceIsDetected`, `StopIsEffective` and `SuspensionEnds` of the software prober, `VerdictFollowsServer` and
`SilentPeerIsNoticed` of the hardware prober, `Recovers`, `Yields` and `ObeysOperator` of the closed
active-active port, `AutoAfterWarmRestart` and `SignalEndsProcess` of the process). Every invariant and
every other action property that a passing run checks is a theorem. `SubStateMachines`
against its streaks, `FoldedAtOnce` and `ServersAreTold` (the addresses generated for 1024
servers differ) are evaluated by TLC for bounded inputs: what a fold or a
recursive function computes for every input needs an induction over data. The
disagreements above are counterexamples and have no theorem.

## Not modelled

* Two active-standby ToRs closed with the mux, orchagent and xcvrd. The modules
  have what it takes; the product of two link managers does not fit a run of
  five minutes without abstracting them first.
* Durations. Where the code relies on one timer being longer than another, the
  model lets either expire first, or, in `ActiveActiveLoop`, names the exception.
* Data races of plain C++ members: `mPortMap` is read by the database strand
  (`DbInterface.cpp:393`) while the database thread may insert, prober members are
  written from two strands, packet-loss counters from two. The models interleave
  whole methods.
* Statistics, metrics and switchover measurements but for the order in which they
  are written; parsing of addresses, netlink messages, options; logging.
* Entries that orchagent has not consumed when `handleUpdateInterval` reads the
  table, and what is still on the database strand when the process ends.

## Plan

1. *Done:* the active-standby port, the software prober and `ProberVerdict`, with
   their proofs.
2. *Done:* the active-active port, alone and closed; the hardware prober; the process
   with ports, manager and databases; the proofs of the port, closed too, and of the
   hardware prober.
3. *Done:* the remaining invariants and action properties of the active-standby port,
   and the invariants of the process for any set of ports.
4. `DualToR`: two active-standby ports abstracted to what their theorems say, the mux,
   orchagent and xcvrd under fairness: eventually one ToR forwards, and they do not
   wait for each other for ever.
