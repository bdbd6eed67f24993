# A TLA+ model of the wbr_mujoco controller

`wbr_mujoco` is the controller of a wheel-bipedal robot that runs against a MuJoCo
simulator. It is one C++ process: a simulator link with its callback threads, six
services with a thread each, and an in-process message bus between them. This directory
holds TLA+ modules for the parts with control state, TLC runs that check them on small
instances, and TLAPS proofs for every value of the constants.

How to run: `tlc -config EcalIo.cfg EcalIo` for a run (the table below gives module and
configuration), `tlapm EcalIoProofs.tla` for a proof module. Paths of source files are
relative to the repository's root.

1. [The system](#the-system)
2. [Modules](#modules)
3. [Runs](#runs)
4. [Where the code and its documents differ](#where-the-code-and-its-documents-differ)
5. [Proofs](#proofs)
6. [What is not modelled](#what-is-not-modelled)
7. [Plan](#plan)

## The system

### Components

| Component | Code | State it keeps | Operations |
|---|---|---|---|
| message bus | `common/` | per type one topic: a mutex, the payload, eight subscriber slots (`active`, `pending`); `storage.created` and `handle.layout` of `create<T>()` | `create`, `subscribe`, `publish` (waiting or `try_lock`), `read`, `available` |
| simulator link | `controller/src/ecal_io.cpp` | `registered`, `ack_epoch`, the pending tick, `last_sent_tick_id`, commit statistics | registration, four eCAL callbacks, `poll`, `wait_for_tick_and_commit`, `stop` |
| ins service | `services.cpp` | the Mahony filter | raw state in, attitude out |
| command service, `command_fusion` | `services.cpp`, `control/balance.hpp` | the last snapshot, the enable switch, ramps, the yaw reference, the position hold | keyboard, attitude and pendulum in, command out |
| chassis service, `chassis_fsm` | `services.cpp`, `control/chassis_fsm.hpp` | seven states, five debounce counters, LQR and leg controllers | raw state, attitude and command in; motor command, pendulum, odometry and log out |
| leg controller, link solver | `control/leg.hpp` | the unwrapped angle `total_phi_`, PIDs, slopes, the latched `target_phi_` with `delta_init_` | `solve`, `phi_control`, `relax`, kinematics |
| actuator service | `services.cpp` | the last motor command | motor command in, commits out |
| console log, web visualizer | `services.cpp` | a divider; sockets of event clients | periodic print; HTTP page and event stream on port 2000 |
| application | `main.cpp`, `app.cpp`, `app.hpp` | `running_`, the members in their order | construction, run until a signal, destruction |
| configuration | `config.cpp`, `config/robots/wbr.yaml` | `app_config` | defaults, YAML, command line |
| IMU fusion, odometry, LQR gains | `control/` | filters | floating-point arithmetic |
| mesh and LQR tools | `tools/` | files | offline Python |

### How they interact

```
  simulator --tick, ack--> ecal_io ------------------+ wait_for_tick_and_commit
            --state-----> raw_state topic            |
            --keyboard--> input topic        actuator_service <-- motor topic
                            |                                          ^
  raw --> ins_service --> ins --+--> command_service --> cmd --> chassis_service
   |                            +--------------------------------> |   |
   +-------------------------------------------------------------> +   +--> pendulum, log
                                     ^----------- pendulum ------------+
```

* *Shared memory*: every arrow between services is a topic of the bus, a one-place
  mailbox per subscriber. Nobody waits for a message; a loop that finds nothing sleeps or
  yields and tries again. Some publishers wait for the topic's mutex (`publish_opts{true}`:
  the keyboard snapshot, the motor command), the others drop the message when the
  mutex is taken, and no caller looks at the status.
* *Callbacks*: eCAL calls the state, input, tick and ack handlers on threads of its own,
  from the construction of `ecal_io` on, while the services are still being built.
* *References*: the services hold `io_` and `running_` of the application by reference.
  The order of the members of `controller_app` decides who outlives whom.

### What is hard here, and what makes each component correct

* **message bus** - torn payloads, messages delivered twice or never when a read races
  a publish, stale flags in a slot, a full topic, a lock that is not given back. Correct:
  one-place mailboxes, taken whole and at most once, with the newest message never lost.
* **create\<T\>()** - its test of `storage.created` has no lock, and first calls do race.
  Correct: a subscription made once lasts.
* **simulator link** - three threads share flags; requests, acks and ticks are lost or
  late; the simulator restarts and numbers its ticks anew. Correct: no tick is committed twice or
  out of order, `missed_ticks` is the number of ticks passed over, and the link finds back to the
  simulator.
* **chassis state machine** - five counters and two latches that live across states; a
  missed reset shows only after a particular sequence of falls, stops and landings.
  Correct: debounces count ticks in a row, no leg pursues a target of another state,
  and a robot that cooperates stands up from anything.
* **leg angle** - it is the sum of clamped differences, and a target is latched once, with a
  direction, in a handler that asks again in every tick. Correct: no turn is lost, the target lies
  ahead and less than a turn away, and the reference goes there one way and arrives.
* **services** - loops of the same rate and no common phase; reads joined by `||` that
  throw away what they have taken. Correct: control steps use new data and do not starve, a
  key press switches motion once, and a stop gets to the motors.
* **configuration** - three sources write the same fields, and the file may break off in the
  middle. Correct: the command line beats the file and the file the defaults, and no robot is
  started on half a file.
* **application** - threads start before their object is complete and are joined in
  destructors. Correct: the link outlives its users, and the process ends once told to.

`PROJECT.json` lists each hazard with its line and the properties that cover it.

## Modules

The modules form three layers. `Mailbox` and `ChassisModes` say what the two central parts
promise; `MsgBus` and `ChassisFsm` are the code and implement them, and so does `LegAngle` with
the modes as one leg sees them; `ControlLoop` uses the promise of the bus, one step per call, to
compose the services.

```
  Mailbox <--implements-- MsgBus            ChassisModes <--implements-- ChassisFsm, LegAngle
     :                                                                        |
     : (one step per call)          ChassisStandUp --extends--> ChassisFsmMonitor (extends it)
  ControlLoop --extends--> CommandFusion     EcalIo
  Launch --extends--> ConfigLoad, Startup    WebVisualizer      StlRepair
```

Each proof module, `XProofs`, extends the module it is about; `ChassisProofs` covers `ChassisFsm`, its
monitor and `ChassisStandUp`.

### MsgBus (and MCMsgBus, Mailbox)

One topic after its creation. The code's calls are cut where another thread can come in
between: entering the call, getting the mutex, each word of the `memcpy`, the release. What a
call does between two such points touches locked or thread-local data only, and is one action.

| Module | Code |
|---|---|
| `lock`, `payload`, `active`, `pending` | `topic_layout` and its slots |
| `slot` | `slot_idx` of the handle, `NoSlot` is 0xFF |
| `Subscribe` | `subscribe`: first inactive slot, or the invalid handle |
| `PublishCall`, `PublishLock`, `PublishDropped`, `PublishWord`, `PublishDone` | `publish`: `lock()` or `try_lock()`, the copy, the flags |
| `ReadCall`, `ReadLock`, `ReadEmpty`, `ReadPending`, `ReadWord`, `ReadDone` | `read`: the check of the handle, the flag, the copy, clearing the flag |
| `sent`, `got`, `joined` | auxiliary, for the properties |

Message *n* carries *n* in each of its words, so a torn message is one that is no
`Message(n)`. `Mailbox` has only `Join`, `Send` and `Take`; a subscriber that got no slot is
no member, a completed publish is a `Send`, and a read that answers `ok` a `Take`.

### ChassisFsm (and ChassisModes, ChassisFsmMonitor, ChassisStandUp)

`chassis_fsm::step` as one action per handler. An input is the record of the outcomes of the
tests the handlers make (`move`, attitude, flat legs, band of alpha, vertical motion), any
combination in any tick. Torques, lengths and gains are left out since no
transition reads them. `latch` says per leg in which state the `target_phi_` it follows was
latched, which is `delta_init_` with a memory. `air` wraps at `Word`, as the 32-bit counter
of the code does at 2^32.

* `ChassisModes` joins the states to five modes and says along which edges they change and
  that a leg's target goes with the mode that set it.
* `ChassisFsmMonitor` counts, next to the machine, what the sensors really showed: ticks in
  a row out of the band, upside down, since the last landing. The properties hold the
  code's counters against that.
* `ChassisStandUp` extends the monitor by an environment that at some tick starts to
  cooperate, and counts in `waited` the ticks since then that did not end in `NORMAL`.

### EcalIo

The actuator thread, the tick handler and the ack handler, cut at each access to an atomic
and at each critical section; the simulator and the transport are external.

| Module | Code |
|---|---|
| `AckEpoch`, `AckRegistered` | the ack handler: epoch first, flag second |
| `TickArrives`, `TickStale`, `TickStored` | the tick handler, which reads `registered` twice |
| `Poll`, `PollRegisters` | `poll`, with or without the registration of each second |
| `FlushChecked`, `FlushTaken`, `FlushSent`, `FlushFailed` | `flush_pending_commit` |
| `SimTick`, `SimRestart`, `SimAck`, `Lose` | external: ticks, restarts, answers, losses |

A commit is remembered with its epoch, since ticks are numbered anew in each. A tick is *passed over*
(`PassedOver`) when one before it and a later one of its own epoch were committed and it was not; the
ticks of a new epoch up to `last_sent_tick_id`, which line 207 refuses for their number, are not.

Two readings are one step in two places, each with its reason in the module: the wait of
`wait_for_tick_and_commit` ends by itself and is no step, and the first test of `registered`
goes with the reading of `ack_epoch`, because nobody else clears the flag.

### ControlLoop (and CommandFusion)

The loops of the ins, command, chassis and actuator services over five topics. One read or
one publish is one step, a publish that does not wait may be dropped, and the loops interleave
freely, since their sleeps only fix their mean rate. A raw state is its number, and
what is computed from it carries the number on; 0 is a value-initialised message. So the
`||` of the chassis loop, which loses the samples taken before the read that fails, and the
status of the attitude read in the command loop, which nobody looks at, are there: a round
that finds no attitude fuses with one that has no number. Reading the attitude and fusing is one step.
`CommandFusion` is `command_fusion::update` as far as decisions depend on it: the enable
switch with its arming, and when the yaw reference is taken over. A snapshot is any
combination of the keys, and `presses` counts the times the space bar went down from one
snapshot to the next, which is what the code can see of it.

`FairSpec` starts in `Init` or in `MovingInit`, a state in which the first press has been handled
and every mailbox is empty; the next press is then a stop.

### LegAngle

One leg, one control tick per step: the solver reads the angle within a turn and adds up
`loop_clamp`ed differences; `phi_control` latches a target and moves a slope towards it; the handlers of the
state machine call it. Angles are whole steps, `Half` of them in pi. The torque is left out, so
the leg moves as it likes, by less than half a turn in a tick, which is what unwrapping needs. The
yaw, which `imu_fusion` unwraps by counting turns, is fed the same angle.

| Module | Code |
|---|---|
| `Solve`, `LoopClamp` | `phi_`, `last_phi_` and `total_phi_` of `link_solver::solve`; `loop_clamp(v, -pi, pi)` |
| `TurnCount` | the turn count of `imu_fusion::update_euler` |
| `PhiControl`, `Aim` | `phi_control`: the first call latches, all calls move the slope |
| `SlopeTo` | `slope::update_val` |
| `Release` | `relax()`, or the handlers' `delta_init_ = false` |
| `Relax`, `Upright`, `Recover`, `Flattened`, `Flatten`, `Neutral`, `StandUp`, `Balance` | what the handlers of `chassis_fsm` do with a leg |

`ChassisFsm` says when a target is latched and given up, with the states and counters in full;
`LegAngle` says what the target is, with the states as far as a leg can tell them apart. Both
implement `ChassisModes`: there a leg's aim is the mode its target was set in, which `ChassisFsm`
keeps as `latch` and `LegAngle` only as the flag `latched`. The slope has one `Path` here, where the
code has one path for each state.

### Launch (ConfigLoad, Startup)

`Launch` is `main()`: `load_config`, which may end the process, then the application.

`ConfigLoad` goes through the command line as the code does, twice: `find_config_path` looks for `-c` before
anything is loaded, and `parse_args` takes the options when the file has been read. A field of
`app_config` is where its value comes from (a default, the file, or a position of the command
line), and a node of the file is absent (or there to no effect), set, or such that reading
it throws.

`Startup` is the constructor of `controller_app` member by member, the run, and the destructors
in reverse. A service's thread is spawned before its subscribers are constructed, as the
order of declarations in `services.hpp` has it; the handlers publish from the start on; and
`create<T>()` is three steps: the test of `created`, the reset of the storage, and the store of
`handle.layout`. A loop that reads a subscriber not built yet reads indeterminate memory
(`EarlyRead`): either the handle is refused, which changes nothing, or the process dies.

### WebVisualizer

The loop of the visualizer's thread, cut at its system calls, and the browsers around it. A
connection is `new`, `queued` at the listening socket, `open` or `closed`; its browser asks
late or not at all, stalls, comes back to life, leaves, and is at some time known to the kernel
to be gone. `send_text` fails on that alone: what a full buffer does not take is
forgotten (`Sent`), so a browser may get half an event, and the half of the next one.

| Module | Code |
|---|---|
| `Accept`, `AcceptNone`, `Recv`, `SendHeader`, `SendPage` | the inner loop: `accept`, `recv`, and the two answers |
| `ReadLog` | `read` of the log topic and `publish_divider` |
| `SendEvent`, `SentAll` | the loop over `clients` with its `erase` |
| `Sleep`, `CloseAll` | the tick, the test of `running_`, the end |

### StlRepair

`tools/fix_stl_for_mujoco.py` over a directory, run after run. A mesh is what the script and MuJoCo
can tell of it, a record of three facts, and the number of the run that wrote it last, 0 for its author:

* its `format`: `ascii`, `binary`, or `solid`, a binary file whose header begins with the five bytes
  by which the script tells ASCII (line 27). MuJoCo loads such a file, and the script rewrites it;
* its `faces`: none, too `few` for the four vertices that MuJoCo needs (line 38), in range, or over the limit.
  The script counts faces only: a mesh with too few of them is left alone, or converted, and fails either way;
* whether it is `whole`: a binary file may have fewer triangles than its header promises, and a file that begins
  with "solid" may be one that trimesh refuses, which ends the run.

| Module | Code |
|---|---|
| `Solid`, `Repair` | the tests on the first bytes and on the count, in their order |
| `Outcomes`, `Written` | what placeholder, decimation and conversion write; the decimation may stop above its target |
| `Loads` | the verification, and so MuJoCo's reader |
| `Selected`, `Start`, `Pick`, `Processed`, `Verify` | `main`: the listing, the loop over the files, the verification |
| `BackupBegin`, `BackupEnd`, `LeaveAlone`, `WriteBegin`, `WriteEnd` | `process_stl` |

Copying and writing take two steps, and `Interrupted` may come at any point, which leaves a torn copy
or a torn mesh for the next run to find. `start` remembers the directory at the
beginning of the run.

## Runs

| Run | Module, configuration | What it shows |
|---|---|---|
| `msgbus` | `MCMsgBus`, `MCMsgBus.cfg` | deliveries are whole (`NoTornDelivery`), at most once (`PendingIsUnread`), the newest is not lost (`NothingLost`); the topic implements `Mailbox`; the lock is held for a bounded number of its owner's steps (`LockHeldBriefly`) and always comes free (`LockReleased`), and a `try_lock` publisher always returns (`NonBlockingReturns`) |
| `fsm` | `ChassisStandUp`, `ChassisStandUp.cfg` | no leg target outlives its state (`LatchFresh`); the machine implements `ChassisModes`; leaving, flipping and taking off are debounced by ticks in a row (`ExitSustained`, `FlipSustained`, `GraceSinceLanding`); from whatever the past left in the counters, a cooperating robot gets to `NORMAL` (`StandsUp`), within `enter_normal_ticks` + 2 ticks (`StandsUpInTime`) |
| `fsm_entry` | `ChassisFsmMonitor`, `ChassisEntry.cfg` | violation: entering `NORMAL` is not (see below) |
| `ecal_io` | `EcalIo`, `EcalIo.cfg` | commits in order and once, and none of an old epoch after one of a newer (`CommitsInOrder`); the statistics say how many ticks were committed and how many passed over (`StatsExact`); the link finds back after a restart (`Reconnects`); a new tick is taken (`NewTickTaken`) |
| `control_loop` | `ControlLoop`, `ControlLoop.cfg` | every control step has an attitude and a raw state newer than the step before (`FreshControl`); one press, at most one toggle (`OneTogglePerPress`); control steps keep being made (`ControlGoesOn`); a stop ends as zero torque at the actuator (`StopReachesMotors`) |
| `yaw_reset` | `ControlLoop`, `YawReset.cfg` | violation: the yaw reference may become 0 (see below) |
| `leg_angle` | `LegAngle`, `LegAngle.cfg` | both ways of unwrapping give the true angle (`Unwrapped`); the latched target is the goal, ahead and less than a turn away (`AimAhead`); the reference goes there one way, a whole `Path` in each tick (`OneWay`), and all the way (`Arrives`); a leg implements `ChassisModes` |
| `startup` | `Launch`, `Launch.cfg` | an option beats the file and the file the default (`Precedence`); no robot runs on half a file (`WholeFile`); the motor and pendulum subscriptions outlast the race of `create<T>()` (`MotorSlotKept`); the link outlives its users (`IoOutlivesUsers`); once `running_` is false the process ends (`ShutsDown`) |
| `startup_keyboard` | `Startup`, `StartupKeyboard.cfg` | violation: the keyboard subscription may be lost (see below) |
| `web_visualizer` | `WebVisualizer`, `WebVisualizer.cfg` | open sockets are the subscribed ones and the one being answered (`NoLeak`); those gone are dropped (`GoneDropped`), those that read are fed (`KeepsFeeding`), whatever the others do; the thread ends with the application (`Joins`), each of its steps after the stop being one of those it has left (`StopsSoon`) |
| `stl_repair` | `StlRepair`, `StlRepair.cfg` | a run with backups can be undone, wherever it broke off (`Undoable`); a mesh that loads is rewritten only for a header that begins with "solid", as one that loads, and lost only to a run that breaks off while it writes it; a dry run writes nothing (`Harmless`); a run that goes through leaves what MuJoCo loads and the next run leaves alone, or a cause it could not mend (`FailureExplained`) |
| `stl_backup` | `StlRepair`, `StlBackup.cfg` | violation: the original in the backup may be lost (see below) |

No run checks a `TypeOK`: each is a theorem (`TypeCorrect` of the proof modules).

### Bounds

* *Bus*: two publishers, one of each kind, and three subscribers for two slots, so one finds
  the topic full; two words, the least that can tear; three publications, so one can
  overtake a reader that is still at the one before. The proofs lift all of these for the
  safety properties.
* *State machine*: tick limits of 3, 3 and 2 (`EnterTicks`, `ExitTicks`, `FlipLimit`) let a
  count be partly full, be reset, and trip; `MinAir` = 2 with `Word` = 7 lets the 32-bit
  counter wrap within a run. `waited` stops at `TicksToStand`, one more than the most it may come to.
  The state space is finite without any further bound; the proofs lift the limits.
* *Simulator link*: two epochs, one restart; three ticks in each, so that one commit can skip a
  tick and the numbers of the new epoch can be below and above the last one sent. The proofs
  lift both bounds for the safety properties.
* *Services*: samples are told apart up to `MaxSample`, which stands for all later ones, so
  samples keep coming in every run; two are enough for one to be newer than another.
  `MaxPresses` bounds the presses of the space bar, one from each of the two starts: from `Init` it is
  the first start, or none when the bar is held since before the start; from `MovingInit` it is
  the stop. `TurnInputs` is `{FALSE}` where A and D do not matter. The proofs lift both bounds for
  the safety properties.
* *Leg angle*: 20 steps to the turn, and a leg may be anywhere within a turn and a half to
  each side of where it started, so each direction has targets in the next turn. `Flat`, `Fold` and
  `Raise` are the code's 2 to 3.1 rad, 0.4 pi and 0.45 pi in steps. A slope of 3 does not divide the turn, so
  the last stretch is a short one, and `MaxMove` = 9 is the most that is less than half a turn. The proofs
  lift all of these for the safety properties.
* *Launch*: up to four arguments over an option with a value, `-c`, `--no-log-stdout` and
  `--help`: one that is given twice, one without its value, and one that has another for its value. Threads, slots
  and topics are the program's own.
* *Visualizer*: two connections, so that one can be dropped or stall while the list goes on to
  the other; a buffer of three units, so that the second event does not fit and is cut; a
  `Divider` of 2 for the 20 of the code. The thread accepts until nobody is waiting or `accept` fails: viewers that
  came without end would hold it there, which the bound on connections leaves out, in the proofs
  any finite number of them.
* *Mesh repair*: directories of at most two files over two names in both cases of the
  extension, so that one can hide the other; two runs, so that one finds what another left.

`CHECK_DEADLOCK FALSE` is used where the program ends: the launch, start-up, visualizer and
mesh repair runs.

### Fairness, and why the code justifies it

* *Bus*: a thread inside a call keeps running (weak fairness of its steps). A
  `std::mutex` promises no order among waiters, so there is no strong fairness on
  getting the lock, and nobody needs to start a call.
* *State machine*: the control loop ticks (`StandUpSpec`).
* *Simulator link*: the handlers and the actuator thread run; between two polls a second passes
  again and again (strong fairness of `PollRegisters`, the timer of line 173); a message
  that is sent again and again arrives at last (strong fairness of `SimAck` and `AckEpoch`),
  without which no protocol over a lossy transport reconnects.
* *Services*: each loop goes round, snapshots and states keep arriving as the simulator
  sends them periodically, and a publisher that tries again and again finds the mutex
  free at last: it is held for a `memcpy` per millisecond.
* *Leg angle*: the control loop ticks; what the leg and the handlers do in a tick is free.
* *Launch*: `load_config` goes on, main and threads run (weak fairness of all their steps together, since
  none can be taken for ever); nobody has to send a signal.
* *Visualizer*: its thread runs; the chassis service logs as long as the simulator sends
  states (`Sample`), and without a log nothing is sent and nobody found gone; a browser
  that reads drains its buffer; the kernel gives up on a peer that does not answer (`Reset`).

## Where the code and its documents differ

* **`EntrySustained`** (`fsm_entry`). `config/robots/wbr.yaml:68` says "sustain
  enter_normal_ticks before NORMAL". `normal_enter_cnt_` is cleared on entering `NORMAL` and on a
  tick outside the band, not when `NEUTRAL` is left by a stop or a flip. TLC counts some ticks,
  stops, starts again, and enters `NORMAL` on fewer ticks in a row than the limit.
* **`KeyboardHeard`** (`startup_keyboard`). `README.md:93` says that the controller reads the
  keyboard snapshot. The first snapshot and the subscription can both find the topic not created:
  the handler's reset then wipes the slot just taken, or the subscription finds
  `handle.layout` still null and is refused, and is never tried again. `MotorSlotKept`
  shows why the motor command and the pendulum are safe from this: the one thread that publishes them
  starts after both are subscribed.
* **`YawResetToCurrent`** (`yaw_reset`). `README.md:108` says that on the release of A/D the yaw
  reference is reset to the current yaw. `command_service::loop` ignores the status of its read
  of the attitude, so in a round without a new one `total_yaw` is 0 and so is the reference.
* **`OriginalKept`** (`stl_backup`). The help of `--backup`
  (`tools/fix_stl_for_mujoco.py:138`) says "backup originals here". Line 108 copies every readable
  file in every run. TLC interrupts a run while it writes a mesh, and the next run
  copies the torn mesh over the original in the backup, the last copy there was; two complete
  runs lose the original, too.

Other behaviour met while modelling, which contradicts no document. What can bite is
listed under "hazards" in `PROJECT.json`.

* *State machine*: `air_protect_cnt_` survives `RELAX`, so that only the first stand-up has the grace before
  `OFFGROUND` and the soft start of the LQR. `normal_exit_cnt_` survives `SPIN`, a state that no command
  reaches today, so `ExitSustained` counts the ticks on both sides of a spin as one run.
* *Leg angle*: `FLATTEN` folds a low leg down to -pi, a reading next to `flat_` (2 to 3.1 rad) and not in
  it, so that leaving `FLATTEN` is left to the width of the control's swing.
* *Services*: the default snapshot arms the space bar before the first real one arrives. The status of
  the pendulum's read is ignored like that of the attitude. When `imu_fusion` is bypassed, the
  yaw published as `total_yaw` is not unwrapped.
* *Configuration*: a file named with `-c` that is not there is only warned about, and
  `find_config_path` also takes a `-c` that is the value of another option.
* *Visualizer*: a browser that reads too slowly gets cut events.
* *Simulator link*: a pending tick of an old epoch may be committed to the new one; after a
  restart, ticks are refused until they pass the last number sent, and `missed_ticks` does not count them.
* *Mesh repair*: a binary mesh whose header begins with "solid" is reported as `ascii->binary` and rewritten, though
  it loads. Vertices are not counted, so a mesh with a face and fewer than four vertices gets no placeholder and fails
  the verification. A file that begins with "solid" and that trimesh refuses ends the run for all files after it.

## Proofs

`tlapm` proves the theorems below for every value of the constants that the modules'
ASSUMEs admit. Those say no more than the code does: publishers and subscribers are different
threads and the free lock's owner is none of them; a payload has a word and only finitely many;
connections are finitely many; limits are positive
where the code's defaults are; `MinAir + 1 < Word`, a limit below the range of its counter; a leg
moves less than half a turn in a tick.

| Module | Theorem | Argument |
|---|---|---|
| `MsgBusProofs` | `TypeCorrect`, `Whole`, `AtMostOnce`, `NewestKept` | the invariant `IInv` below |
| | `Implementation` | each step is a `Join`, `Send` or `Take` of `Mailbox`, or a stutter, given `IInv` |
| | `HeldForBoundedSteps` | the words not copied yet, a finite set, get fewer; given `IInv` |
| `ChassisProofs` | `TypeCorrect`, `NoStaleTarget` | `TypeOK`, `LatchFresh` and `LatchFree` together |
| | `Implementation` | each step is a `Change` or a `Pursue` of `ChassisModes`, or a stutter |
| | `ExitIsSustained`, `FlipIsSustained`, `GraceAfterLanding` | no counter is ahead of what really happened |
| | `StandsInTime` | `StandInv`: the ticks waited and the ticks left together are no more than `TicksToStand` |
| `EcalIoProofs` | `TypeCorrect` | with `TakenNewer` |
| | `StatisticsExact`, `InOrder` | with `NewestSent`, `EpochInv` and `CountInv` |
| | `SettledForGood` | no handler finds an epoch that differs; `StaysSettled` |
| `ControlLoopProofs` | `TypeCorrect` | one step per call of the loops |
| | `TogglesBounded` | with `EdgesLeft` and `HeldIsSeen` |
| | `SamplesFresh` | with `FreshInv` |
| `LegAngleProofs` | `AnglesUnwrapped`, `TargetAhead`, `ReferenceOneWay` | what `LoopClamp`, `Aim` and `SlopeTo` give, as lemmas; then one step per handler |
| | `TypeCorrect` | with `AngleInv`, and what `Aim` and `SlopeTo` return |
| | `LegImplementsModes` | each handler is a `Change` or a `Pursue` of `ChassisModes`, or a stutter, given `ModeInv` |
| `LaunchProofs` | `NoHalfFile` | with `FileInv` |
| | `LastOptionWins` | with `ParseInv`, and `IsValue` without its recursion |
| | `TypeCorrect` | with `Making`, what a thread in the middle of `create<T>()` is at |
| | `LinkComesLast`, `MotorNotLost` | with `EndInv`, and with `SlotInv` |
| | `EndIsBounded` | each step takes a member from the set `Left` and puts none in; `EndsInSteps` |
| `StlRepairProofs` | `TypeCorrect`, `RunIsUndoable` | with `RunInv` |
| | `RepairIsHarmless`, `FailureHasCause` | with `KeptInv`, and with `SettledInv` |
| `WebVisualizerProofs` | `TypeCorrect` | with `SocketInv` |
| | `SocketsKept` | with `SocketInv`, over lists without repetition |
| | `StopIsBounded` | each step of the thread brings `StepsLeft` down and none of a browser brings it up, given `SocketInv` |

The inductive invariants, and why the properties alone are not inductive:

* **Bus.** `IInv` is `TypeOK`, `LockInv` (a thread in the middle of a call with the lock
  is its owner, and one that copies has an active slot), `ContentInv` (the payload is the
  last publication, except for the words a running publisher has written already, and a reader's
  buffer agrees with it on the words copied) and `DeliveryInv` (the flags against
  what was taken). `NoTornDelivery` says nothing of a copy under way and so could not
  be carried through one.
* **State machine.** `LatchFresh` allows a latch in any state, so it does not forbid
  the step from `NORMAL` with a latch of `NORMAL` to `OFFGROUND`, which keeps it.
  `LatchFree` says that the states without leg targets have none.
* **Monitor.** `ExitBehind`, `FlipBehind` and `AirBehind` relate each counter of the code to
  the monitor's, in the states that may come back to counting. `AirBehind` holds across the wrap of the counter, which only sets it back.
* **Stand-up.** That little was waited so far is not inductive. `StandInv` adds what is still to come,
  `TicksFrom(state, normal_enter_cnt_)`: the whole path from `RELAX`, only what `NEUTRAL` has not counted yet
  further on, and nothing in `NORMAL`. Each cooperating tick takes one off. A count left over from
  before makes it less and never more.
* **Simulator link.** `TakenNewer` (what the actuator is about to send is newer than all it
  sent) keeps the count of missed ticks from going below zero. `NewestSent` (the last one sent
  has the largest number of all commits) and `EpochInv` (ticks go one way, from the simulator over the
  handler to the actuator, and no epoch overtakes the one before) make the numbers between two commits
  stand for ticks of the later one's epoch, one each, also when a restart came in between. The
  counting itself is the lemma `CommitCounts`, from the facts on cardinalities of intervals and
  bijections; `CountInv` says that the sets counted are finite.
* **Mesh repair.** `Undoable` alone does not exclude that the copy made next is of a file
  changed already. `RunInv` says that what a run has not come to yet is as it was when the run
  began (`UntouchedInv`), and that the copy is whole before the file is opened (`CopiedInv`).
  `Harmless` says nothing of the file being written; `KeptInv` says that it is the only one that may
  not load any more, and that it began with "solid" if it loaded, so that the conversion gives one that
  loads. `SettledInv` says of the files done that each loads for good or has its cause.
* **Services, presses.** A press travels as a rising edge, from the snapshot on the topic to the one the command
  loop holds and to the previous one it compares with. `EdgesLeft` counts the toggles made and the edges still
  on their way; a message overwritten or dropped can merge edges and makes none.
  `HeldIsSeen` says that between two rounds the loop has compared with the snapshot it holds.
* **Services, samples.** A flag in a mailbox promises a message newer than what its reader had,
  and a number held between two reads is newer than the one used last. `RawStage`, `InsStage`
  and `FilterStage` say so of the raw state at the chassis loop, the attitude there, and the raw
  state at the filter, without which the attitude could repeat.
* **Leg angle.** `Unwrapped` alone does not exclude that the first reading, which counts as it is, comes
  after the leg has made a turn; that the turns are none until then is the rest of the invariant.
  `ModeInv` says that only the states that aim hold a target.
* **Visualizer.** `NoLeak` says nothing of the backlog, from which the next socket comes. `SocketInv` says
  for each socket where it is held (a queued one in the backlog, an open one among the clients or
  as the one being answered), that neither list repeats one, and that `cur` is one exactly while a request is
  answered. Lemmas say what `Append`, `Tail` and `RemoveAt` do to a list without repetition.
* **Command line.** `ParseInv` says of every moment of `load_config` what each field holds: what the
  part of the file read so far gives it (`ReadInv`), then what the arguments before `arg` give it and
  else the file (`ArgsInv`). Which arguments are values, and so neither options nor the help, is a definition
  recursive over the command line, `IsValue`. The proof goes round the induction: an argument is a value
  exactly when the unbroken run of options with a value in front of it is of odd length
  (`OddRun`). Such a run starts somewhere (`LeastElement`, as the naturals are well-founded), and so
  `OddRun` satisfies the equation that defines `IsValue` (`ValueIs`).
* **Launch.** `FileInv` also says that the exit status is 0 while the process goes on. `EndInv` ties the phase of
  `main()` to the threads joined so far. For the motor and pendulum subscriptions, `BeforeInv`
  says that nobody but `main` creates their topics until the chassis thread is there, and `PastInv` that
  `main` has built both subscribers by then, so that no later `create<T>()` resets their slots
  (`KeptInv`); `Making` says what a thread in the middle of `create<T>()` is at.

Only model-checked is liveness, which is out of the prover's reach: `LockReleased`,
`NonBlockingReturns`, `StandsUp`, `Reconnects`, `NewTickTaken`, `ControlGoesOn`, `StopReachesMotors`,
`Arrives`, `ShutsDown`, `GoneDropped`, `Joins`, `KeepsFeeding`. For some of them the part without
fairness is proved: a measure that every step of the one who has to move brings down, and that
nobody else brings up.

| Liveness, by TLC | Its part without fairness, proved |
|---|---|
| `LockReleased` | `LockHeldBriefly`: the owner's steps to the release |
| `StandsUp` | `StandsUpInTime`: the ticks to `NORMAL` |
| `Arrives` | `OneWay`: a whole `Path` in each tick |
| `Joins` | `StopsSoon`: the steps of the thread |
| `ShutsDown` | `EndsInSteps`: what is left for `main()`, the loops' last rounds and `create<T>()` |
| `Reconnects` | `StaysSettled`: only a restart ends a registration that is settled |

That the one who has to move does so is left to TLC, and is the fairness stated above. In no run are
`EndsInSteps` and `StaysSettled`, which the theorems state for all instances.

## What is not modelled

* The arithmetic: IMU fusion (but for the unwrapping of the yaw), odometry, leg kinematics, PIDs and LQR
  gains. There is no control state in it; where a decision depends on a number, the outcome of
  the test is the input. Rounding of angles: `LegAngle` has whole steps.
* In the simulator link: conversions of messages, IMU noise, and the torn read of the noise
  parameters, which are constant. In the bus: `available()`, which nobody calls.
* `landing_cnt_`, `flying_`, `going_stair_` and `chassis_dead`: no code ever sets the
  three conditions.
* A signal before `main()` has installed its handlers, which kills the process.
* The fitting tools and the generated matrices (offline), the MuJoCo scene and meshes (data).
* In the configuration: the values themselves, their parsing, and the reading of one node of the
  YAML, which either works or throws. A value that `strtof` makes nothing of is a value.
* The console log, which counts samples and prints.

## Plan

Done: the bus, the state machine, the simulator link, the services' loops, the leg angle, the
configuration, the start-up, the visualizer, the mesh repair; proofs of all safety properties
and of all three implementations of the two abstract specifications. Left:

1. The bus as it is created and used by the services: `create<T>()` of `Startup` in front of the
   topic of `MsgBus`, in place of the lock-free start that `MsgBus` assumes.
2. Two legs: `LegAngle` twice under `ChassisFsm`, so that `FLATTEN` is left when both are flat.
