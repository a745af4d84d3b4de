# Formal model of the universal remote

The firmware in this repository is an ESP32 remote control: a keypad, a small
OLED, an infrared transmitter/receiver and a Bluetooth LE HID keyboard/mouse.
Its tasks share queues, a stored model, a radio and a receiver, and what makes
them correct is not visible in any single function. Five parts are modelled here
in TLA+, checked with TLC and, where a statement should hold for every
configuration, proved with TLAPS: the Bluetooth runtime
(`components/bluetooth/bt_runtime.c`), infrared learning (`main/ir/ir_nec.c` with
its screens), the application model with its storage (`components/app_core`),
navigation (`components/ui`), and the path of a key from its contact to the host.

Source paths below are relative to `src/`.

## 1. Inventory of the system

| Component | State it keeps | Operations | Talks to | Hard part | What makes it correct |
| --- | --- | --- | --- | --- | --- |
| Bluetooth runtime worker, `bt_runtime.c` | struct `s` (stack layers, readiness flags, link and pairing flags, four deadlines), `s_snapshot` | one iteration per queued message; stop/start/restart; forget; deadline checks every 20 ms | `s_queue` in; controller, Bluedroid, HID, NVS; `evt_q` to the UI | blocks on event bits inside handlers; callbacks of a stopped generation are still queued; a start has six asynchronous gates | nothing torn down under a link; stale callbacks rejected; only the saved host admitted; OFF means off; no session in use on a set-up clock |
| Bluetooth callbacks, same file | `s_link`, event bits, `s_callback_generation` | `gap_callback`, `gatts_callback`, `hid_callback` | `s_queue` (dropped when full) | run in another task, half done while the worker looks | LINK_DOWN only after the HID handler |
| Bluetooth API and UI client, `bt_runtime.c`, `ui_bluetooth.c`, `ui_screens.c` | `s_desired_session`, `ctx->bt_session`, `ctx->sequence` | open, close, forget, peer_saved, tap, mouse, release | `s_queue`; saves the profile in NVS | non-blocking sends that may fail; durable save in another task than the pairing | a session serves what flash names |
| IR worker, `ir_nec.c` | `learning`, `learn_id`, `deadline`, receive buffer and `s_rx_done_q` | learn, cancel, transmit, frame, deadline | `cmd_q` in, `evt_q` out; the RMT interrupt fills the buffer | a cancelled request's frame or event arrives late; the worker blocks up to 500 ms in a transmission | a code is stored for the key it was recorded for; the receiver listens exactly when somebody waits |
| IR screens, `ui_ir.c`, `ui_screens.c` | `ctx->ir` (key, code, request, status), screen stack | select key, re-record, retry, leave, results | `cmd_q`, `evt_q`, NVS | leaving and results cross in two queues | a wait ends; old binding kept until the new one is saved |
| NEC encoder, `ir_nec_encoder.c` | resumable encoder state | encode, reset | RMT driver | partial encodings resumed at a full symbol memory | decode(encode(c)) = c |
| Application model and storage, `app_core/` | RAM model with a text row beside each remote, one NVS blob, the first firmware's store | create/update/remove/set_code/set_text with rollback; load with upgrade and migration | every task through a lock | save fails after RAM changed; two locks for one change; power lost in between | between calls RAM is what a restart would load; unreadable data is never overwritten |
| Key map, text and mouse output, `app_core/profiles/` | press/release progress, held buttons, movement | tap, text, mouse input, movement tick | HID reports | cancellation and failed sends in the middle of a key | what the host believes is down is what should be down |
| Keypad, `main/drivers/keypad.c` | the key, its press and repeat times | scan | UI queue (32, dropped when full) | 32-bit millisecond wrap; lost releases | a hold is a hold of that length, also across the wrap |
| Navigation and screens, `components/ui/` | screen stack of depth 8, one draft, session, request, pending removal | every key and every application event on every screen | model, both workers | late answers on another screen; exit hooks; flags shared by two flows | Bluetooth and recordings end with their screens; the right remote is written |
| UI task, `main/app/app_ui_task.c` | none | one key event, then all application events, then a tick | all of the above | the order in which these two inputs interleave | - |
| Display, icons, HID service, U8g2 | - | drawing; vendored GATT service | - | - | - |

`PROJECT.json` lists every component with its status, and the hazards with the
line where each one bites.

## 2. Modules

### Bluetooth

| Module | Models |
| --- | --- |
| `BtState` | constants, message and record types, the thirteen variables, enqueueing, deadlines, `TypeOK` |
| `BtWorker` | the worker task: `stop_runtime` and its waits, `start_stack`/`start_runtime`, every message handler, the tail of the loop |
| `BtLink` | the Bluedroid callback task, completions of requests, and the hosts |
| `BtUi` | the UI task as a client: open, close, forget, tap, release and the answer to a peer event |
| `BtRuntime` | composition: `Init`, `Next`, power loss, fairness |
| `BtProperties` | what the composition promises |
| `BtProofs` | theorems about types and stops, the link and its callbacks |
| `BtBondProofs` | theorems about forgetting and bonds |
| `BtServiceProofs` | theorems about a session in use: its deadlines, its link, its host |
| `BtRadioProofs` | the theorem about who may connect |
| `MCBtRuntime` | durable starting states and bounds for TLC |

How state corresponds to code:

* `s` has the fields of the C struct `s`. The booleans `controller_init`,
  `controller_on`, `host_init`, `host_on`, `hid` are the set `layers`; the
  `*_ready` booleans are the set `ready`; the four `*_deadline` times are the set
  `deadlines` of armed ones and the subset `due` of expired ones, so that time is
  the action `DeadlinePasses`.
* `work` is the worker's position. A handler that calls `stop_runtime` blocks
  twice (advertising stopped, link down) and reads state another task writes, so
  it is split exactly there: `stop_adv`, `adv_wait`, `disconnect`, `link_wait`,
  `teardown`, `host_off`, then `resume`. `work.k` says which handler is waiting
  and `work.post` where the loop continues. Everything between two such points
  touches only worker-owned state and is one action.
* `link` is the real link and what the tasks know of it: `up` is `s_link`, `down`
  the LINK_DOWN bit, `phase` the point a GATT connect or disconnect callback has
  reached. The order "clear `s_link`, run the HID handler, set LINK_DOWN, queue
  the message" (`bt_runtime.c` 172-197) is visible.
* `ctl` is the controller: advertising, whitelist, address resolution and the set
  `ops` of pending requests, completed in any order. A request that fails
  at once, or whose completion reports an error, is a fault.
* `nvm` is what survives `PowerLoss`: the saved peer of each profile, whether it
  still uses the bond database shared by migrated profiles, its HID subscription,
  and the bonds in each database.
* `desired`, `callbackGen`, `snapshot`, `queue` and `evtq` are
  `s_desired_session`, `s_callback_generation`, `s_snapshot`, `s_queue` and the
  application's event queue.

Abstractions: reports, text and mouse data are left out, only whether a send
fails is kept. A host is identified by its identity address; `IrkHosts` are the
ones with private addresses. The UI's turn (one key, then all events) is
over-approximated: menu actions and the answers to events interleave freely.
The contents of what the user sends are the subject of `InputPath`.
`Gates` lets a run drop some of the independent start-up completions, which all
behave alike.

### Infrared

| Module | Models |
| --- | --- |
| `IrLearn` | the IR worker, the receiver with its interrupt, the learning screens and the transmit key |
| `IrProperties` | what learning promises |
| `IrProofs` | theorems about codes, the buffer and the receiver |
| `MCIrLearn` | bounds for TLC |

The worker is split where it blocks or can be seen: the command queue, the
posting of an event (which waits up to 50 ms for room and then drops it), the
re-arming, the deadline check. The receiver is the record `rx`: enabled, armed,
the number of completed frames in `s_rx_done_q`, and the one buffer `s_rx_buf`
that the interrupt fills and the worker decodes. Pulse timing is abstracted to
whether a frame decodes. A code is abstracted to its origin: the request that was
being waited for, and its key, when the frame arrived. That makes the question
"is this the right code?" a question about states. The UI task's turn is
modelled exactly: one key event, then every queued application event.

### Application model and storage

| Module | Models |
| --- | --- |
| `RemoteModel` | a remote, the model, what flash can hold; acceptance, upgrade and migration as pure operators |
| `AppStore` | start-up and every call of `app_state.c`, with the save and the rollback as steps of their own |
| `DurableModel` | the abstract specification: a list on which a call makes one change at once, or none |
| `AppStoreProperties` | what storage promises, and the refinement mapping to `DurableModel` |
| `AppStoreProofs` | theorems |
| `MCAppStore` | stores of every version for TLC |

`call` is the program counter of the one task that writes: a call changes RAM,
saves, and on failure takes the change back, and other tasks may read, or power
may fail, between any two of these. Text is changed under its own lock before
the remote (`texted`, `untext`). `app_storage_save` writes one blob with
`nvs_set_blob` and `nvs_commit`, which NVS applies as a whole. A remote is its
kind, whether it is named, its keys, their codes and its bond store; icon, peer
and mouse settings are represented by an update that leaves those alone.

### Navigation

| Module | Models |
| --- | --- |
| `UiNav` | the stack, every screen and handler, every application event, and both workers as what they may answer |
| `UiRemoval` | the same with the exact turn of the UI task (a key, then all events, then a tick) and a history of removals |
| `UiNavProperties` | what navigation promises |
| `UiNavProofs` | theorems |
| `MCUiNav`, `MCUiRemoval` | bounds for TLC |

Cursor positions and entered names are abstracted: OK acts on any row that can
be reached. The Bluetooth worker appears as the peer events and states it may
show, the infrared worker as the results it may post.

### From a key to the host

| Module | Models |
| --- | --- |
| `Keypad` | the loop of `keypad_task` after the debounced scan, the wrapping clock, the UI queue that drops |
| `MouseMachine` | `bt_mouse.c`: what an input does to buttons, movement and pattern, and the reports it sends |
| `InputPath` | composition of both with the remote screen, the input generation, the worker's `tap`, `mouse_output`, `release_input` and tick, and the host |
| `InputProperties` | what the keys promise |
| `MCInput` | bounds for TLC |
| `InputProofs` | theorems |

`worker.at` is the position in one iteration: `receive`, `send` (between two
reports, where the UI may cancel and the link may go), `ready` (between the
release for a suspension and the check of the subscription), `tail` (the
comparison of generations) and `tick`. `host` is what the host believes is down;
it is set by a report that is delivered and cleared when the link goes. `deaf`
remembers that the host turned notifications off while something was down; it is
not told of the release then, and nothing can tell it. `ui.releasing` splits
`bt_runtime_release` between the new generation and the queueing of the message.

Abstractions: one saved remote stays open (opening, closing and pairing are
`BtRuntime`); the messages that make a connection usable are one, READY; the
events of one scan are posted together; a controlled disconnect succeeds; the
speed keys and distances are left out; the stack confirms every report it
accepts; the message of a host that comes back fits the worker's queue (one that
did not would leave the profile reconnecting). The order of the thresholds is kept (`REPEAT_DELAY_MS` 350 <=
`LONGPRESS_MS` 700), not their values. Since keys may rest for any time, every
press comes just before the clock wraps.

## 3. Runs

All instances are small but reach the interesting case; the bound of each kind of
environment step is in the MC modules (for Bluetooth `Bounds(sessions, links,
auths, events, forgets, inputs, faults, crashes)`). A bound limits how often the
environment acts, never the worker.

| Run | Shows | Bounds |
| --- | --- | --- |
| `bt_lifecycle` | open, connect, pair, lose the link, close and reopen in every order with queued callbacks crossing each stop; start-up completions in every order with a failing request: `LinkNeedsHost`, `ViewMatchesLink`, `StaleCallbacksRejected`, `RadioAdmitsSavedPeer`, `TypeOK` | two hosts, one with private addresses; 2 sessions and 1 link, or 1 session and 2 links, or 1 of each and 1 fault; fresh, bonded and migrated profiles |
| `bt_pairing` | pairing, saving, subscribing, suspending, typing, forgetting, with one step failing, with power lost at any step, and with two migrated profiles that share a bond: `OffMeansOff`, `HostDownIsSilent`, `InUseHasNoDeadline`, `InUseIsDurable`, `RadioAdmitsSavedPeer`, `OtherBondsKept` | one of each kind of step, 1 fault of any kind or 1 crash; 2 sessions where a second one matters |
| `bt_progress` | queues small enough to drop messages, lost completions: `CloseEnds`, `OpenSettles`, `SaveResolves` under fairness | worker queue of 1, event queue of 1, 1 fault |
| `ir_learn` | recording, cancelling, retrying, re-recording and transmitting, with queues small enough to drop: the infrared properties of section 5 | 2 keys, 2 learn requests, 2 frames, 1 transmission, 1 failing call, queues of 2 |
| `app_store` | every call, every failing save, every kind of stored data and power loss anywhere; refinement to `DurableModel` | 3 remotes, 3 keys of which one is MODE, any number of calls, failures and restarts |
| `ui_nav` | every key and event on every screen, with failing saves and late answers | stack of 8 as in the code, 2 remotes, 1 waiting event, 1 waiting forget, 2 session numbers (symmetric), any number of keys |
| `input_path` | two presses of any length on four kinds of remote, with one disturbance anywhere | queues of 2, clock of 4 ticks, hold of 2 ticks, text of 2 characters, 1 of: a lost link, a change of subscription, a suspension, a failing send or read, a slow UI |

In the safety runs of the Bluetooth lifecycle queues are 8 long (32 in the code):
with these bounds they never fill, which is the normal case of the code;
`bt_progress`, `ir_learn` and `input_path` have queues that do. Two sessions are
enough for a callback of one session to reach the next; one crash is enough for
flash to be read in every intermediate state; one fault at a time is what the
code's error paths are written for. In `input_path` a queue of 2 holds an input
and the release that crosses it, or is full when either comes; two presses are
enough for the second to start what the first one's release must not stop. Where
a larger bound or another fault would break a property is said below the
violation runs.

The Bluetooth runs and `input_path` say `CHECK_DEADLOCK FALSE`: when the
environment's budget is used up and every message is handled, the system rests. `ir_learn` checks
deadlock: the user can always press a key, so a state without a step would be
an error.

### Runs that end in a violation

Each states what a comment or document of the repository says, and finds a
behaviour of the code that contradicts it (see "findings" in `PROJECT.json`).

| Run | Property | Behaviour |
| --- | --- | --- |
| `bt_teardown_live_link` | `LinkNeedsHost` | stopping advertising times out, a host connects after the link check, HID and host are torn down under it |
| `bt_stale_after_stop` | `StaleCallbacksRejected` | a stop that gives up waiting for the link keeps its generation current, and queued callbacks are acted on |
| `bt_forget_races_pairing` | `UnpairedIsDurable` | the acknowledgement of a pairing's save is taken for that of the forget that follows it |
| `bt_pairing_window` | `PairingWindowKept` | the connection deadline of a failed attempt closes the whole pairing window |
| `ui_remove_pending` | `UnpairKeepsRemote` | two removals fail alike and the 25 ms sampling sees no difference; a later Unpair then deletes the remote |

The passing runs stay within what the code does handle, and these are the
boundaries: `LinkNeedsHost` and `StaleCallbacksRejected` do not hold when a
teardown step or the link wait fails, `RadioAdmitsSavedPeer` not after a lost
link-down wait, and `InUseIsDurable` not with two forgets in one session (an old
acknowledgement again); a bond whose removal completes after its 1.5 s wait can matter
to it only if the teardown that follows the wait fails as well. `InUseIsSaved` (section 6)
says that, with clean stops, messages taken and answers in time, only the forgets are left
to break it. `RadioAdmitsSavedPeer` and the second half of `ViewMatchesLink` also need every
answer of an authentication to be taken while its link is: `HandleAuthOk` (`bt_runtime.c`
795-821) does not ask `s.connected`. With a failed and then a successful attempt on one
link, both queued, the worker takes the failure, gives the link up and advertises again to
any host; it then takes the success of the link it gave up, and has its host saved while a
second host connects, which is shown as CONNECTED although nothing encrypted that link.
`bt_pairing` allows one attempt; for `ViewMatchesLink` section 6 proves that, with clean
stops and no report refused, nothing else breaks it. `MovementHasFinger` does not hold
with four changes of the host's subscription around one press and a queue of 4: a press
is queued behind the messages of an "off" and an "on", the host goes off once more, the
worker takes the first message, reads the subscription as it is now and shows
CONNECTING; the UI then refuses the release (`bt_runtime_mouse_input`, `bt_runtime.c`
936) without the cancellation that a full queue would cause (942); the host listens
again, the worker takes the second message and then the press: the pointer moves with no
key down. `MovementFollowsFinger` (section 6) says that nothing else breaks it.

## 4. Fairness

`FairSpec` of `BtRuntime`: weak fairness of the worker task, of the callback task
and of the UI's turn (FreeRTOS schedules a ready task of these priorities and
none of them spins), of request completions (Bluedroid answers, with an error if
need be; what is lost is a fault), of time, and of the end of a link after
`esp_ble_gap_disconnect`. Nothing is assumed of hosts and of the user's menu
actions: both may stop for good.

`FairSpec` of `IrLearn`: weak fairness of the worker, of the UI's turn and of the
deadline. No frame need ever arrive.

`FairSpec` of `InputPath`: weak fairness of the UI task and of the worker. No key
need be pressed and no host need come back.

## 5. Properties

Bluetooth, `BtProperties`:

* `LinkNeedsHost`, `OffMeansOff`, `HostDownIsSilent`, `StaleCallbacksRejected`:
  stopping. A stop is a sequence of waits and teardowns that interleaves with the
  callback task; these say that the link never outlives the stack, that the
  status shown is true, and that nothing of an old session lingers.
* `RadioAdmitsSavedPeer`, `InUseIsDurable`, `ViewMatchesLink`: who is served. The
  first relates the radio's configuration to flash, the second the session in
  use to flash and bonds, the third the worker's view of the link to the link.
* `OtherBondsKept`, `UnpairedIsDurable`: pairing and forgetting.
* `InUseHasNoDeadline`, `PairingWindowKept`: deadlines.
* `CloseEnds`, `OpenSettles`, `SaveResolves`: progress.

Infrared, `IrProperties`:

* `KeyGetsItsOwnCode`: the code stored for a key was received while that key was
  being recorded; `FreshCapture`: and by the request the screen waits for.
* `BufferStable`: the interrupt never writes the buffer while a frame in it waits
  to be decoded.
* `NeverDeaf`: a recording that goes on has a receive in progress or a frame
  waiting; no path leaves it listening to a channel that is not armed.
* `ReceiverAgrees`: when all queues are drained and nothing was dropped, the
  worker listens exactly for the request the screen waits for.
* `WaitEnds`: a wait for a code ends, unless a message was dropped;
  `ReceiverStops`: the worker stops listening for an abandoned request, even if
  the cancel was dropped.

Application model, `AppStoreProperties`:

* `RamIsDurable`, `ReadersSeeWhole`: failed saves and rollbacks, between calls and
  as seen by another task in the middle of one.
* `StoreKeptReadable`, `MigrationComplete`: nothing stored is lost, by a save over
  data that could not be read or by a migration that is repeated.
* `CallsAreAtomic`: the refinement; a call changes the durable list in the one
  step that commits, or not at all, and says which.

Navigation, `UiNavProperties`:

* `PushesFit`: the state is well typed, and no caller of `ui_nav_push` checks its result, and none has to.
* `WorkersHaveScreen` (`BluetoothHasScreen` and `RecordingHasScreen`): sessions and
  recordings end with the screens that show them, on every way out.
* `EditorHasRemote`, `PairingKept`: editor and wizard share screens, a flag and a
  draft, and pairing may finish meanwhile.
* `ForgottenBeforeRemoved`, `UnpairKeepsRemote`: removal of a paired remote.
* `BackHoldReturns`: where a hold of BACK ends.

Input, `InputProperties`:

* `HoldIsTimed` (with the type invariant), `LongPressStops`: holds across the wrap of the clock, and without
  the event that announces them.
* `MovementHasFinger`: what moves while a key is held has the key down, or its end
  on the way; `MenuIsStill`: the menu ends everything although the message that
  says so may not fit; `ReconnectsIdle`: nothing accepted on one connection acts
  on the next.
* `HostAgrees`: the host believes down exactly what is down, after failed
  reports, cancelled texts, suspensions and reconnections.
* `PowerSendsOne`: one press of the Fire TV power key sends the short or the long
  command, never both.

`MovementHasFinger` excepts a release that `emit_ui` dropped because the UI queue
was full (`keypad.c` 157): the pointer then moves until another key or MODE. The other
way to lose a release, beyond the bounds of the run, is described in section 3.

Every property of a passing run has a mutant in `PROJECT.json`: a variant of one
definition (in the module beside it, marked "variant") with which TLC finds the
property violated.

## 6. Proofs

`BtProofs` proves, for any profiles, hosts, queue lengths, faults and bounds that
satisfy `ConstantsAssumption`:

* `TypeCorrect`: `Spec => []TypeOK`. One lemma per group of actions; lemmas about
  the operators the handlers share (`BeginStopType`, `StartRuntimeType`,
  `ReadyIfSubscribedType`, ...) are stated once.
* `StoppedCorrect`: `Spec => []StoppedInv`, and from it `OffIsOff`
  (`[]OffMeansOff`) and `StoppedHostIsSilent` (`[]HostDownIsSilent`).

`OffMeansOff` is not inductive: OFF is shown at the end of a stop that began many
steps earlier, and only because `work.ok` is still true. `StoppedInv` adds what
is known on the way: `HostDownIsSilent` (without the host, no advertising, link,
pending request or flag; so a start finds a clean controller) and `StopSoFar`
(while `work.ok` holds, the layers already torn down are down, and a handler that
is about to show OFF or UNPAIRED has reached the end of its stop). The proof has
one lemma per group of actions; the status can only become OFF or UNPAIRED in
`FinishClose` and `FinishUnpair`, and every other step that changes layers,
radio or link leaves another status.

It also proves `LinkNeedsHost` (`NothingTornDownUnderLink`) and
`StaleCallbacksRejected` (`NoStaleCallbacks`) for every fault but three. The hypothesis
`CleanStops` excludes `adv_stop`, `link_down` and `teardown`: with any one of them the
code goes on after a wait of its stop has failed, and TLC finds one or both of the
properties violated (`bt_teardown_live_link` and `bt_stale_after_stop` are two of these;
a failing teardown needs two faults). Every other fault, and every message a full queue
drops, is allowed.

Neither property is inductive, because the worker never sees the link itself. It acts on
its own two flags (`s.advertising`, `s.connected`), on an event bit and on messages that
may be late or missing, so `LinkInv` says how far each of them can be trusted:

* `Viewed`: which combinations of link, `s_link` and the LINK_DOWN bit each phase of a
  GATT callback shows;
* `Stamped`: outside a stop the callback task stamps the worker's own generation, and
  nothing queued has a later one;
* `Served`: what is on the air or attached has the whole stack under it (this is the
  property), and HID is reported ready only while it is up;
* `Aired`: before a stop has silenced the radio, a link implies one of the two flags, and
  a radio that is on implies `s.advertising` without a link: advertising is asked for
  again only when the last link is known to be gone;
* `Wound`: what each wait of a stop has achieved when it ends, and that the LINK_DOWN
  wait is entered with a disconnect on its way or nothing to wait for;
* `Told`: a queued CONNECTED is the only one and the worker does not know of it yet; after
  it, or when `s.connected` already holds, a queued DISCONNECTED tells of a link that is
  gone. This is why taking messages late, or losing one, cannot turn the flags against
  the link.

A step of another task is covered by two lemmas, `QuietKeeps` (nothing new on the air)
and `AloofKeeps` (nothing about radio or link), a handler of the worker by `GoesLike` and
`StopsLike`; what remains are the steps where a link comes or goes.

`BtBondProofs` proves `OtherBondsKept` (`ForgetKeepsOtherBonds`) under the same
hypothesis, on top of `LinkInv`. `bond_used_elsewhere` looks at the stored remotes when
the worker asks for a removal; the bond goes some steps later, in another task. In
between, and since the session was opened, the worker relies on a copy of the profile,
while the UI saves, moves and opens profiles. `BondInv` says why the copy is still good:

* `Numbered`: session numbers are the UI's own and the next one is new; so `Named`: what
  bears the number of the UI's session is about the UI's profile, in the queue, in the
  worker's hand (`Opened`) and on the way back;
* `Moved`: a copy says that its profile is out of the shared database, or has no peer,
  only if flash agrees, because `ui_open_bt` moves an unbonded profile, durably, before
  it sends the OPEN; `Paired`: pairing only ever adds bonds outside the shared database;
* `Decided`: while a removal is pending, it is of the copy's own peer in the copy's own
  database, and no other profile of the shared database has come to use that bond.

`BondsTaken` shows that only a removal takes a bond. The hypothesis is needed for
`Decided`: a stop that succeeds takes the host down, and the pending removal with it. When
the teardown fails instead, the removal stays pending while the next OPEN replaces
the profile it was decided for. With one fault of any kind TLC finds no violation (`bt_pairing`).

`BtServiceProofs` proves `InUseUnderNoDeadline` (`InUseHasNoDeadline`), `ViewIsTheLink`
(`ViewMatchesLink`) and `InUseIsSaved` (`InUseIsDurable`), and `BtRadioProofs`
`RadioTakesSavedPeer` (`RadioAdmitsSavedPeer`), on top of `LinkInv` and `BondInv`. All four depend on what the worker
was told, so besides `CleanStops` they need that it is told: the hypotheses are action
formulas, `[][...]_vars` beside `Spec`.

* `StartsQueued`: no ADV_STARTED and no OPEN meets a full queue. `TimedInv` says that the
  start deadline runs only while an ADV_STARTED is queued ahead of every CONNECTED
  (`Announced`), and that what the UI sees as in use is connected and off the other two
  clocks (`Used`). An OPEN that is refused makes another session desired for
  a moment, in which the worker drops every callback message it takes (`bt_runtime.c` 886).
* `ReportsQueued`: nor do CONNECTED and DISCONNECTED. `Followed` then says that the last
  report still queued, or the worker's flag if there is none, is true to the link.
* `AuthsInTime`: an AUTH that succeeded is handled while the worker holds a link. Section 3
  shows what happens otherwise. `Vouched` says that such an AUTH, with no CONNECTED behind
  it, names the host of the link there is, and that it is encrypted; `Trusted` that the
  worker's `encrypted` means the same of the saved peer.
* `ForgetsInTurn` (for the last two, with the two before): a FORGET is handled when
  no question to the UI of its session and no answer to one is still queued. An answer names
  its session and not the question (`bt_runtime.c` 680), so the worker cannot tell which of
  two was answered; `bt_forget_races_pairing` shows what follows.

That a session in use is durable relates what the worker holds, what flash has and what is
under way between two tasks, so its invariant `KeptInv` follows every question:

* `OrderInv`: sessions are opened in the order of their numbers, the UI holds the last, what
  was asked or answered belongs to a session opened before those still to be opened, and an
  OPEN brings the peer that flash has;
* `SaveInv`: while the worker serves its profile, all that was asked is to save the peer it
  has (`Agreed`), and when it waits for no answer flash has that peer (`Durably`); while it
  forgets, the one question is to save none (`Sole`); before that nothing was asked
  (`NoneAsked`). `Settles` adds that a peer saved or being saved has its bond;
* `Guarded`: what the flags exclude while an answer is awaited (no advertising, no link that
  is not encrypted, a subscription only of a saved host);
* `Consistent`, `Proven`: authentications still queued, with no CONNECTED behind them, are of
  one host, and of the one in use when a link is encrypted; `Hosted`: only a host is linked.

That the radio admits only the saved host adds the controller to this: its tables change when a
request completes, the worker learns of it from a message, and only its flags
(`s.ready`, `s.phase`) decide the next step and, much later, that advertising may begin. So
`RadioInv` says, on top of `KeptInv`:

* `Single`: of the requests for the whitelist and the address resolution, and the messages
  that they are done, there is at most one at a time in the worker's generation;
* `OpFits`, `MsgFits`: it is the next step of the set-up, and the tables are what the steps
  before it, and it, have made of them;
* `SetUp`: once a flag says so, the whitelist is the saved peer alone and its addresses are
  resolved; `Sorted`: a session without a peer pairs;
* `Admits`: while the radio is on, or asked to be, no request of the tables and no removal is
  under way, flash has the worker's peer and so has what the UI is still asked to save, and what
  was checked before the start (the bond, the whitelist, the resolving list) stands;
* `Retries`: only a pairing window goes back on the air without a new set-up.

`TablesStay` and `AdmitsStays` cover the steps that leave the set-up where it is, so that only
the completions of `CompleteTable`, their handlers and the start of advertising are looked at closely.

The assumption is only that the model values are distinct, that the queues have
room for at least one message and that `Starts` is well typed.

`IrProofs` proves, under `IrLearn`'s `ConstantsAssumption` (distinct model values,
room for one message), for any keys, queue lengths, faults and bounds:

* `IrTypeCorrect` (`[]IrTypeOK`) and `BufferIsStable` (`[]BufferStable`). The
  strengthening `Receiving` says that a frame waits only on a channel that is not
  armed, and that none waits when the worker re-arms.
* `RightCode` (`[]KeyGetsItsOwnCode`) and `RightRequest` (`FreshCapture`, an action
  property). Nothing in the state says directly where a code in flight came
  from, so the invariant `IrInv` adds `Provenance`: every frame, pending event
  and queued event that could still be accepted, that is whose request is the one
  the screen waits for, was received for that request and its key. It is
  inductive with `Numbered` (requests are numbered by a counter that no message
  exceeds, so nothing in flight answers a new request) and `Screened` (no other
  screen than the waiting one has a request, and the result screen holds a code
  of its own key). The proof has three lemmas that say what a step of the worker
  or of the UI must do to keep the invariant (`WorkerKeepsOrigin`,
  `UiKeepsOrigin`, `StoreOrigin`), and one case per action that cites them.

It proves two more about the receiver, from the same invariant:

* `ReceiverIsNeverDeaf` (`[]NeverDeaf`): while the worker waits for a frame the
  channel is armed or a frame is there to be taken. It follows from `Hearing`, which
  says the same of every position of the worker at which it could come to wait.
* `ReceiverFollowsScreen` (`[]ReceiverAgrees`): once the queues are empty and nothing
  was dropped, the worker listens exactly for the request the screen waits for. The screen and the receiver are
  changed by two tasks that only exchange messages, so `AgreeInv` speaks of what the
  messages still to come will do: commands are queued in the order of their requests,
  the one waited for last (`Ordered`); a recording whose end is reported does not go
  on (`Settled`); the request waited for is recorded, queued, or its end is in
  flight, and a cancel follows every other recording (`Agreeing`).

`UiNavProofs` proves, under `UiAssumption` (the stack holds more than seven
screens, room for one event and one remembered forget, `NoId` is no remote's id,
the first list is well typed), for any remotes, ids and bounds:

* `StackHasRoom` (`[]PushesFit`), `ServicesHaveScreens` (`[]WorkersHaveScreen`) and
  `EditorSavesItsRemote` (`[]EditorHasRemote`), from one invariant `NavInv`. None is
  inductive: a push fits because of which screens can be below, and a screen finds
  its worker because of who opened it. `Shaped` gives every kind of screen a height
  it cannot exceed on the stack, and says that the second screen tells what the
  user does. `Serviced` says that a Bluetooth session is open exactly while the device's
  screen is on the stack, that a pending request implies a session, and that an
  infrared request is out only while the waiting screen is on top. `About` says that
  the screens speak of a remote that is stored, and of the right kind.
* `PairingIsTheWorkers` (`PairingKept`), `PeerForgottenFirst`
  (`ForgottenBeforeRemoved`) and `HoldReturnsToParent` (`BackHoldReturns`), three action
  properties, from the same invariant. The last needs `HeldOn`: while BACK is held, the
  screens below the one where it went down are still there, or all is closed.

There is one lemma per handler, and `RemotesStep` lists the handlers that store.

`AppStoreProofs` proves, under `StoreAssumption` (at least one remote and one
assignable key, room for the first firmware's codes) and `StartAssumption` (what
flash holds at first is well typed and its entries behind the last are clear),
for any number of remotes, keys, codes and texts and for any number of failures:

* `StoreCorrect`: the inductive invariant `StoreInv`. That RAM is durable between
  calls is not inductive: during a call RAM differs from flash by exactly the
  change in progress, and a rollback must lead back. `StoreInv` says that undoing what
  the call has done so far gives what flash loads (`CallInv`), and that what may be
  stored is `Whole` (valid remotes, text exactly on assigned keys), and saving a
  whole model and loading it again gives the same one (`SerializedLoads`).
* from it `StoreTypeCorrect`, `RamStaysDurable`, `ReadersAlwaysSeeWhole`,
  `StoreStaysReadable`, and
* `StoreImplementsDurableModel`: `Spec => Abstract!Spec`, with `RefinesInit` and
  `RefinesStep` (every step is a step of `DurableModel` or a stutter;
  `SavedIsOneChange` shows the one change a committed save makes).
* `EveryCodeMigrates`: `[]MigrationComplete`. The property counts codes and asks for each
  key how many keys before it are used; both are cardinalities. `EveryCodePlaced` and
  `DifferentSlots` say that the n-th old code has exactly one place (the key of that rank,
  on the remote it falls to), `SlotOrder` that places are ordered as the codes, so
  `PlacesCount` counts the keys used before one along a bijection. `MigratedInv` adds that
  remotes a failed save left unsaved are still those the migration made.

`InputProofs` proves, under `KeypadAssumption` (thresholds in the order of the code,
no press as long as the clock takes to wrap, its release one scan later included),
`MouseAssumption` (the movement `None` is no key) and `InputAssumption`, for any clock, thresholds, queue lengths, texts and bounds:

* `HoldsAreTimed` (`[]HoldIsTimed`): the strengthening `HoldInv` says that the
  clock shows the start of the press plus its age, modulo the wrap, and
  `AgeIsShown` that the code's unsigned difference then is the age. Types of every
  action come with it (`InputInv`, which adds that only a text has characters left).
* `OnePressSendsOne` (`[]PowerSendsOne`): the flag that decides what a release sends
  is set by one event and read by another, and the queue between them may drop
  either. `PowerInv` says that queued events are ordered by press and a press
  event precedes the others of its press (`EventsOrdered`), that what was sent
  came from presses no later than those queued (`TapsPrecede`), and that while the
  key is pending nothing was sent for a press whose events may still come
  (`PendingAskedNothing`). One lemma says what a scan posts (`ScanPosts`), one what
  taking an event leaves (`Taken`), and one per kind of event that it is kept.
* `HostIsRight` (`[]HostAgrees`) and `ConnectionsStartIdle` (`ReconnectsIdle`), from one
  invariant `HostInv`. What the host believes changes with reports, which may fail in the
  middle of a click, and with a link that can be gone, or even back, long before the
  worker takes the message that says so:
  * `HostTracks`: between two outputs the host has down what the mouse has, and within
    one the last report still to be sent says what the mouse has;
  * `RunsOrdered`: while a connection is in use, no input of an earlier one is queued,
    because the READY that begins it was queued behind them;
  * `IdleUnlessUsed`: out of use, the mouse is idle and nothing is being sent;
  * `UnusedBehindEnd`: a link that is up although the end of the one before is still
    queued has carried nothing, and no input of the current run is queued before that
    end. So taking a DISCONNECTED never leaves a host with something down.

  `Onward` states what a step of the worker must do to keep it; a few lemmas show it for
  what the handlers share (`ReleasedOn`, `RestartOn`, `ReadyOn`, ...), and every handler
  cites those.
* `MovementFollowsFinger` (`[]NoneWaits => []MovementHasFinger`): the release that will
  stop a movement may be in the keypad's queue, in the worker's, or not yet made, and any
  of the queues, the screen or the worker may pass it over. `FingerInv` follows it:
  * `EventsEnd`, `InputsEnd`, `MovementEnds`: behind each event that begins something,
    each queued input that will be accepted, and the movement itself comes the release
    that ends it, or its key is still down;
  * `Generations`: inputs are queued in the order of the input generation, and none of
    an older one is queued behind the mouse's; so what is refused was never the release
    of what moves;
  * `Listened`: nothing that will be accepted is queued, and nothing moves, while the
    menu is shown or the link is lost; so a release that the screen ignores was not needed;
  * `MovementKnown`: only keys the mode uses move anything, and a momentary pattern is
    the one of its key.

  The hypothesis `NoneWaits` (no input that will be accepted waits while the worker
  shows CONNECTING) is needed: without it TLC finds the behaviour described in section 3.
  `WorkerMoves` says in one formula what any step of the worker does to the movement, so
  only the mouse's own input is looked at closely (`InputMoves`).
* `LongPressesStop` (`[]NoneWaits => LongPressStops`): the length of a press is the difference
  of two stored times, one in the release and one in the mouse, so the release must be shown
  to meet the press it ends. `PressInv` follows each press on the pattern profile:
  * `Traced`, `Tracked`: the press is the last thing ahead of its release, apart from holds
    and repeats, in the queue of the screen, in that of the worker, or in the mouse; or it was
    passed over, and the mouse is at rest;
  * `PadKnown`, `EventsKnown`, `InputsKnown`: this holds of the key that is down and of each
    release in either queue, with a start to which the age the release carries adds up
    (`Ended`); these three assume that no press, release or cancellation was dropped
    (`NoPressLost`), as the property does;
  * `LooksFirst`: a mouse of an older generation takes no input that counts, because the
    worker looks at the generation again first (`LooksAgain`);
  * `RestsUnlessUsed`: out of use, and on the menu once the worker knows, the mouse rests.

  `AgeIsShown` then gives the difference the code computes. The hypothesis `NoneWaits` is
  the one above: the screen passes over a press while CONNECTING is shown, although inputs
  still queued will be accepted, so the mouse need not be at rest when the release comes.

Only model-checked: liveness (TLAPS has no ENABLED here), that is `OpenSettles`, `CloseEnds`
and `SaveResolves` of the Bluetooth runtime, `WaitEnds` and `ReceiverStops` of the infrared
worker and `MenuIsStill` of the input path; and everything about the violation runs. Every
other property of the passing runs has a theorem.

## 7. Not modelled

* The NEC encoder (`ir_nec_encoder.c`) and the timing test of `nec_try_decode`:
  the encoder is a resumable state machine called from the RMT driver, whose
  calling contract is not in this repository. `IrLearn` keeps whether a frame
  decodes.
* The usage tables of `bt_keymap.c`, the report maps and the advertising payload
  (`bt_advertising.c`): constants that nothing branches on.
* Distances of the mouse, its speed keys and the random curve of the organic
  pattern.
* The matrix scan of the keypad and the comparison of samples: they keep no state.
* One OPEN that does not fit in the queue while the session before it is still
  alive (`bt_runtime.c` 886), and the index `bond_used_elsewhere` works with when
  the list of remotes changes meanwhile (267): both need two of the models at once.
* Whether Bluedroid confirms every report it accepted: `ble_hidd.c` 924 waits for
  it without a limit.
* Creation of tasks and queues at start-up; display, icons, fonts; the vendored
  HID service beyond its subscription value, its events and whether it accepts a
  report.

## 8. What could follow

1. An abstract specification of a Bluetooth session (off, starting, searching, in
   use, stopping, with the durable peer), refined by `BtRuntime`.
2. The pulse encoding of a NEC frame against its decoder over bounded frames.
