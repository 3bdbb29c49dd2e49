# 3DSendai in TLA+

3DSendai puts coding agents that run on a workstation onto a Nintendo 3DS: a
TypeScript host attaches to terminal multiplexers (herdr daemons or tmux) or
spawns agents itself, and a C client on the device shows their board, their
terminals and their requests for approval. This directory specifies the parts
of it whose correctness depends on order, interleaving, limits and failure,
checks them with TLC on small instances and proves the main results with TLAPS.

Paths below are relative to `src/`.

## 1. Inventory

### Parts, state, operations

| Part | State | Operations | Talks to |
|---|---|---|---|
| Agent board, `client/source/board.c` | packed table of at most 16 rows, cached display order, cursor (a session id), one in-flight approval with its tick, scroll position | upsert, remove, init, cursor set and move, arm approval, viewport | called by `main.c` on the one main thread |
| Device loop, `client/source/main.c`, `approval.h`, `alert.h` | picker rows, eight terminal slots, focus, screen mode, approval queue, alert log, push-to-talk flag | one frame of the loop: keys, touch, poll; one handler per message | `net.c`, board, terminal |
| Device transport, `client/source/net.c` | socket, receive buffer, epoch, two record counters | connect, attach, send, poll | host transport |
| Host transport, `host/src/server/`, `protocol/src/` | per connection: authenticated flag, attach timer, epoch, counters, decoder, sealed bytes not yet written | open, data, drain, close, error, timer | device transport; application callbacks |
| Host application, `host/src/app.ts` | the current sink | onAttach, onFrame | registry or bridge |
| herdr bridge, `host/src/herdr/bridge.ts` | clients per session, pane tables by device id and by (session, pane), focus, control channel, queued operations, approvals in flight, refresh timer | start, resync, route, stop, events of the subscriptions, timer | daemons through `socket.ts`, device through the sink |
| tmux bridge, `host/src/tmux/bridge.ts` | control child, sessions by id, name and pane, focus, activity clocks | start, resync, route, stop, control-mode events | tmux, device |
| Registry, `host/src/registry/` | sessions, focus, parked approvals with timers, bounded replay log | create, close, focus, route, adapter events, timeout, replay | adapters, policy, device |
| Voice, `host/src/audio/voice.ts`, `client/source/mic.c` | one utterance buffer and its session; capture ring | audio chunk, final chunk | bridge (injected keystrokes) |
| Terminal, `client/source/term.c`, `termfont.c` | ring of rows, cursor, attribute, parser state, scroll offset; glyph atlas | feed, scroll, reset, draw | device loop |
| Bottom screen, `client/source/ui.c`, `input.c`, `json.c` | none of its own | draw, hit test, key bytes, JSON fields | device loop |
| Discovery and pairing, `client/source/main.c:553-699`, `cam.c`, `paircfg.c`, `discovery.c` | pairing file, configuration, key in force, retry countdown, scan worker and its payload | scan, save, apply, probe, dial; worker: decode, hand over | UDP, SD card, camera, device transport |
| QR reader, `client/source/quirc.c` | grid, regions, tables | threshold, flood fill, finder rows, decode | scan worker |
| Cipher, `client/source/crypto.c`, `monocypher.c` | none | seal, open | device transport, discovery |

The host is single-threaded: everything between two `await`s is atomic, and
whatever happens during an `await` may happen in any order. The device runs one
loop; a frame handler runs inside the poll. The two sides share nothing but the
message stream of one connection, and a new ATTACH replaces the old sink.

### What is hard, and what makes each part correct

* Board: rows are re-sorted, removed and evicted under the user's cursor, at
  any moment. The selection has to stay on the session, the order on the
  screen has to be the order of the table, and Accept must be sent once per
  question although the host repeats rows and the tick wraps.
* herdr bridge: several daemons boot, fail, restart and reuse pane ids while a
  device attaches, detaches and sends operations. The bridge must keep one
  control channel on the pane in focus, never give an id twice, keep the
  failure of one daemon to itself, keep its refresh loop going exactly once,
  and never have two approvals of a row outstanding.
* Transport: counters on both sides have to agree through partial writes,
  drops and reconnects; what arrives is a prefix of what was sent.
* Registry: an answer, a timeout and the end of a session race for a parked
  approval; a replay must say when frames are missing.
* Device loop: picker, slots, board, focus and approval queue are five views
  of one set of sessions with different capacities and different resets.
* Terminal: a pane's bytes arrive cut anywhere, with any parameter; whatever
  they are, the cursor stays in the grid and the history is not rewritten.
* Pairing: a camera thread beside the loop, a file that is truncated in place,
  replies that come late, a host that moves. Only the code on the screen may
  be applied, and a paired device must come back.
* tmux bridge: panes are bound to sessions by what is in focus when their
  output arrives; the child may die and must be replaced.
* Voice: a lost final chunk or a switch of focus must not mix utterances.

`PROJECT.json` lists these hazards at their lines, with the properties that
cover them or the reason why none does.

## 2. Modules and plan

| Module | What it is | Checked by run | Proofs |
|---|---|---|---|
| `AgentBoard` | the agent board | `board`, `board_taps`, inside `device` | `AgentBoardProofs` |
| `HerdrBridge` | the herdr bridge and its daemons | `bridge_device`, `bridge_sessions`, `bridge_leak`, `bridge_ghost` | `HerdrBridgeProofs` |
| `DurableBuffer`, `Registry` | the replay log, the session registry over it | `registry`, `registry_shared` | `RegistryProofs` |
| `Delivery` | abstract: a FIFO that may lose its tail | as `Delivers` in `transport` | implemented by `Transport` |
| `Transport` | both ends of the encrypted connection; implements `Delivery` | `transport` | `TransportProofs` |
| `ScrollLog` | abstract: a scrolling log and a window on it | as `KeepsLog` in `terminal` | implemented by `Terminal` |
| `Terminal`, `TermFont` | the emulator and what a frame draws of it; implements `ScrollLog` | `terminal` | `TerminalProofs` |
| `Ring`, `Ui` | the device's rings, the bottom screen's widgets and keys | `device` | in `DeviceProofs` |
| `Device` | the attached main loop, composed with `AgentBoard` | `device` | `DeviceProofs` |
| `Pairing` | start-up, scanning, discovery and retries | `pairing` | `PairingProofs` |
| `Text`, `Aead`, `Qr`, `QrScan` | pure algorithms as operators | `TextChecks`, `AeadChecks`, `QrChecks`, `QrScanChecks` | |

The check modules hold assumptions without variables; TLC evaluates those of
`AeadChecks` at the start of run `transport`, the other three at the start of
run `pairing`. `MCDevice` and `MCTerminal` hold the ones about rings, touch
geometry, key tables and the glyph atlas.

Left, most important first:

1. Lemmas about the pure algorithms of `Text` and `Aead`, by the induction that
   `FoldFacts` makes available (section 11).
2. `TmuxBridge`: child, panes, focus, idle alerts; the host's `Voice`.
3. `System`: bridge and device over `Delivery`.

Runs are kept few: one or two per module, with the constants that make
eviction, refusal, re-use and overlap happen.

## 3. AgentBoard

State corresponds to `ab_board` (`board.h:44-64`): `rows` is the packed table,
`order` the index array, `cursor` = `cursor_session`, `scroll`, `inflight` =
`inflight_session`, `since` = `inflight_since`; `now` is `g_tick` of `main.c`.
Positions are 1-based, -1 becomes 0, session id 0 becomes `NoSession`.
`hold` is auxiliary: for each id, the ticks for which its last approval has
neither been answered nor expired. It records what should be true of the code
and is read by no guard.

| Action | Code |
|---|---|
| `Hello` | `AGENTBUS_MSG_HELLO` in `main.c`: `ab_board_init` |
| `Upsert`: `UpdateRow`, `InsertRow`, `EvictAndInsert` | the three ways through `ab_board_upsert`; the refusal changes nothing and is a stutter |
| `RemoveRow` | `ab_board_remove` |
| `CursorSet`, `CursorMove` | `ab_board_cursor_set`, `ab_board_cursor_move` by one row |
| `ArmApproval` | `ab_board_arm_approval`, called by `board_approval` |
| `Viewport` | `ab_board_viewport_top` |
| `Tick` | `++g_tick` |

`board_reorder` is not a step: it runs inside each action, and `order'` is
chosen from `BlockedFirst(rows')`, the set of permutations that sort the table
by (blocked, index); the set has one member. In `EvictAndInsert` the code
sorts twice, and the cursor fallback sees the first of the two orders.

Run `board` (63 232 states): four ids for three seats, one allowlisted kind and
one that is not, blocked and working, a cooldown of two ticks on a clock of
four, a window of two rows. Three seats are the least for which an eviction can
hit the cursor's row, the row before it or the row after it while a blocked row
stays; four ids make the table overflow; the clock is longer than the cooldown
and wraps within it. The ids are symmetric. Deadlock is checked.

What it shows: `TypeOK`, `DisplayOrder` (the cached order is never
stale), `SomethingSelected`, `InflightRowBlocked` (removal, eviction and a
status change all release the slot), `DoubleTapHeld` (a re-sent row does not
re-enable Accept, across the wrap), `CursorTracksIdentity`,
`BlockedKeepsSeat`, `ViewportShowsCursor`.

Run `board_taps` finds a disagreement: `board.h:126-128` promises that arming
disables further sends *for the row*; there is one slot for the whole board,
so Accept on A, on B, and on A again is sent three times.

## 4. HerdrBridge

| Variable | Code |
|---|---|
| `single` | `singleRunner` is given (one fixed daemon) or not (discovery) |
| `phase`, `disposed`, `nextId`, `focused`, `clientSize`, `pendingOps`, `approvalsInFlight`, `failedNotified` | the fields of those names |
| `sessions`, `client` | the `sessions` map, and the `SessionClient` objects it and pending continuations refer to; an object nothing can reach is removed from `client` |
| `byId`, `byKey` | the two pane maps |
| `channel`, `channelSize` | `child`: the device id it was spawned for and the size it was last told |
| `discovering`, `timers` | continuations waiting for `discover()`, armed refresh timers |
| `asking`, `sending` | approvals waiting for the snapshot, for `send_keys` |
| `shown` | auxiliary: what the device's board has been sent since its last ATTACH |

An action is the code between two awaits: `start` and `bootstrapAll` are split
into `AttachIdle`, `DiscoverAttach`, `BootSnapshot`, `BootSucceeds` or
`BootFails` per client, and `FinishAttach` in the step of the last client. The
operations that arrived meanwhile are flushed one by one in `FlushOp`; while
`Flushing` nothing else runs, as the loop in the code is synchronous.
`doRefresh` is split the same way. A subscription that is open may deliver any
event (`PaneCreated`, `PaneExited`, `AgentDetected`, `StatusChanged`) or close
(`SubClosed`); each resubscribe still on a client's chain may succeed or fail.

Abstractions: the acknowledgement of a subscribe and the continuation that
stores the subscription are one step. `end()` stops the events of a
subscription. The focused-pane hint may name any live pane, so `SeedFocus`
chooses any. The gate of an approval (`approvals.ts`) is a free choice, as
the daemon's snapshot is. A KEYSTROKE changes no state of the bridge. The
first resubscribe of a boot is part of the boot, later ones are counted in
`resubs`: `BootsAreFresh` shows that a boot has a client of its own, which
justifies the split. Alerts other than session_ended are a function of the
status and are left out. ATTACH and operations are not taken after `stop`.
`BridgeAssumption` has at least one name, as the single bridge has one and a
discovering bridge without any would have nothing to do. Every property that a
passing run checks is proved for any number of daemons, panes and ids (section 11).

Run `bridge_device` (594 194 states): one daemon with two panes, both kinds of
bridge, two sizes, focus, resize and approve from the device at any time, two
operations queued at most, two device ids in use at most (a third pane or
re-use blocks the step that needs it), two chained resubscribes, two client
objects so that a given-up client can act beside its replacement. It checks
`TypeOK`, `ChannelFollowsFocus` and `OneApprovalPerRow`.

Run `bridge_sessions` (1 649 041 states): two daemons whose panes have the same
id, three device ids so that a pane can be lost and found under a new one,
three client objects, focus operations. It checks `ChannelFollowsFocus`
(with two sessions), `KeyIndexSound`, `BoardMirrors`, `RefreshLoopAlive`,
`BootsAreFresh`, `IdsNeverReused` and `IsolatedFailure`.

The bounds cut histories (ids and chained resubscribes are used up), never
values: every pair of races (loss and resubscribe, loss and refresh, attach
and boot, exit and event) fits in two resubscribes and three ids. Client
objects are symmetric. Deadlock is not checked: a stopped bridge with nothing
outstanding really stops.

Runs `bridge_leak` and `bridge_ghost` find two disagreements with comments of
`bridge.ts`. A resubscribe chained before a loss leaves an open subscription on
a failed client, which nothing ends (`:713-716` says the leak is prevented).
Panes committed by a snapshot can be shown by a board emitted while the
subscribe is awaited, and are dropped silently when it fails (`:746` says
such a bootstrap never committed); an ended pane's row comes back with
`pane_agent_detected` (`:674` says it drops off).

## 5. Registry and DurableBuffer

`DurableBuffer` is the replay log as operators on a record `[items, seq]`:
`Record` and `ReplaySince`. `Registry` keeps one in `buffer` and
records every frame it emits there.

| Variable | Code |
|---|---|
| `sessions`, `nextId`, `focused`, `pending`, `buffer` | the fields of those names; a session's adapter is its `liveApproval` |
| `timers` | the timeouts scheduled and neither fired nor cancelled |
| `waiting` | external: what the adapters have asked and not had decided (`pendingApprovals` of the codex adapter) |
| `unanswered` | external: what the device's overlay queue may still answer |
| `askedAt` | auxiliary: the number of each APPROVAL_REQUEST |

A request is the pair of its session and the agent's count; it also stands for
its timer, as it is scheduled once. What goes over the wire is `Name(request)`:
with `SharedIds` two sessions may use the same one, since the id is the
agent's own string.

`Create`, `Close`, `FocusSession` and `Answer` are the calls into the registry;
`Output`, `Status`, `ErrorOrBlocked` and `Escalate` the adapter events;
`Timeout` the timer callback. No handler awaits, so each is one step. An approval
the policy approves changes nothing; one it blocks is an ERROR frame. The
sink is left out: frames are recorded whether or not one is bound, and nothing
reads it. The device answers each request it was shown at most once, addressed to the session of the
request (`respond_approval` in `main.c`), perhaps after the timeout or after
the session has closed; the decision itself makes no difference to the host.

Run `registry` (167 245 states): two sessions with two approvals each, unique
ids, a log of three frames and ten frames in all, so a parked request is pushed
out of the log and more than three overflows follow. An agent asks, answers,
timeouts and the end of the session in every order. `ReplayHonest` and
`ParkedIsReplayed` quantify over every cursor; `NoneForgotten` says that the
timer of a waiting agent is armed and will find its request; `EventuallyDecided`
that each wait ends. The frame bound leaves room for the timeout of every armed
timer, so it never holds back a timer. Deadlock is not checked: at the bound,
with every approval decided, nothing is left to happen.

Run `registry_shared` is the same instance with `SharedIds`: it finds that
`EventuallyDecided` fails. `pending` is keyed by the id alone, so one request's
timeout un-parks the other, whose own timeout then does nothing; `index.ts:19-21`
promises a denial.

## 6. Terminal, TermFont and ScrollLog

`Terminal` is `term.c`. The record `t` is one `ab_term`: `rows`, `base`,
`count` the ring, `off` the scroll offset, `row` and `col` the cursor (a column
of `Cols` is the deferred wrap), `attr` the SGR state, `phase` and `csi` the
parser. `Feed(b)` is one byte of `ab_term_feed`, so a state after it is a state
at which a chunk may end; `Scroll`, `ScrollToBottom` and `Reset` are the other
entry points. Parameters are `int`s whose products wrap (`Wrapped`), which is
what the compiled code does.

`ScrollLog` is the promise of `term.h`: `live` lines that output may rewrite,
`past` lines that nothing may, and a view. `KeepsLog` is the refinement: the
history is what the ring holds above the live screen, the live screen its last
rows. `TermFont` adds what a frame draws, and `DrawsTheWindow` says it is the
log's window, with one block cursor on the live view only. `WritesAtCursor` is
a step property: one byte changes one cell or blanks.

Run `terminal` (427 680 states): two by two cells over a ring of three rows,
so every scroll past the first turns the ring; one printable, eight controls,
the escape, all final bytes by kind, two of them with parameters, and a
three-bit `int` in which one digit already overflows. One parameter byte fits
the buffer, so longer sequences take the overflow path. Sequences the bounds
leave out (two parameters, SGR lists) run through the same operators at the
real size in `MCTerminal`, against the expectations of `client/test/termTest.c`.
All four properties are proved for every size (section 11).
The atlas is checked byte by byte: every pixel of every glyph has a place of
its own inside the texture.

## 7. Transport and Delivery

| Variable | Code |
|---|---|
| `dev` | `net.c`'s statics: socket, epoch, both counters, receive buffer; `waiting` while `recv_exact` waits for the epoch |
| `conn[c]` | the host's state of connection c (`ConnState`, `Connection`, `EncryptingSink`), the bytes under way (`down`, `up`), and, auxiliary, what was handed over and given out each way |
| `broken` | the connections the network has cut |
| `token` | whether the device's token is the host's |

A sealed record is two pieces, so each write and each read may cut it; every
record carries one frame. The cipher is symbolic here: a record opens whole,
under its own direction, epoch and number. `DeviceSends` may fail after any
number of pieces once the connection is lost, and disconnects; `DevPoll` serves
every whole record, and the CLIENT_SIZE that answers HELLO may itself lose the
connection in the middle of the buffer (`PollRecords` is its loop). `HostData`
serves a whole chunk (`ServeRecords` is the loop of `data()`),
`HostSends` is the sink with its watermark, `HostDrain` the socket's room
coming back, `HostTimer` the attach timer at any moment. The host keeps an old
connection until it closes, also while the device is on the next one.

`Delivers` is the refinement of `Delivery`: per connection and direction what
comes out is a prefix of what went in. `CountersAgree` says why the next
record will open: the two counters differ by the records between them, at
every cut. `AttachedStays` is the timer's race, `EventuallyGreeted` the
liveness. Both speak of frames the host can read and whose handlers do not
throw: the catch around `feed` (`server/index.ts:219-226`), which answers ERROR
and ends the connection, attached or not, is not modelled.

Run `transport` (339 268 states): two connections, three frames down and two
up besides the protocol's own; a receive buffer of two records, a socket of one and a
half, a watermark of one, so that writes are cut and the sink overflows
(asserted in `MCTransport`). Two connections are enough for what crosses from
one to the next (old bytes, counters, timers, late closes), as the device
forgets all earlier ones; the proofs (section 11) are for any number. The last connection meets no fault, for the sake of
`EventuallyGreeted`. Deadlock is not checked: the last connection may be
idle with nothing left to send.

`Aead` is the cipher itself: XChaCha20, Poly1305 and the record around them,
bit for bit. `AeadChecks` has the known answer both sides are tested against,
the arithmetic at the modulus, the cutting into blocks, and what the symbolic
cipher assumes: an altered, cut or displaced record does not open.

## 8. Device, Ring and Ui

`Device` is the loop of `main.c` while it is attached or trying to be: one
action per message type of `on_frame`, the buttons of one pass
(`HandleButtons`), a touch (`HandleTouch`), the head of a pass (`FrameStart`),
the poll that finds the connection gone, the reconnection. It holds
`AgentBoard` by INSTANCE over the same variables and uses its actions
(`Board!Upsert`, `Board!CursorMove`, `Board!ArmApproval`) as the code calls
`board.c`. `slots`, `focused`, `grid` and `shown` are the code's four ideas of
the focused session: the slot table, `g_focused`, `g_ui.term` and
`g_ui.focused_id`. The approval queue is `Ring`'s; what can be touched is
`Ui`'s hit test over the widgets drawn in the present state. Each send may
fail, which closes the socket while the handler runs on.

* `FocusSound`: the four ideas agree, no two slots have one session, and after
  HELLO the focus is a session this host has named on this connection.
* `OverlayIsOldest`: the overlay's head, as the ring turns, is the oldest request
  taken and not answered (`asked` is auxiliary, a plain queue).
* `AnswerIsClaimed`: a press that answers an approval does nothing else. It
  speaks of single buttons and of A with B; a second button pressed in the same
  frame acts on its own, as the code intends.
  `DeviceProofs` proves it for presses with no third button beside A or B, which
  the run's all are, and for any press that an answer opens no row and leaves
  the screen.
* `TypeOK` also says that the capture runs exactly while the talk flag is set,
  and that the board keeps its own invariants inside the loop.
  `DeviceAssumption` includes what the board assumes of its capacity and clock.

Run `device` (915 048 states): three sessions for two slots and two picker rows,
one board seat, two approvals for a queue of two. Sessions and approvals are symmetric.
`MCDevice` also checks, over bounded inputs: the alert log keeps the latest, a
mute is its session's own, the microphone's reader returns every sample once
across the wrap, a touch hits the widget that is seen at every pixel, and a
key's bytes are the same wherever it is shown.

## 9. Pairing, Text, Qr and QrScan

`Pairing` is the device from power-on to a connection. Two threads: the frame
loop, at `pc`, and the scan worker. `s_have` and `s_running` are shared without
a lock and each access is a step; a copy of the payload is under the lock and
is one step. `OpenFile` truncates the pairing file, `WriteFile` leaves any
beginning of the line, `Crash` restarts the device at any step with what is on
the card. `Beginnings` says what a beginning reads as: it is refused when it ends
inside the key, the host or `?token=`, and is a pairing of its own when it ends
after the key, in the port's digits, before or inside the token. `CutAddr` and
`CutToken` are the addresses and tokens that result. A reply is fresh only
while the device waits on its probe; replies are kept, repeated and delayed in
`air`; the host may move to another address. Two variables are auxiliary:
`since` is where the host has listened since the probe, `given` which pairings
the device has been given whole (on the card at first, scanned, or built in).

* `ScanIsFresh`: what is saved and applied was decoded during the scan on the
  screen, although a cancelled scan's worker may still store a payload.
* `LinkIsPaired`: a connection is only open under the configured key, the device
  dials the configured address or one its host has had since the probe, and the
  configuration is one it was given whole or, read from the card, the beginning
  of one with its key. So no cut save mixes two pairings (as writing over the old
  line without emptying it would: the property's mutant) or yields another key. It
  does lose things: the pairing itself, or the right port or token (section 10).
* `Reconnects`: a device that keeps the host's key gets a connection again and
  again, whatever is scanned, cancelled or lost meanwhile.

Run `pairing` (1 117 444 states): two keys, a pairing with address and token and
one with neither, an address and a token that are cut to another, an empty and a
malformed PSK in `config.h`, one restart of the device and one of the host, a
countdown of one frame. One restart is enough for every cut, as it loses all
but the card. `CutsAreRead` in `MCPairing` compares `Beginnings` with the parser of
`Text` on these pairings' lines, ended at every place. Deadlock is not checked: a worker that
waits for ever and a bound used up may coincide.

`Text` is the JSON scanner and escaper, the hexadecimal decoder and the pairing
URI beside the host's parser of it; `TextChecks` runs them on every short input
over the letters the grammars tell apart: what is escaped reads back, the two
parsers agree, a pairing returns from the card. `Qr` decodes a grid (versions 1
to 7, all masks, error correction, four segment types), `QrScan` finds finder
patterns (threshold, flood fill with its bounded stack, run ratios); their
checks compare with reference definitions: the walk reads each data cell once, up
to half the parity is corrected and no wrong block passes, a fill takes its
connected region, a finder anywhere in a small frame is found once.

## 10. Findings without a run

`PROJECT.json` lists twenty-two findings. Four have a run that exhibits them
(sections 3 to 5). The others are disagreements between a comment or a
document and the code, met while translating and quoted there with both lines:
for instance an overlong control sequence is dispatched, not abandoned (`term.c:347`);
a refused connection still routes later frames of its chunk (`server/index.ts:138`);
a board row opened with all slots full turns the screen and keeps the old
focus (`main.c:389`); a scan clears a configuration error it cannot repair
(`main.c:641`); a saved line that was cut in the port or the token loads as another
pairing (`paircfg.c:105`); a late failure of a client that was replaced ends the
rows of its replacement, which no refresh brings back (`bridge.ts:710`); the plaintext poll uses an offset that is stale after a
disconnect in a callback (`net.c:344`).

## 11. Proofs

`AgentBoardProofs` proves about `AgentBoard`, for every set of ids, capacity,
cooldown, clock width and window, from `BoardAssumption` alone:

* `BoardInductive`: `Spec => []BoardInv`. `BoardInv` is `TypeOK`, `UniqueIds`,
  `DisplayOrder`, `SomethingSelected`, `InflightRowBlocked` and `HoldIsRest`.
  The first five need each other: the fallback of the cursor needs the order
  to be a permutation of the table, which needs the table's length and
  distinct ids. `DoubleTapHeld` does not follow from them: that a row is disabled
  now says nothing about the next tick. `HoldIsRest` says how long: elapsed
  ticks and ticks left make up the cooldown, in wrapping arithmetic.
* `TypeCorrect`, `BoardDisplaysTable`, `SelectionKept`, `WindowShowsCursor`,
  `SlotBelongsToBlockedRow`: the invariants the run checks.
* `CursorFollowsSession`, `BlockedNeverEvicted`: the action properties about the
  table, from `BoardInv` and one lemma on the steps that change it;
  `CooldownHolds` from one on the steps that empty the in-flight slot.

The lemmas go from data to actions: what `RemoveAt` keeps, which tables an
update, append or removal yields, that the display order is onto, where the
fallback cursor lands; then one lemma per action.

`RegistryProofs` proves about `Registry`, for every capacity (zero included) and
any number of sessions, approvals and frames:

* the log alone: `RecordKeepsLog` (the items are the last frames, numbered
  consecutively, and nothing is dropped before the log is full) and
  `LogIsHonest` (such a log answers every cursor truthfully);
* `DataInductive`: `Spec => []DataInv`, which adds to `TypeOK` that the log is
  such a window and that a request's frame, while retained, is at its number.
  From it `RegistryTypeCorrect`, `ReplaysAreHonest` and `PendingIsReplayed`,
  whatever ids the agents choose;
* `FailSafeArmed`: with unique ids, `Spec => []NoneForgotten`. `ParkInv` is the
  strengthening: what is parked and what is armed are the same requests.

`PairingProofs` proves about `Pairing`, for any keys, addresses, codes and
configurations and any number of restarts and moves, from the assumptions of
that module:

* `PairInductive`: `Spec => []PairInv`, one lemma per part of the loop.
  `ScanInv` ties the worker to the scan screen: it exists exactly while the
  screen is up, so all it holds or has handed over was seen in this scan.
  `KeyInv` ties the key in force to the configuration; it needs that a pairing
  is only saved while nothing is connected. `ProbeInv` bounds what a fresh
  reply may name. `GivenInv` says that what is on the card is refused or the
  beginning of a pairing that was given (`BeginningsAreCuts`), so that a restart at any
  point of a save reads nothing else; it is for any relation of cuts (`CutsAreParts`).
* `PairingTypeCorrect`, `AppliedIsScanned`, `ConnectedAsPaired`: the three
  invariants of the run.

`DeviceProofs` proves about `Device`, for any sessions, slots, board seats,
queue capacity and buttons, from `DeviceAssumption`:

* `OverlayShowsOldest`: the ring's cells differ (`PlacesDiffer`), a push
  appends to the entries and a pop takes their head (`PushAppends`,
  `PopTails`), so the queue is its own history.
* `FocusIsSound`: `FocusInv` says where the focus points and, once greeted,
  that every id in slots, picker and board was heard on this connection. It
  needs that a touch on a picker row names a row that exists
  (`SessionHits`, through the widgets' construction), that SELECT's next row
  does (`NextRowIsRow`), and which ids an upsert, a removal or an eviction can
  leave on the board.

* `DeviceTypeCorrect`: `Device` uses the board's actions on the board's
  variables, so `AgentBoardProofs` is instantiated too: its lemmas say of each
  call that it keeps `BoardInv` (`BoardFits` gives its assumption). `LoopInv` is the rest.
* `AnswersAreClaimed` has a hypothesis on the sets of buttons: with A and UP
  together the answer is given and the cursor moves, in the code too.
  `AnswersOpenNothing` has none.

`HerdrBridgeProofs` proves about `HerdrBridge` every property the two passing
runs check, from `BridgeAssumption`. Its invariant `IInv` has one part per group
of variables, and two say what may be running in which phase, one for either
kind of bridge (`SingleBridge`, `DiscoveringBridge`). These are what the visible
properties lack: that a refresh is always pending needs that no enumeration
of the attach is left once the bridge is ready; that a boot is of a new client
needs that nothing is subscribed before it; that an id is new needs that every
id in the table is below `nextId`. `IdsStay` and `FailuresIsolated` are about
steps, from the same invariant.

`TerminalProofs` proves about `Terminal` and `TermFont`, for every grid, ring, tab
width, parameter buffer and width of an `int`, from `TerminalAssumption`. The
invariant is short (`t \in Term`, the offset inside the history); the argument
is in what one byte does. `Shape` says that after any byte the live lines were
`Edited` in place or the ring `Moved` by one line, and in each case which cells
may differ, with the ring's modulus worked out once (`Line`). From it follow
the log's steps (`RingKeepsLog`), the cell at the cursor (`OneByteOneCell`) and,
with the window's arithmetic, what a frame draws (`FrameIsWindow`).

`TransportProofs` proves about `Transport`, for any number of connections and
frames and any sizes of the three buffers, from `TransportAssumption`. Each
direction is one stream of pieces, and `Bears` says of a buffer that it is the
stretch of that stream from a given place on. `HostState` says that what came
out is a prefix of what went in and which end has closed; `UpWire` and
`DownWire` lay the buffers end to end, up to the end of the stream or, after a
failed write, somewhere before it. The device is off line, waits for the epoch on a
connection nobody has served (`Waits`), or stands where its counter says
(`Linked`): then the next record opens. One lemma per action shows that the step
keeps this, that every stream only grows (`Grows`) and that an attached connection is
closed for a cause (`Excused`). `CountersDifferByTheWire`, `TransportDelivers` and
`TimerSparesTheAttached` are these three.

`FoldFacts` serves both: the provers cannot instantiate the library's induction
theorems, but the least member of the set of counterexamples can be picked
(`Climb`), so the recursive function behind `FoldLeft` is shown to exist, and what one
step keeps the fold keeps.

Every invariant and every step property of the passing runs is thereby a
theorem, `AnswerIsClaimed` under its hypothesis. Only model-checked: liveness
(`EventuallyGreeted`, `EventuallyDecided`, `Reconnects`), since neither fairness nor
ENABLED is in the provers' reach; and what the algorithms of `Text`, `Aead`, `Qr`
and `QrScan` compute, which is compared with reference definitions over bounded
inputs (`Qr` and `QrScan` have RECURSIVE operators, behind which nothing can be proved).

## 12. Fairness and liveness

`Registry` assumes weak fairness of each `Timeout`: an armed timer's callback
runs, since the event loop of a running host runs every due callback. Nothing
is assumed of agents or the device. `EventuallyDecided` rests on that alone.

`Transport` assumes weak fairness of the device's loop and of the host's socket
callbacks for the last connection: the loop runs every frame and the event
loop delivers what the socket has. Key presses, the application's frames, the
attach timer and faults have none. `EventuallyGreeted` is asked of a connection
without faults, and excepts the host's own drop of a device that does not drain.

`Pairing` assumes weak fairness of the loop and of the worker's two ways on
(it takes the lock; told to stop, it sees it, as its wait for a frame is
bounded). Of the outside it assumes strong fairness: a probe sent again and again
is answered by a host with the key, such a reply arrives, and a dial to where
the host listens succeeds. A device that can never reach its host cannot
promise anything; `Reconnects` says that its own states do not stand in the way.

`HerdrBridge`, `AgentBoard`, `Terminal` and `Device` assume none: their properties are invariants or
properties of steps. `RefreshLoopAlive` is the safety half of "a lost daemon is
found again": a refresh is always pending. The daemon answering is not the bridge's to promise.

## 13. Not modelled

* The tmux bridge and the host half of the voice route: planned (section 2).
* The plaintext mode of the transport, used by a host without a key, and the
  byte form of a frame.
* What a card's file system may do beyond ending a file early (old clusters, a
  damaged directory): `WriteFile` leaves a beginning of the new line.
* Line framing, dial timeouts and the process runner of the herdr client: their
  effect (any request may fail, a subscription may close) is the environment of
  `HerdrBridge`.
* Of the QR reader, grouping of finders, perspective and alignment, which are
  floating-point geometry, and the tables of the versions above 7. The host draws a
  code in the smallest version that holds the URI (`host/src/qr.ts:352`), up
  to version 10.
* Of `monocypher.c`, the hashes, curves, signatures and the stream interface the
  device never calls.
* The agents' adapters that translate output line by line, and their child
  processes; the registry takes their events in any order.
* Minting a key and drawing its code on the workstation; the camera's set-up calls.
* Rendering of the top screen, colours, wording, LED and tone output.
* Routines, macropad, layouts, transcript and repository index: pure functions
  and file readers without interleaving.
* Backend configuration, message type declarations and their generator, and the
  vendored test framework.
