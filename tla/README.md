# Models and proofs for ha-bluetooth

TLA+ specifications of the Home Assistant integration `bluetooth_api`
(`src/custom_components/bluetooth_api`), with TLC configurations that check
them on small instances and TLAPS proofs for all values of the constants.
`PROJECT.json` lists every run, what each definition models line by line, the
hazards of the code and what covers them, and the findings.

## 1. The system

An Android app talks to Home Assistant over Bluetooth LE. The integration has
three transports that carry the same packets, and one dispatcher under them.
Everything runs on Home Assistant's asyncio loop, so code between two awaits is
atomic and the hard part is what happens across an await.

| Component | State it keeps | Operations | Talks to |
|---|---|---|---|
| `PacketDispatcher` (dispatcher.py) | `_ble_client_connected`, `_state_unsub` | handle a packet (ACK, then answer), push state changes, connected / disconnected hooks | the transport's `_send_raw`; HA's states, registries and services; is called by the transport |
| `HaBleGattServer`, `NativeBleServer` (ble_gatt_server.py) | `_running`, `_connected`, `_server`, `_rx_buf`, `_tx_queue` (256 chunks), the tasks `_run`, `_tx_worker`, `_disconnect_detector` | start, stop, write from the phone, `send_frame`, declare the client gone | BlueZ through bless, `bluetoothctl`, D-Bus; schedules dispatcher hooks on the loop |
| Adapter check (same file) | `leaking_uuids`, `configure_done`; one notification of HA | configure the adapter, remove known devices, report services that conflict | D-Bus, `bluetoothctl`, HA's notifications |
| `UsbSerialServer` (usb_serial_server.py) | `_running`, `_write_queue` (64 frames) of the session, `_run` and `_write_worker` | start, stop, reconnect, read frames and control messages, OTA command | serial port to an ESP32, which holds the phone's link |
| `EsphomeApiServer` (esphome_server.py) | `_running`, `_writer`, `_frame` (nonces of one session), `_write_lock` (outlives the session), ping task | start, stop, reconnect, handshake, encode and send, read, ping | TCP to an ESPHome device, which holds the phone's link |
| Codec (protocol.py) | none | packet encode / decode with CRC, USB framing with resync, BLE chunking | used by the above |
| Setup and unload (\_\_init\_\_.py) | `hass.data[DOMAIN]` | create labels, migrate, start / stop a server, reload, remove | config entries, the servers, the OTA button |
| Config flow (config_flow.py) | the wizard's fields | pick a mode, a port, a device and its key; disable conflicting entries; make the entry | HA's config entries, which change while a form is open |
| HTTP views, OTA button, constants, generated bindings | none | read a config entry; call `enable_ota` | |

What is hard in it:

* **Interleaving.** Writes, the TX worker and the disconnect detector each
  change `_connected` and schedule hooks that run later; handlers are suspended
  in service calls while their client leaves and another one comes; `stop()`
  runs between all of them.
* **Stale data across an await.** The sample of connected devices, the list of
  managed objects, the state carried by a push.
* **Limits.** A full TX queue in the middle of a frame; a full write queue; the
  chunk size against the MTU.
* **Order of encoding and sending.** A frame takes its nonce before its sender
  waits for the write lock, and the lock outlives the session it was taken in.
* **Failure and recovery.** The serial port disappears, garbage on the line, a
  byte lost, a writer that breaks, a device that vanishes without a word, a D-Bus
  call that fails, a platform that cannot be set up, cancellation anywhere.
* **Time.** 5 s polls, a 20 s wait for the adapter check, a 10 s service call,
  a 1 s drain.

What makes each part correct, in a sentence: the dispatcher believes in a client
exactly when the transport does and listens to HA only then; one client gets
whole frames in order and nothing of another's; what the phone was listed stays
current; a bridge that goes down leaves nothing behind and comes back; `stop()`
returns; the ESPHome device can decrypt what it gets; a line with noise on it
loses packets at worst, and never makes one up or swaps two; an entry has one
server, and the button the one that runs; the entry a user makes has the key that
was current; the user's notification says what the last check found.

## 2. Modules

| Module | Models | Lines it stands for |
|---|---|---|
| `ClientLifecycle` | the two hooks and the subscription | dispatcher.py 148-162, 320-342 |
| `GattServer` (EXTENDS `ClientLifecycle`) | the native bridge | ble_gatt_server.py 39-175, 339-449, 485-530, 615-630; dispatcher.py 72-144, 298-341 |
| `FrameChannel` | what a transport promises: whole, once, in order | abstract |
| `ChunkTransfer` | chunking and reassembly, byte by byte; implements `FrameChannel` | ble_gatt_server.py 426-449, 485-494; protocol.py 143-157 |
| `Exposure` (EXTENDS `ClientLifecycle`) | label filters, answers, pushes and the phone's copy | dispatcher.py 118-138, 175-296, 326-341, 372-425; \_\_init\_\_.py 49-65 |
| `AdapterSetup` | adapter check and notification over several setups | ble_gatt_server.py 155-337, 461-482, 524-613 |
| `BridgeContract` | what Home Assistant may expect of a server from `start()` to the end of `stop()` | abstract |
| `UsbBridge` (EXTENDS `ClientLifecycle`) | the USB bridge; implements `BridgeContract` | usb_serial_server.py 66-225; protocol.py 99-129; dispatcher.py 89-144, 298-341 |
| `EsphomeBridge` (EXTENDS `ClientLifecycle`) | the ESPHome bridge; implements `BridgeContract` | esphome_server.py 162-230, 270-461; dispatcher.py 298-341 |
| `LossyChannel` | what a line promises that may lose or garble bytes | abstract |
| `PacketCodec` | CRC, encode, decode, length prefix, on bytes | protocol.py 39-83, 120-134 |
| `SerialFraming` (EXTENDS `PacketCodec`) | the resynchronising reader and the line, byte by byte; implements `LossyChannel` | protocol.py 105-140; dispatcher.py 89-106 |
| `ConfigFlow` | the forms, while devices and adapters change | config_flow.py 104-316 |
| `Integration` (EXTENDS `ConfigFlow`) | entries from the flow to their removal, their servers, the OTA button | config_flow.py 318-342; \_\_init\_\_.py 68-158; button.py 16-34 |
| `GattServerProofs`, `ChunkTransferProofs`, `ExposureProofs`, `AdapterSetupProofs`, `UsbBridgeProofs`, `EsphomeBridgeProofs`, `SerialFramingProofs`, `IntegrationProofs` | theorems and proofs | |
| `MC*` | constants and symmetry for TLC | |

How they compose. `ClientLifecycle` is the dispatcher's side of a client, and all
three transports extend it with their own. `Integration` takes a server for what
`BridgeContract` says of it: running, stopping until `stop()` returns, or gone.
The USB and ESPHome bridges are shown to implement that contract. The native
server is not: `gatt_stop_leak` is the step the contract does not allow, a
subscription after `stop()` was called.

How state and actions correspond. A variable carries the name of the attribute
it stands for (`_tx_queue` is `txQueue`); `runPc`, `worker`, `detector` and
`stopPc` say at which await a coroutine is; variables commented *history* are
read by no guard. An action is the code from one await to the next, with every
synchronous call it makes: `RunHandle` is `_handle_incoming_packet`, the
dispatch, the ACK, the answer and the chunking of both, because none of them
really suspends; a `CALL_SERVICE` splits at `async_call` (`CallDone`). In
`EsphomeBridge` every send is two actions, `Encodes` and `Writes`, and a third,
`Drained`, where the write buffer is full, because the lock and the drain do
suspend there; the queue of the lock is a sequence of senders.
`call_soon_threadsafe` and `ensure_future` append to the FIFO `ready`, and the
loop takes its head: `on_frame` runs in one pass and the task it creates in a
later one. The definitions between an operator and its wrong variant
(`CanSendUnchecked`, `RxUncleared`, ...) are mutations used to test that the
properties can fail.

What is abstracted. A packet is what it makes the server do and how many chunks
it takes; a state is a version number; a label is its name; a service UUID is a
member of a small set. In `UsbBridge` a packet in the write queue is only
counted, and the 4-byte window is abstracted to what it may swallow: any number
of frames after the garbage, the last one possibly only in part. A frame that
begins with bytes of an earlier link fails to decode (the CRC is trusted to
find it); `SerialFraming` has the bytes, the window and the real CRC. In
`EsphomeBridge` a frame is its nonce and whether the connection it was encoded
for is still the present one, and nonces are counted modulo `Nonces`, which is
more than can be at the lock at a time. A device's key is `"none"`, `"old"` or
`"new"`. Home Assistant is taken to serialise what happens to one config entry, as
it does with a lock per entry, and not to unload an entry whose setup failed.

## 3. Runs

All runs that pass are exhaustive. Deadlock checking is off in all of them,
because every component really stops: a server that was stopped, or a phone
that has sent all it may, does nothing more.

| Run | States | Shows |
|---|---|---|
| `gatt_queries` | 4.5 M | `TypeOK`, `TxFramed`, `RxRecovers`: multi-chunk requests, answers and pushes, polls that fail, a queue of 3 with an ACK and two-chunk answers in it, so that it overflows at every place of a frame |
| `gatt_sessions` | 109 k | `ViewAgrees`, `QuietWhenGone`, and `PhantomSeenCleared`, `StopCompletes` under fairness: a service call outlives its client; other devices on the adapter and polls that fail; `stop()` at a full queue |
| `chunk_transfer` | 55 k | `TypeOK`, `PiecesFit`, `IsChannel`, `KeepsDelivering`: all packets of one to five bytes with chunks of two, two in a row |
| `exposure` | 1.2 M | `TypeOK`, `KnowsOnlyExposed`, `MirrorCurrent`: two registered entities of one device, one of them in an area, exposed by labels of their own or by the device's; labels come, go and move; changes against requests, pushes and reconnections; the pushes and state answers of the second raise while it is exposed and listed |
| `adapter_setup` | 159 k | `TypeOK`, `NoticeCurrent`, `CheckReleased`, `CachesCleared`: three setups, so that two late notification tasks can meet a third; two phones, so that the removal of one can fail |
| `usb_bridge` | 206 k | `TypeOK`, `OnlineOnly`, `ViewSettles`, `StoppedQuiet`, `KeepsContract`, and `Reconnects`, `StopCompletes` under fairness: every kind of frame, three in the reader at a time, a write queue of two that an ACK and its answer fill; ports that are missing, or there and cannot be opened |
| `esphome_bridge` | 126 k | `TypeOK`, `DeviceInStep`, `StoppedQuiet`, `KeepsContract`, and `VanishedNoticed`, `ComesBack`, `StopCompletes` under fairness: both framings; the reader's answers, a ping and pushes at the lock, of this session and of the last; a device that vanishes, returns, resets |
| `integration` | 3.0 M | `TypeOK`, `KeyCurrent`, `NoConflictLeft`, `OneServer`, `ButtonCurrent`: flows one after the other, two adapters, an entry that is made, reloaded and removed, platforms that do not unload, a `stop()` that raises; three servers at a time, so that a failed setup and a retry fit |
| `serial_framing` | 428 k | `TypeOK`, `GarbageHarmless`, `KeepsOrder`: three packets, one byte of garbage more than the reader skips, one byte lost or garbled anywhere, the code's CRC and its limit of 16 MB |

Bounds. `MaxReady`, `MaxCalls`, `MaxPending`, `MaxInbox`, `MaxPushes` bound what
the *environment* adds (phone, HA, ESP32); the code's own callbacks are never
blocked by them. Queues are small (1 to 3) so that they fill. `MaxSetups`,
`MaxChanges`, `MaxFrames` bound repetition, and three, two and two suffice for
the orders in question: an old task, an older one and the present setup; a
listed version, its successor and the order of both on the wire; two adjacent
packets. One order needs more than two pending callbacks: a phone that links
again before the last `on_disconnect` has run. The proof of `MirrorCurrent` came
upon it, `overlap` records it, and the proof covers queues of every length.
`Nonces` = 4 tells the frames apart that can wait at once (the task's, a
ping's and a push's, and one lost). In `serial_framing` `MaxResync` is 2 for 4096,
and garbage is one byte more; garbage bytes are 2 or more, as printed text is (a
byte of 0 or 1 can be the first of a length below 16 MB, after which nothing is
promised but `KeepsOrder`); what a byte is garbled to (0, 1, 15, 255) makes every
kind of false length. `integration` has one entry, and its theorems any number. `Labellings`
lists which labels are put on what in `exposure`: each entity can be exposed on its own or
with its device, and one can bear a label that exposes nothing.
Everything proved in section 5 holds for every value of these bounds.

Each passing property has a mutation of the code that breaks it under the same
configuration (`mutants` in `PROJECT.json`).

### What the code does not keep

Three runs each check one statement of the repository about itself, and TLC
finds a behaviour against it. The details and the quoted lines are under
`findings`.

| Run | Statement | What happens |
|---|---|---|
| `gatt_previous` | the next client gets no bytes for the previous one's request | a service call suspended while its client left answers the next client |
| `gatt_stop_leak` | the subscription is torn down by `stop()` | a write during `stop()` subscribes again, for good |
| `usb_writer` | a broken writer makes `_bridge` restart | the reader goes on without it, and packets pile up and are lost |

The models also have the following behaviours. No run is kept for them; each is
a short path of the actions named, and the properties above are stated so that
they hold beside it.

| Where | What the code does | In the model |
|---|---|---|
| ble_gatt_server.py:102-107 | a frame that meets a full TX queue is logged as dropped, but its first chunks stay queued | `Enqueue`; `TxFramed` holds until `lost` |
| ble_gatt_server.py:435 | `_rx_buf` keeps the chunks of a phone that vanished, so the next phone's first frame is lost | `FinishFrame`; `RxRecovers` says it is one frame only |
| ble_gatt_server.py:363-367, 402-409 | a `bluetoothctl` that fails is read as "no device", and a phone that is there is declared gone; if it was within a frame, it is not sent the rest, and takes what comes next for it | `Sample`, `MarkDisconnected`; `cut` in `TxFramed` |
| ble_gatt_server.py:397-409 | a phone that links before the last one's leaving was noticed gets the rest of that one's frame, or the frames after it | `ClientLink`; `cut` in `TxFramed` |
| ble_gatt_server.py:367 | a phone that came and went between two polls is never noticed while nothing is sent to it | hence `detPrev` in `PhantomSeenCleared` |
| ble_gatt_server.py:79 | `stop()` waits for ever if the TX queue is full and its worker was never started, or leaves its loop because `stop()` has cleared `_running` | `HangsAtPut`, the one alternative `StopCompletes` allows |
| ble_gatt_server.py:28, 492 | 244 bytes and a flag are 245, and an MTU of 247 leaves 244 | chunk sizes are counted without the flag |
| dispatcher.py:148-162, 337 | a phone that links again before the loop has come to the last `on_disconnect` may get an answer or a push of the session before late, and is not told what changes between that callback and its own `on_connect` | `overlap` in `MirrorCurrent` |
| dispatcher.py:338 | a state with an attribute outside JSON is listed, and its pushes raise unseen: the phone keeps the listed one | `SendState`, `Unencodable` in `MirrorCurrent` |
| ble_gatt_server.py:284-285 | a phone that connects after the managed objects were read is removed, and its session ends, although the docstring (191-192) speaks of the disconnected ones only | `Removes` |
| ble_gatt_server.py:545 | a setup that could not read the adapter dismisses the notification of a conflict | `readAs` in `NoticeCurrent` |
| ble_gatt_server.py:541 | a conflict found after the 20 s wait is only logged | `NotifierTimesOut` |
| usb_serial_server.py:110, 173 | a full write queue loses the packet, where the comment speaks of backpressure | `Send` |
| dispatcher.py:259 | when both exposure labels were deleted the dashboards name every entity with a dashboard label, against the docstring ("AND at least one of BTDASH / BTDASHAA", 227-230) and the comment ("nothing to expose", 186-187), while the device list is empty; no state is told | not in a run: `RunReqDashboards` tells no state, and the names are left out |
| protocol.py:121 | one byte lost before a frame can make the next header a length of up to 16 MB; the reader then waits for that many bytes and swallows all that follow, without a time limit | `LosesByte`, `ReadsFrame`; `KeepsOrder` still holds |
| esphome_server.py:230 | a noise frame for a push of 65516 bytes or more is encrypted, which takes a nonce, and then raises unseen; the device cannot decrypt the next | `RunPush`, `overlong` in `DeviceInStep` |
| esphome_server.py:417 | a device that keeps its connection and stops reading holds the drain, and with it the lock, for as long as it likes; a push of an earlier session can hold it too | hence strong fairness of `Lock` |
| esphome_server.py:459 | after a write error in the ping task the session has no pings until it ends | `WriteFails`, `ping = "dead"` |
| \_\_init\_\_.py:147 | whether the platforms were unloaded is not looked at: where one was not, the button stays and its server is stopped under it, and it may be in the way of the next setup's | `PlatformsUnload`, `leftover` in `ButtonCurrent` |
| \_\_init\_\_.py:150-153 | a `stop()` that raises is logged, and the unload goes on as if the server were gone; what `stop()` had not come to runs on beside the next server | `StopRaises`, `spilled` in `OneServer` |
| \_\_init\_\_.py:131 | if a platform cannot be set up the server that was started runs on, and the next setup starts another beside it | `SetupFails`, `spilled` in `OneServer` |
| usb_serial_server.py:138 | `client_connected` during the one-second drain is thrown away | `missed` in `ViewSettles` |
| usb_serial_server.py:155-162 | when a handler raises, or the cable is pulled from an ESP32 that has power of its own, the session ends and the dispatcher forgets the phone; the ESP32 still has it and says nothing, so the next session serves it without pushes until its next control message | `forgotten` in `ViewSettles` |

## 4. Fairness

`FairSpec` of `GattServer`, `UsbBridge` and `EsphomeBridge` assumes weak fairness
of what the loop itself guarantees: scheduled callbacks run, a woken task goes on,
timers fire, `bluetoothctl` ends or is timed out (5 s), a service call ends or is
timed out (10 s), a cancelled task ends. In `ChunkTransfer` it is the encoder's
loop and the delivery of what was sent. `UsbBridge` assumes, strongly, that a port that is there at one attempt
after another is opened in the end: a present port may be busy or not permitted
(`OpenFails`), and one that is never opened is never bridged. Nothing is assumed of the phone, the
ESP32, Home Assistant, the caller of `stop()`, or of the native setup task, whose
calls have no time limit. `Reconnects` speaks only of behaviours in which the port
is eventually there for good. `PhantomSeenCleared` is checked with a `bluetoothctl`
that may fail and with other devices on the adapter: a failed one lists no device,
which clears the client as well, and a sample that lists another device is its
exception (`detSeen`). `StopCompletes` of `GattServer` begins at `stop()`'s first line.

`EsphomeBridge` adds two assumptions on what is outside the code. TCP gives up a
connection whose bytes are never acknowledged (`TcpGivesUp`): the code waits for
no pong, so without it a half-open connection is never noticed. And the lock's
holder gets through, under strong fairness: a device that is there again and again
takes what is sent to it. Without the latter a device that stays connected and
never reads would hold the lock for ever, since `drain()` has no time limit.

## 5. Proofs

Every safety invariant the passing runs check is a theorem, for all values of the
constants, and so are the refinements of `FrameChannel` and `BridgeContract`.

| Theorem | States | Argument |
|---|---|---|
| **Native bridge** | `GattServer` | |
| `TypeCorrect` | `Spec => []TypeOK` | one lemma per group of actions; the capacity of the queue is the only part that is not mere typing, and rests on a lemma about `Enqueue` |
| `ViewsAgree` | `[]ViewAgrees` | inductive together with `TypeOK`. The invariant says what the dispatcher will believe *once its pending callbacks have run*: the last lifecycle callback decides. Lemmas say what appending one and running the first do to that |
| `QuietQueue` | `[]QuietWhenGone` | inductive with `TypeOK`: `send_frame` tests `_connected`, and declaring the client gone drains |
| `WholeFrames` | `[]TxFramed` | what was sent and what is queued are followed from one link of a phone to the next; whatever breaks a frame on the way is in the history (`lost`, `cut`). Needs `QuietWhenGone` and that the worker only runs with a server that exists (`ServerInv`), for otherwise it discards single chunks. Lemmas: a framed stream followed by a whole frame is framed; the tail of one is, after its head |
| `RxHeals` | `[]RxRecovers` | inductive as it stands: a new link makes what is in the buffer foreign, and the FINAL chunk of its first frame clears it |
| **Chunking** | `ChunkTransfer` | |
| `ChunksTyped` | `Spec => []TypeOK` | a piece of a sequence is a sequence of at most `ChunkSize` bytes |
| `ChunksFit` | `[]PiecesFit` | inductive with `TypeOK`: each chunk is a given piece of a given packet and begins where its predecessor ended; the buffer is what precedes the first chunk |
| `Implements` | `Spec => IsChannel` | refinement of `FrameChannel` under the identity mapping: from `PiecesFit`, the buffer and a FINAL chunk are together the next packet, and every other step is a stutter |
| **Exposure** | `Exposure` | |
| `TypeCorrect` | `Spec => []TypeOK` | nothing bears a label that does not exist, and nobody knows a version that was not given out |
| `OnlyExposedKnown` | `[]KnowsOnlyExposed` | `Seen`: what is on its way in a list was exposed since the phone linked, because only `RunReqDevices` makes lists, of what is exposed at that moment, and a link that ends takes what is on the wire with it (`Down`) |
| `PhoneIsCurrent` | `[]MirrorCurrent` | the invariant is about the *last word* on an entity: that of the last pending push, else of the last packet on the wire, else what the phone knows. For what was exposed all along it is the current version (`Current`). Around it: what is pending between `on_disconnect` and the next `on_connect` (`Down`, `Joining`, `Joined`), that a push tells one version that was given out (`Versions`), and that only a phone that asked is listed anything (`AskedFirst`) |
| **Adapter check** | `AdapterSetup` | |
| `TypeCorrect` | `Spec => []TypeOK` | |
| `NoticeFollows` | `[]NoticeCurrent` | a setup that has not begun left no trace (`Fresh`), one reports a conflict exactly if it read of one (`Reported`), and once the present setup advertises no older task can still be woken (`Woken`), so that only its own task writes the notification |
| `WaiterReleased` | `[]CheckReleased` | inductive with what is said of setups that have not begun (`Begun`, `Fresh`): every way out of the check, from its first line on, sets the event of its own setup, and a setup that follows does not unset it |
| `CachesAreCleared` | `[]CachesCleared` | `Cleared`: whatever was cached when the devices were listed, and has not connected or been refused since, is still ahead of the loop or gone |
| **USB bridge** | `UsbBridge` | |
| `NoClientOffline` | `Spec => []OnlineOnly` | strengthened by `SessionOpen`: queue and worker exist only between `_bridge`'s first line and its `finally` |
| `StopLeavesNothing` | `[]StoppedQuiet` | same invariant, with: a `stop()` that returned has seen the task end |
| `BridgeKeepsContract` | `Spec => KeepsContract` | same invariant; one lemma per action says which step of the contract it is, or that it is none |
| `TypeCorrect` | `[]TypeOK` | the write queue keeps its capacity |
| `ViewIsTheirs` | `[]ViewSettles` | when no control message was lost and no phone forgotten, what the port has still to tell is what the ESP32 knows: while it is read (`Known`), when it is lost during the drain (`Drained`), and while it is closed (`Unheard`). As long as the connection of a session is not lost, what the ESP32 sends arrives (`PortThere`). Lemmas say what reading the first message and appending one do to the view that is left when all is read (`ViewAfter`) |
| **ESPHome bridge** | `EsphomeBridge` | |
| `ClientOnline` | `Spec => []OnlineOnly` | strengthened by `Upheld`, where the connection is open in terms of the task's place, and `StopCut`, that once `stop()` was called the task is cancelled, or past the point where it could go on or begin anew |
| `BridgeKeepsContract` | `Spec => KeepsContract` | the same two; `StopCut` is what forbids a session after `stop()`, although a cancellation may be swallowed |
| `DeviceCanRead` | `[]DeviceInStep` | an invariant about the queue at the write lock: the task and its ping have a frame there only while they wait (`Senders`); between sessions all that waits is of an earlier one (`Between`); nothing but the hello is sent before it is through (`HelloFirst`); what is left of an earlier session stands ahead of the session's frames, and these queue in the order of their nonces, none missing, from the one the device expects to the one given out next (`InOrder`). Lemmas say what joining the lock, leaving it at its head or out of the middle, and the end of a session do to such a queue |
| `TypeCorrect`, `StopLeavesNothing` | `[]TypeOK`, `[]StoppedQuiet` | same invariant |
| **Serial line** | `SerialFraming` | |
| `TypeCorrect` | `Spec => []TypeOK` | under any fault: the window has four bytes, never slides too far, and what is accepted is a packet |
| `GarbageIsHarmless` | `[]GarbageHarmless` | `Spaced`: as long as no byte was lost or garbled, there are places in the bytes ahead of the reader (window and stream together) where the packets it is not done with stand, whole and in order, with nothing but garbage between them. So a plausible window is the header of the next packet, an implausible one begins with garbage, and a reader that waits has no packet left. The places are quantified over, for no variable of the program holds them. Lemmas on the codec: decoding what was encoded gives it back, for every passcode and payload, and a length is read as it was written. Of the CRC they need no more than that it is a function of the bytes |
| `OrderKept` | `Spec /\ [](faults = 0) => KeepsOrder` | refinement of `LossyChannel` on a line that loses nothing, with any amount of garbage, so that the reader may give up and throw packets away: the same invariant counts the packets it is done with, and what was delivered is some of them, in order (`Handed`) |
| **Setup and flow** | `Integration` | |
| `NeverTwoServers` | `Spec => []OneServer` | by the owners of the servers: what an entry owns is decided by where the entry is. Without a failed setup, or a `stop()` that raised, it owns the one in `hass.data`, or one that is stopping, or none |
| `ButtonHasServer` | `[]ButtonCurrent` | `Pressable`: the button is given what `hass.data` holds when the setup ends, and is gone with its platform before the server is taken out and stopped |
| `TypeCorrect` | `[]TypeOK` | |
| `KeyIsCurrent` | `[]KeyCurrent` | the key is read when the user picks the device, not when the form is shown (`FormFits`: no step before has a host) |
| `ConflictsDisabled` | `[]NoConflictLeft` | `LoopCovers`: what is enabled is ahead of the loop, has refused, or was enabled since the answer |

The assumptions are those named in the modules (`GattAssumption`,
`ChunkAssumption`, `ExposureAssumption`, `AdapterAssumption`, `UsbAssumption`,
`EsphomeAssumption`, `PasscodeAssumption`, `FrameAssumption`, `SerialAssumption`,
`ConfigAssumption`, `IntegrationAssumption`): capacities and chunk sizes are
positive, packets are not empty (they have a header), the values for "no entry",
"no server" and the like are none; a passcode has four bytes, a payload is no
longer than its two bytes of length can say (`encode_packet` refuses others), the
longest packet is below the limit of a frame, and garbage bytes are 2 or more.
They are evaluated in the runs.

Only model-checked: `KeepsOrder` on a line that does lose or garble bytes. It is
not true of all packets and faults, for what a fault leaves of a frame can happen
to fit its CRC; the run shows that one fault among its packets never does. And
every liveness property (`KeepsDelivering`, `PhantomSeenCleared`, `Reconnects`,
`VanishedNoticed`, `ComesBack`, `StopCompletes`), since fairness and ENABLED are
beyond the prover. It has no induction over data either, so nothing is proved of
what the CRC computes.

## 6. Not modelled, and the plan

Not modelled: the HTTP views (stateless), constants and generated bindings, the
wording of notifications and forms, the set-up notification, the patch of
`serial_asyncio_fast`, the JSON in packets, `REQ_AREAS`, the limit of 65535 bytes
of a payload except where its exception ends something, the bytes of ESPHome's two
framings (varints, headers) and the Noise cryptography itself, what a Home
Assistant service does, how the phone matches answers to requests, and the
firmware and the app, which are not in this repository. Each of these is either
without state, or outside the sources.

What is left. On the side of the proofs: action properties that no run checks yet
(a session's frame never overtakes one that waits before it at the lock; a frame is
never cut by the reader of the serial line), and a fault model for the serial line
under which `KeepsOrder` can be proved (faults that the CRC does detect, as an
assumption on it). On the side of the models: the two framings of ESPHome byte by
byte, as `SerialFraming` has that of the serial line, and the answer of
`REQ_AREAS`.
