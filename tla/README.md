# pico-cec-bridge in TLA+

A Raspberry Pi Pico sits on the CEC line of an HDMI cable and is connected to a
PC by USB serial. It wakes the TV and puts it in standby for the PC, and tells
the PC when the TV goes to standby so that the PC suspends. This directory holds
a formal model of that system: TLA+ modules translated from the source, TLC
configurations that check them on small instances, and theorems that TLAPS
proves for every value of the constants.

Paths such as `firmware/main.c` are relative to the repository.

## 1. The system

| Part | Source | State it keeps | Operations |
|---|---|---|---|
| CEC receiver | `firmware/cec_transceiver.c` (RX) | `rx` (state, byte, bit, data, eom, frame_ready, address, start), enabled edges | `cec_rx_isr` per edge, alarm `ack_high`, `cec_rx_start`, `cec_receive_poll` |
| CEC transmitter | same file (TX) | `tx` (state, byte, bit, ack, done...), the pending alarm | `cec_frame_send_raw`, alarm `cec_tx_alarm`, `cec_transmit` |
| Address claim | same file | `rx.address` | `cec_claim_logical_address` |
| EDID / DDC discovery | same file | `last_discovery_error`, the DDC lines | `cec_discover_physical_address`, `read_edid_block`, `ddc_start`, `ddc_write_byte`, `ddc_read_byte`, `ddc_stop` |
| Pico application | `firmware/main.c` | `g_my_pa`, `g_my_logical_addr`, `g_tv_status`, `last_hpd`, poll timer, line buffer | boot, main loop, command handlers, `handle_incoming_frame` |
| Flash configuration | `firmware/main.c` | one page in the last sector | `config_load_pa`, `config_save_pa` |
| Listener, serial link | `bin/pico-cec-listener.py` | `_write_q`, `_pending`, two locks, the port | serial thread `run`, `send_command` of the other threads |
| Listener, control socket | same file, `bin/pico-cec-ctl.py` | one thread per connection | `_handle_control_conn`, the client |
| Hooks and units | `systemd/` | whether the unit is active or failed | PWR_OFF at suspend and shutdown, PWR_ON after resume and boot, the listener started again when it dies |
| Status LED, UF2 generator, installer, udev, polkit, build files | `firmware/ws2812.*`, `bin/make-pa-uf2.py`, `install.sh`, `systemd/*.rules`, `firmware/*cmake*` | none that is read back | none |

How they interact:

- The receiver runs in interrupts; the main loop polls it and shares `rx` with
  it under disabled interrupts. The transmitter runs in an alarm callback while
  the main thread spins on `tx.done`, and switches the receiver off meanwhile.
- `main()` is one thread: everything it does for one frame or command happens
  before it looks at the next, so that a slow transmission delays all the rest.
- Pico and listener exchange text lines. A command is answered by one line that
  names the command; events come at any time.
- In the listener one thread owns the port. Other threads hand it commands
  through a queue and wait, with a time-out, on a reply queue of their own, one
  at a time under a lock. `systemctl suspend` runs on the serial thread.
- `systemctl suspend` makes a job of systemd, which starts
  `pico-cec-suspend.service`, whose command goes through the listener to the
  Pico and the TV; what the TV then does comes back as an event to the listener.

What is hard: an interrupt between any two steps of the main loop; a poll in the
middle of a frame; alarm callbacks that are late or lost; time-outs that race
late answers; power cuts between two flash operations; the port going away in the
middle of a write; the listener dying with commands under way; a PC that falls
asleep between a command and its answer; a display that holds a bus line because
the Pico was reset in the middle of a byte; a TV that goes off without saying so.
`PROJECT.json` lists
each of these hazards at its line, with the properties that cover it.

What makes each part correct:

- Receiver: reports exactly the frames on the wire, disturbs nobody else's,
  stores inside its buffer, never stays deaf.
- Transmitter: puts the frame on the wire with legal timing, reports success only
  if it was answered, always returns, leaves neither the wire held nor a callback
  behind, repeats nothing that was answered. Claim: no address another device uses.
- Discovery: returns the display's address or a reason of this discovery, and
  starts on a bus nobody holds, however the last one ended.
- Application: each command answered once; what the PC last heard of the TV is
  what `g_tv_status` says, and a standby is said to it once; a dead TV is noticed;
  the flash survives a cut.
- Link: each call returns; each answer reaches the call it is for, or what can be
  said instead; a command is executed once at most; the serial thread never stops.
- Whole system: the TV ends on after a resume, a TV in standby suspends the PC.

## 2. Modules

| Module | Models | Its states and actions in terms of the code |
|---|---|---|
| `CecReceiver` | receive half of `cec_transceiver.c` | one action per edge; `Isr` is `cec_rx_isr`, one operator per `case`; `ReceivePoll` is `cec_receive_poll`; `TxBegin`/`TxEnd` are what a transmission does to the receiver |
| `CecTransmitter` | transmit half, retries and claim | one operator per `case` of `cec_tx_alarm`, run by `CecTxAlarm` on time and `LateCecTxAlarm` late; `IdleSample`, `StartSending`, `TxTimeout` are `cec_frame_send_raw`; `Transmit*` and `Claim*` its two callers |
| `PicoApp` | `main.c` | `pc` is the next step of `main()`; a handler that transmits several frames or writes flash takes several steps |
| `PicoLink` | class `PicoLink`, control socket, `pico-cec-ctl.py` | `call[c]` is the thread of connection `c` in `send_command`, `serial` the serial thread; `Restart` is `pico-cec-listener.service` |
| `CommandChannel` | what `send_command` promises | a call is asked, served, answered or failed; its command is executed at most once. `PicoLink` implements it |
| `Edid` | `cec_discover_physical_address` and all it calls | `step` is the call under way: a START, a byte written, a block read, a STOP; `Walk` is the loop over the data blocks of the extension |
| `BridgeSystem` | PC, `pico-cec-suspend.service`, `PicoLink`, and of `main.c` what commands and the poll do to the TV and `g_tv_status` | the actions of `PicoLink` under the condition that the PC is awake; `job` is that of `systemctl suspend`, `unit` the unit with its `ExecStart` and `ExecStop` |
| `MC...` | values of the constants for TLC | |
| `CecReceiverProofs`, `CecReceiverFrameProofs`, `CecTransmitterProofs`, `PicoAppProofs`, `PicoLinkProofs`, `PicoLinkChannelProofs`, `EdidProofs`, `BridgeSystemProofs` | theorems and proofs | |

**Time.** `CecReceiver` carries the microseconds since `rx.start`, as the ISR
computes them, capped at `MaxSince` (above the widest window all times are
alike); the initiator chooses pulse widths out of sets. In `CecTransmitter` an
alarm is due some microseconds after `tx.start` and may run late by a member of
`Lateness`; that is how `time_until` comes to return 0, which loses the alarm.
`PicoLink` counts in whole command time-outs of 5 s. In `Edid` and `BridgeSystem`
any delay is possible.

**Composition and refinement.** `BridgeSystem` takes `PicoLink` as
`Link == INSTANCE PicoLink`, with the three commands of each suspend as the calls,
and adds the actions of systemd, the user, the Pico and the TV; a step of the
listener needs a PC that is awake. `PicoLink` implements `CommandChannel` under
`Channel == INSTANCE CommandChannel WITH ...`: a call's stage is where its thread
is, the commands to be executed are those on the write queue or with the Pico, the
answers are those on the wire or in a reply queue.

**Environment.** Other initiators are in `CecReceiver` (one frame at a time,
pulse by pulse, given up at any bit), followers, a held wire and another
initiator's frame during the wait for an idle bus in `CecTransmitter` (each byte
may be acknowledged or not; the wire may be found low at each sample; the
adapter's own ACK of that frame may last into the transmission), a display that
refuses, stretches or garbles any byte in `Edid`, a TV that dies and revives, the hot-plug pin, bus frames and the
power supply in `PicoApp`, the Pico and the USB port in `PicoLink`. The bodies of
`cec_transmit`, `cec_receive_poll` and the discovery are choices in `PicoApp`: a
dead TV acknowledges nothing, everything else is free.

**Left out within modelled parts.** `rx.ack` and `rx.abort`, which nothing reads;
the LED; branches for `cec_transceiver_init` and `cec_claim_logical_address`
returning false and for `self.ser is None` in `_send_now` (the queue is flushed
only while the port is open): none can be taken. Request parsing in
`_handle_control_conn`. Loss of single serial characters. `PcKnowsStandby` speaks
of the lines the Pico sends; that the link may lose them is `PicoLink`'s matter.
In `CecTransmitter` two initiators that both send do not change each other's bits:
`FrameOnTheWire` excludes that case (`clash`).

**Assumptions of `Edid`.** The display is a well-behaved I2C device; its data
blocks fit in the extension and the DTD offset follows them; no block of another
kind begins with the bytes of the vendor id (the walk does not look at the tag, and
would take it for the HDMI block); at most one byte of a block is garbled, so that the checksum
notices. Two reasons in the code, `ddc_start_failed` and `pa_not_found`, cannot
occur: whatever fails before has left another one.

**Assumptions of `BridgeSystem`.** systemd is modelled by what its manual says of
the settings the unit uses: `Before=suspend.target` orders the unit before the
target, which is reached after the resume, and not before the sleep;
`StopWhenUnneeded` and `RemainAfterExit` stop it once the target is gone; a oneshot
unit whose `ExecStart` failed is not stopped; `TimeoutStopSec` kills `ExecStop`
after 10 s, its sleeps of 2 s and 1 s included: if the first client stays 8 s, or in
any step of the second, which may be answered late. A second `systemctl suspend` is
refused while the job of the first is there. The Pico keeps its power while the PC
sleeps, what it says then is kept or thrown away, and the TV obeys every command.

## 3. Runs

`tlc -config <cfg> <module>`; all states are explored.

| Run | Result | What it shows |
|---|---|---|
| `rx` (`MCCecReceiver.cfg`) | holds, 0.58 M states | `AcceptsTheFrameOnTheWire`: whatever polls and transmissions cut into a frame, no frame is reported that was not sent. `AckNeverHitsData`: the ACK is driven in the ACK slot of a frame to us, or under a start bit if the initiator gave up just before. `UnpolledFrameIsReported`, `StoresInsideTheBuffer`, `RxRearms` |
| `rx_polled` | violated | a poll in the middle of a frame loses it: `cec_transceiver.h:129-131` promises otherwise |
| `rx_slow` | `AcceptsTheFrameOnTheWire` violated | with bits of 2600 us, still legal, a poll in the low phase of a bit makes a start bit out of two data bits, and a frame nobody sent is reported: `cec_transceiver.h:129-131` |
| `tx` (`MCCecTransmitter.cfg`) | holds, 1.02 M states | `FrameOnTheWire`, `OkMeansAnswered`, `RetryMeansUnanswered`, `ClaimAvoidsUsed`, `NoStrayCallback`, `WireReleased`, `EveryCallReturns`, with callbacks late or lost |
| `tx_idle` | violated | in the middle of another frame all seven samples may fall into the high ends of bits, and the transmission starts: `cec_transceiver.h:110-111` |
| `app` (`MCPicoApp.cfg`) | holds, 0.71 M states | `PcKnowsStandby` and `StandbySaidOnce`: the event that suspends the PC is said at each transition, and is not repeated. `NeverBroadcastsUnknown`, `BootsWithLastSet` across power cuts, `AnswersOnlyWhatIsAsked`, `EveryCommandIsAnswered`, `DeadTvIsReported` |
| `app_hotplug` | violated | after a hot-plug edge PWR_ON fails for good: `main.c:421-424` |
| `link` (`MCPicoLink.cfg`) | holds, 0.94 M states | `SerialThreadNeverBlocks`, `StrayAnswersNeedAGivenUpCall`: no answer is taken from a call that waits for it, and answers get off by one only after a call was given up. `EveryCallReturns`, and `ImplementsChannel`, the refinement. Deadlock is not checked: when every call has been made and answered and the environment's bounds are used up, nothing is left to do |
| `link_reply` | violated | a late answer is returned to the next call of that name: `pico-cec-listener.py:149` |
| `edid` (`MCEdid.cfg`) | holds, 0.10 M states | `AddressIsTheDisplays`: the address returned is that of the first HDMI vendor block, up to the byte the code never reads, and an undisturbed discovery finds it. `FreedBeforeFirstStart`: nine pulses free the bus from wherever a reset left the display. `ReasonIsOfThisDiscovery`, `DiscoveryReturns` |
| `bridge` (`MCBridgeSystem.cfg`) | holds, 0.36 M states | `EndsWithPwrOn`: no late PWR_OFF after the unit's PWR_ON, if no client of a PWR_OFF gave up (below). `ResumeTurnsTvOn`, `StandbySuspends`. Deadlock is not checked: when the bounds are used up nothing is left to do |
| `bridge_stale` | violated | the standby the PC caused by its own PWR_OFF is read after the resume, when the first suspend job is over, and makes a second one: `pico-cec-listener.py:6` |

The premise of `EndsWithPwrOn` about clients that gave up is needed. With four suspends
instead of two the model has this behaviour: the client of a PWR_OFF waits behind two
commands that are not answered and gives up after 8 s; its thread in the listener goes
on waiting for `_command_lock`, which keeps no order, gets it after the PWR_ONs of a
later suspend, and the TV is switched off. Two suspends are too few for it, so
the run does not show it; the proof (section 4) asked for it.

Two more exceptions are part of what is checked. `StandbySuspends` leaves out an event
that is dropped (`unheard`), among them one that `systemctl suspend` refuses while a
job is there: the Pico says it once only, and the PC stays on. `BootsWithLastSet` lets
the Pico boot with what is left of an address whose write was cut short:
`config_load_pa` checks nothing but the magic, and can only refuse a blank field.

Each property of a run that holds has a mutant, an operator beside the one it
replaces whose comment begins with "Mutant"; with it the property fails.

Further configurations, for single claims of comments and documents; each is
violated in seconds:

| Configuration | Claim | What the code does |
|---|---|---|
| `MCCecReceiverBoot.cfg` (`MCCecReceiver`) | `cec_transceiver.c:269-270` | until the first claim the adapter acknowledges frames to the TV |
| `MCCecTransmitterAck.cfg` (`MCCecTransmitter`) | `cec_transceiver.h:115` | only the last byte's ACK is sampled |
| `MCPicoAppFlash.cfg` (`MCPicoApp`) | `main.c:15` | 0.0.0.0 and 15.15.15.15 are saved and acknowledged but do not survive a reboot |
| `MCPicoLinkCtl.cfg` (`MCPicoLink`) | `pico-cec-ctl.py:17` | exit code 2 while the listener runs |
| `MCEdidPa.cfg` (`MCEdid`) | `cec_transceiver.h:80-82` | the low byte of the physical address is taken from the vendor id, and is always 0 |
| `MCBridgeSystemResume.cfg` (`MCBridgeSystem`) | `README.md:145` | a unit whose PWR_OFF failed is not stopped, and the TV stays in standby |

### Bounds, and why they are enough

- `rx`: two frames of two bytes, `<Give Device Power Status>` to address 4 and
  `<Standby>` broadcast, the claimed address 4 or 15: a byte boundary with EOM 0
  and one with EOM 1, an ACK of ours and none. `FrameMax = 2` equals the length
  of the frames, so that the buffer has no slack. One timing, with bits a little
  slow (2450 us), which the nominal 2400 us would not tell from a window that is
  too narrow. `AcceptsTheFrameOnTheWire` and `AckNeverHitsData` depend on the timing:
  they hold where two consecutive bits never rise 3500 to 3900 us apart, as with the
  nominal times (2400 us, low for 600 or 1500 us). `rx_slow` shows what happens with
  bits of 2600 us. The theorems hold for all timings the receiver tolerates.
- `tx`: `<Image View On>` (direct, two bytes) and `<Active Source>` (broadcast,
  four bytes, the longest sent), one retry, one late callback per frame, late by
  150 us (within tolerance) or 1000 us (enough to lose an alarm at a short pulse,
  or an ACK). `pulses`, `elapsed` and the 20 idle samples are bounded by the code.
  `Talks` and `AckRest` hold one other initiator with nominal bits, sampled at the
  end of each, and one remainder of an ACK.
- `app`: two settable addresses, one of which the flash does not take back; one
  power cut, at any step; frames of the TV and of another source; discovery that
  succeeds and that fails. An erase or a program of 2.0.0.0 that is cut short may
  leave a blank field, 2.15.15.15 or 2.0.0.0, one of 0.0.0.0 a blank field, 0.0.15.15
  or 0.0.0.0 (`Torn`: none, some or all of the bits that are 0 in the address).
- `link`: three calls, two with the same command, so that there is a call to be
  mistaken for and one not to be; one loss, of the port or of the listener, and one
  event. The client's 8 s lie between one time-out and two, hence `CtlTimeout = 2`.
- `edid`: up to three data blocks, in any order, of an HDMI block with address
  2.0.0.0, one with 1.2.3.0, one of another vendor that contains the bytes of an
  HDMI block, one of the greatest length and an empty one, and a list that begins
  with a short audio block; displays without header, extension or CTA header; one
  garbled byte, off by 128, so that the sum is wrong by half its range.
- `bridge`: two suspends, so that the second can meet the stop of the unit that the
  first started; one use of the remote or suspend by the user; two standby events.

### Fairness

- `CecReceiver`: the main loop polls and transmissions end (their waits are
  bounded, which `EveryCallReturns` of `CecTransmitter` shows); `main()` goes from
  boot to the claim; the alarm `ack_high` comes. None for other initiators.
- `CecTransmitter`: the main thread runs and alarms that are pending come. None
  for late callbacks; nobody has to call `cec_transmit`.
- `PicoApp`: `main()` never blocks and the clock runs. None for the PC, the TV,
  the pin or the power supply.
- `PicoLink`: threads of calls run and their time-outs come. None for the serial
  thread, which may stay in `systemctl suspend`, the Pico, the link or a restart.
- `Edid`: the discovery goes on; all its waits are bounded (100 ms a line). None for
  the display, or for who asks for a discovery.
- `BridgeSystem`: a job of `systemctl suspend` goes on to the sleep, the unit and
  the threads run while the PC is awake, the Pico executes and polls. None for who
  wakes the PC, or for the user.

## 4. Proofs

`tlapm <module>` checks them. A theorem holds for every value of the constants that
meets the named `ASSUME`s of its module, and the premise in the last column where
there is one.

| Theorem | States | Premise |
|---|---|---|
| `CecReceiverProofs!TypeCorrect` | `TypeOK` | |
| `CecReceiverProofs!BufferSafe` | `StoresInsideTheBuffer` | |
| `CecReceiverFrameProofs!WholeFrameReported` | `UnpolledFrameIsReported` | |
| `CecReceiverFrameProofs!AckIsOurs` | `AckNeverHitsData` | `NoAliasing` |
| `CecReceiverFrameProofs!FrameIsOnTheWire` | `AcceptsTheFrameOnTheWire` (action property) | `NoAliasing` |
| `CecTransmitterProofs!TxTypeCorrect` | `TypeOK` | |
| `CecTransmitterProofs!NoStray` | `NoStrayCallback` | `FramesFit` |
| `CecTransmitterProofs!WireIsReleased` | `WireReleased` | `FramesFit` |
| `CecTransmitterProofs!WireCarriesTheFrame` | `FrameOnTheWire` (action property) | `FramesFit` |
| `CecTransmitterProofs!OkIsAnswered` | `OkMeansAnswered` (action property) | `FramesFit` |
| `CecTransmitterProofs!RetryIsUnanswered` | `RetryMeansUnanswered` (action property) | `FramesFit` |
| `CecTransmitterProofs!ClaimIsFree` | `ClaimAvoidsUsed` (action property) | `FramesFit` |
| `PicoAppProofs!AppTypeCorrect` | `TypeOK` | |
| `PicoAppProofs!StandbyKnown` | `PcKnowsStandby` | |
| `PicoAppProofs!StandbyOnce` | `StandbySaidOnce` (action property) | |
| `PicoAppProofs!UnknownNotBroadcast` | `NeverBroadcastsUnknown` | |
| `PicoAppProofs!BootAddress` | `BootsWithLastSet` (action property) | |
| `PicoAppProofs!AnswersAsked` | `AnswersOnlyWhatIsAsked` (action property) | |
| `PicoLinkProofs!NeverBlocks` | `SerialThreadNeverBlocks` | |
| `PicoLinkChannelProofs!LinkTypeCorrect` | `TypeOK` | |
| `PicoLinkChannelProofs!StrayAnswers` | `StrayAnswersNeedAGivenUpCall` | |
| `PicoLinkChannelProofs!Implementation` | `ImplementsChannel` (refinement) | |
| `EdidProofs!TypeCorrect` | `TypeOK` | `WalkInRange` |
| `EdidProofs!BusIsFreed` | `FreedBeforeFirstStart` | |
| `EdidProofs!ReasonIsFresh` | `ReasonIsOfThisDiscovery` (action property) | `WalkInRange` |
| `EdidProofs!AddressIsRight` | `AddressIsTheDisplays` (action property) | `WalkReads` |
| `BridgeSystemProofs!TypeCorrect` | `TypeOK` | |
| `BridgeSystemProofs!EndsOn` | `EndsWithPwrOn` | |

### Premises

TLC evaluates `NoAliasing`, `FramesFit` and `WalkInRange` on the instances of section 3,
by an `ASSUME` of the MC module, and compares both sides of `WalkReads` in the run `edid`.

- `NoAliasing`: two consecutive bits never rise 3500 to 3900 us apart. Nominal bits
  rise 1500, 2400 or 3300 us apart; `rx_slow` has an initiator for which it is false
  and both properties fail. What is true without it (types, the buffer, a frame
  that nothing cuts into) is proved without it.
- `FramesFit`: the longest frame the callers send, with all the lateness the
  environment may add, ends within the 200 ms of `cec_frame_send_raw`. A frame of
  four bytes, the longest in `main.c`, takes 101 ms. The code checks no length: a
  frame of nine bytes would run into the time-out, which cancels no alarm.
- `WalkReads`: over the ungarbled extension of each display, the walk over the data
  blocks finds what the list of the display's blocks says, and an address that is
  not blank. It is a statement about a recursive function and all sequences of data
  blocks, and needs an induction the provers cannot do. In the run `edid` the
  walk is taken on every display of `MCEdid`, and `AddressIsTheDisplays` compares it with
  the list. The theorems then say that nothing on the way to the walk
  (retries, refused or garbled bytes, resets, checks on the blocks) changes it.
- `WalkInRange`: the walk never yields `CEC_PA_UNKNOWN`. The low byte of what it
  yields is the third byte of the vendor id, which is 0.

### Inductive invariants

- **Receiver, `IInv`.** The ISR has no bound on `rx.byte`, and `TypeOK` is not
  inductive: the reason `rx.byte` stays inside is that the receiver never gets ahead
  of the wire. `Position` says so (`RxPos <= WirePos`, both counted in pulses);
  `RxShape` ties the state to the enabled edge and to the bit counter, `WireInv` is
  what an initiator keeps to. The case that needs care is a new frame after one that
  was given up: the pause fails every test of the bit time (`MaxSince > 4700`),
  except in `ACK_LOW`, where no time is checked and the start bit is taken for the
  ACK slot. That one step ahead is the exception in `Position`; the next edge ends
  it, for a start bit is too long for an ACK.
- **Receiver, `WInv` and `FrameInv`.** `WholeInv` follows a frame that nobody cuts
  into: state, bit, byte and data are those of the slot on the wire, so every
  pulse passes its test. `FrameInv` is for all the others. `IInv` only bounds the
  receiver's position; here `Sync` makes it exact and `Received` says that the bytes
  stored are the frame's. A poll restarts the receiver at any edge, so what has to
  be excluded is that a part of a frame passes for its start: `StartInv` says that a
  low pulse under way in `START_HIGH` is the start bit or will be refused, which
  needs `Apart`, the form of `NoAliasing` that holds in each state.
- **Transmitter, `TypeInv` and `TxInv(L)`.** A callback that is left over would
  find a `tx` of another frame; that there is none (`Pending`) depends on the clock:
  `Clock(L)` bounds the time the frame has taken so far by its pulses and the
  lateness used up, `L` being the worst, so that with `FrameFits` the time-out can
  only strike where the alarm is lost already. `Position` and `Due` tie
  state, byte and bit to the number of pulses and to the delay of the pending alarm,
  from which `Judged` follows: the wire carries the frame so far. `AckedInv`
  and `Answer` relate the one sample to the followers' answers. `TypeInv` alone
  holds without premise, whatever a left-over callback does: `Shape` keeps `tx.bit`,
  which wraps to 255, away from the next data bit.
- **Application, `IInv`.** `do_pwr_on` at boot sets `TV_ON` without a word to the PC.
  That is harmless because no frame and no poll has been handled yet, so the status
  is still unknown: `BootInv`. `CmdInv` says which command the shared steps (claim,
  erase, program) belong to.
- **Application, `AppInv`.** `FlashInv`: the sector holds the last address that was
  written whole, or is blank, or holds what is left of the write that was cut short
  (`Torn`, about which nothing is assumed), and is blank while `main()` is between the
  erase and the program. `OwedInv`: at each step of a handler a command is waiting for
  its answer, and it is that handler's.
- **Link, `IInv`.** A reply queue holds one item, and the thread would block on a
  second. A call's queue is in one place at most, on the write queue or in
  `_pending`, and is empty while it is there (`QueuedOnce`, `QueuedIsFresh`,
  `PendingIsFresh`): a queue is taken out of its place whenever a reply is put on it.
- **Link, `ChanInv` and `StrayInv`.** A command and its answer are one token, on the
  write queue, with the Pico, on its way back or in a reply queue, in one place at
  most and there once (`OnePlace`, `Once`); only the holder of the lock is served
  (`LockHeld`). With that each action is a step of `CommandChannel` or none. Answers
  are matched by name, so a token that outlives its call can go to a later one;
  `InTurn` says that it cannot take the place of a call that still waits: the command
  of the served call is the last one written, and registers it. `Leftover` says that
  a token whose call is over belongs to one that was given up or took another's, and
  traces the first of them back to a call of that name that was given up.
- **Discovery, `EInv`.** `ClearInv`: the clocks of the bus clear so far and those the
  display still needs add up to nine at most. `UndisturbedInv`: if nobody has
  disturbed this discovery the display listens and no step has failed.
  `ExplainedInv`: a try that failed has left its reason. `HeaderInv`: the extension
  is read only if the base block announced one.
- **Whole system, `BInv`.** The write queue and the Pico keep the order, so what is
  executed last changes only when a call takes the lock. From when a PWR_ON of
  `ExecStop` does, until the unit is started again, no PWR_OFF may: `UnitInv` says that
  all PWR_OFFs so far have been waited for, and `ClientInv` that a client which was
  answered has a call that is over, so that only a client that gave up leaves a
  PWR_OFF behind. `OrderInv` puts the three together. The types are those of
  `PicoLink` for the actions taken from it, and for one that it does not have, a line
  thrown away while the PC sleeps.

### Only model-checked

Liveness under fairness: `EveryCallReturns`, `EveryCommandIsAnswered`,
`DeadTvIsReported`, `RxRearms`, `DiscoveryReturns`, `ResumeTurnsTvOn`,
`StandbySuspends` (`CommandChannel!Spec` states no fairness, so the refinement is
proved whole). What `Walk` computes (induction over data). Every invariant and action
property of a run that holds is stated by a theorem.

## 5. Plan

In this order:

1. Done: `CecReceiver`, `CecTransmitter`, `PicoApp`, `PicoLink`, the runs above and
   the first proofs: the firmware's state machines, the application and the
   protocol with the PC.
2. Done: `Edid`, the discovery. `BridgeSystem`, the parts together. The abstract
   `CommandChannel` and the refinement. The wait for an idle bus against another
   initiator and the receiver's own ACK, the retries of `cec_transmit`, the restart
   of the listener.
3. Done: the theorems of section 4, which state every invariant and action property
   of the runs that hold, and the refinement.
4. `CecLoopback`: two adapters on one wire that both send, for what the lack of
   arbitration costs beyond `clash`.
5. The interrupts that `config_save_pa` (`main.c:68`) disables for an erase and a
   program of flash. No action of `CecReceiver` stands for them, so nothing here
   says what a `SET_PA` does to a frame that is arriving, nor to an ACK whose
   alarm falls due meanwhile.

## 6. Not modelled

The electrical side of the DDC and CEC lines (pin functions, pulls, delays); the
LED, which nothing reads back; the UF2 generator, which writes the flash page that
`SET_PA` writes; the installer, udev and polkit rules, the build files; the boot and
shutdown units, each of which sends one command with nothing after it; the hook
`50-pico-cec.sh`, which `install.sh` removes; the parsing of requests on the control
socket, which refuses what is not one of three commands before anything is shared.
