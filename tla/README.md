# TLA+ models of the smart home

This directory models the program in `src/`: a touch panel, an STM32 controller,
an ESP32 cloud bridge and two Zigbee nodes, which command and report an air
conditioner, a window, three lamps and an alarm. The modules are checked with TLC
on small instances; the theorems in the `*Proofs` modules hold for all values of
the constants.

## The system

```
 recognition server            cloud (OneNET, MQTT)
      | TCP 50000                    |
      |                            ESP32  sketch_nov16a.ino
 panel  GEC6818/                     | serial, lines
   main.c      LVGL loop, voice      |
   page/*      pages                 | USART3 (also printf)
      | /dev/ttySAC1               STM32  stm32/Core/Src
      |                              | task1 sensors, report
 Zigbee node ~~~~ radio ~~~~ Zigbee node   task2 commands, USART3
   SampleApp.c               (coordinator) task3 commands, USART1
```

A command is a letter (`A`ir, `W`indow, `L`amps, `B`eep) and a digit. It comes
from the control page or the voice thread over Zigbee to task3, or from the cloud
over the ESP32 to task2. task1 reports the sensors to both sides.

### Inventory

| Component | State | Operations | What makes it correct |
|---|---|---|---|
| STM32 serial receive (`usart.c`, HAL) | DR, RXNE, ORE, RxXferCount, the caller's buffer | `HAL_UART_Receive` against arriving bytes | no byte twice or out of order; a frame is whole; a call returns |
| STM32 serial transmit (`usart.c`, HAL) | gState, TxXferCount, DR | `HAL_UART_Transmit` of three tasks, `fputc` | never busy for nobody; a call alone is whole; every call returns |
| STM32 tasks and keys (`freertos_task.c`, `stm32f1xx_it.c`, `air.c`) | four flags, pins, two buffers, sensor data | task1, task2, task3, KEY1, KEY2 | devices do what was commanded; reports are true; fire sounds the alarm |
| STM32 start-up (`main.c`, `tim.c`, ...) | clocks, registers | initialisation | initial outputs |
| DHT11 driver (`dht11.c`, `m_delay_us`) | wire, five bytes, two timers | read with handshake | what can be wrong in an accepted reading; when a read ends |
| Panel main loop and pages (`main.c`, `page_manager.c`, `main_page.c`) | `lvgl_mutex`, active screen | LVGL loop, `Run` of a page | the loop goes on for ever |
| Display page (`Display_page.c`) | labels, `t_id`, `db`, the thread | show, return, query; read, insert, label | one thread, on labels that exist; returns end |
| Control page (`Control_page.c`) | four switches | switch: write two bytes | the two bytes of a command leave together |
| Music page (`Music_page.c`) | `is_playing`, `count`, index; madplay processes | play or pause, next, previous | what the page remembers is what plays |
| Voice thread and server (`main.c`, `maix_asr/.../main.cpp`) | TCP stream, `is_awake` | record, send, recognise, act | an answer belongs to its recording |
| Zigbee node (`SampleApp.c`) | UART buffer, OSAL events, timers, messages, group | UART callback, timer, messages, keys | the last command arrives, whole, unless it was in a batch behind another, and none that it replaced |
| Cloud bridge (`sketch_nov16a.ino`) | MQTT session, `postid` | callback, reconnect, publish | an answered set was written out; a set is lost only with its connection or its subscription |

What is hard: three tasks of one priority that share flags, pins and one UART
handle without a lock; polling receivers that lose bytes and callers that ignore
it; a GUI thread and a page thread with one mutex, deferred cancellation and a
join; resends for ever over a lossy radio; two users of the same madplay
processes; request and answer without framing; a bit-banged sensor under a
preemptive scheduler, timed by two timers; a cloud session that forgets.
`PROJECT.json` lists each hazard at its line, with the property that covers it or
the reason that none does yet.

Left aside: LVGL, FreeRTOS, CMSIS and the rest of the HAL, the TI stack, the
recognition library, fonts, and build output. The two HAL calls above are
modelled although they are vendored, because the system's hazards lie in how they
meet this code.

## The modules

### `UartRx`, `LossyLine`, `MCUartRx`, `UartRxProofs`

One USART receiver and one task that calls `HAL_UART_Receive(huart, buf, Size,
Timeout)` again and again. `rx` is the place in the HAL between two register
accesses: `flag` (the SR read for RXNE), `data` (the DR read), `time` (the timeout
test), `overrun` (the SR read for ORE) and `clear` (`__HAL_UART_CLEAR_OREFLAG`, an
SR and a DR read). `Arrive` and `Overrun` are the peripheral; they can happen
between any two steps, since the task can be preempted there. A byte is its number
in the stream; `delivered` and `lost` are history. Whether a DR read clears an ORE
raised after the SR read is left open, as both outcomes occur on the bus.

`RxState` is not modelled: each port has one caller, so a call never finds it busy.

`LossyLine` is what the task may rely on: order kept, nothing twice, anything
lost. `LineSpec` states that `UartRx` implements it, by the identity on the three
shared variables; the module `Controller` uses the line in that form.

### `Controller`, `MCController`, `ControllerProofs`

task1, task2 and task3 as step machines over `flag`, `pin`, `rbuf` and `low`. A
step is one access to what the tasks share: the `sscanf` store (`Scan`), the test
of the flag (`Test`), each pin write (`WritePin`), `led_flag = 0` (`ResetLed`).

| In the model | In the code |
|---|---|
| `Scan` with `ClearedBy` | `sscanf(buf, "A%d", &air_flag)` stores an `int` into a `uint8_t`; `Smart_Home.map` 2394-2397 places the flags at consecutive addresses, so the upper, zero, bytes clear the flags that follow |
| `ReceiveTimeout` | the ignored result of `HAL_UART_Receive`: the branches run on what `rbuf` holds |
| `ReadDht` | `DHT11_ReadData`, whose loops may never end: a step that owes nothing to fairness |
| `TestPresence`, `TestFire` | `if (data[2] < 500) ... else if (data[1] < 500)` |
| `Report` | the two transmissions; the report carries the flags of its moment |
| `Press` | `HAL_GPIO_EXTI_Callback`: an interrupt runs to its end between two task steps |
| `Lose`, `Lossy` | the lossy line of `LossyLine`, for a byte that would have been next |

`rbuf` starts with NUL bytes: it lies in the stack of its task, in memory of the
heap array that nothing has written before. Pins that are active low are named by
what they do: TRUE is on, or open.

### `UartTx`, `MCUartTx`, `UartTxProofs`

`HAL_UART_Transmit` on USART3 by several tasks. The test of `gState` (`Enter`,
`Refuse`) and its assignment (`Claim`) are two accesses, and `TxXferCount--` is a
`Load` and a `Store`. `alone` and `sent` are history. `MaxPos` bounds what the line
carries before the timeout of a call: a call beyond it finds TXE reset until it
times out.

### `DisplayPage`, `MCDisplayPage`, `DisplayPageProofs`

The LVGL thread (`ui`) and the thread `tunc` of each visit. A click is a step of
the LVGL thread while it holds `lvgl_mutex`, since callbacks run inside
`lv_timer_handler`. A visit, its thread, its connection and its labels share a
number. Cancellation is deferred, as POSIX threads start: `Pass` marks the calls
that do not return to a cancelled thread, `Die` ends it there. SQLite is modelled
by what matters here: an insert holds the write lock of the file, a connection
with the lock and no thread keeps it, a query against it may fail, and inserts and
queries on one connection exclude each other.

### `ZigbeeApp`, `LastWord`, `MCZigbeeApp`, `ZigbeeAppProofs`

The OSAL task of every node: `UartCB` (bytes go to the front of the buffer),
`SendToCoordinator` (the buffer as a string, then the timer again),
`MessageMSGCB`, `StateChange`, `HandleKeys`, and `Discard` (the `return 0`). OSAL
is cooperative, so a handler, or one turn of the loop over its messages, is a
step. Packets are a set: they can be lost and, with `MaxAir` above 1, overtaken.
`printf` of the node is left out: nothing in `src/` sends it to the port.

Two things the code says and does are not run as findings: the comment
"Start sending the periodic message in a regular interval" (`SampleApp.c:310`)
stands over a timer whose handler is commented out (338-349), which the model has
as `Discard`; and every node sends to 0x0000 only, so the side that is not the
coordinator never receives: with the STM32 node as coordinator, as the commands
need it, the reports of task1 cannot reach the panel.

For one host the nodes promise what `LastWord` says in two actions: commands may be
skipped and repeated, none is handed on after one that replaced it. `LastWordSpec`
states that `ZigbeeApp` implements it, through `written` and the history variable
`handed`, the number of the frame handed on last.

The coordinator hands on the first two bytes of a packet. Commands that the driver
of a node delivers as one batch travel together, and those behind the first are
never handed on. `LastCommandArrives` is therefore about a last command that the
driver delivers alone; a batch of A1 and L0, which the instance has, leaves the
lamps as they were.

### `Dht11`, `MCDht11`, `Dht11Proofs`

`DHT11_ReadData` against one answer of the sensor. `edges` holds the times at
which the wire changes; a sensor that is pulled out at `cut` leaves the edges
before it. Time jumps to where the driver looks next: `WaitFor` to the edge it
waits for, `DelayTo` to the end of `m_delay_us`, `Preempt` by the time another
task or a handler takes. `off` is history: the bits in which the driver was
disturbed, by a preemption or by a delay that did not take what it was called with
(0 stands for the time before the first bit). `InStep` compares the edges the wire
has had with those the driver has waited for. The answer and what is read of it
are sets of bits, those that are 1; `Worth` is what bits add up to, by `Weight`,
so that `Sum` and `Checksum` compare as the `int` and the byte of the code do.

| In the model | In the code |
|---|---|
| `DelayEnd` | `m_delay_us`: with `delays > startval` it waits for the next tick of TIM4 and then for SysTick, else for whichever comes first |
| `TestAnswer` | `if (DHT11_ReadPin == 0)`, once |
| `WaitAnswerLow` .. `WaitFall` | the `while` loops on the pin; a wait for an edge that never comes is not enabled |
| `Sample`, `SetBit` | the test 40 us after the rising edge, `temp \|= 1 << (7 - i)`: the bit is in the set from then on |
| `NextBit` | the next of the bits, or the test of the checksum |

FreeRTOS reloads SysTick and HAL's tick is TIM4, both of 1 ms; nothing aligns them.
The phases are those of the release of the wire, and every property is about all of
them.

### `CloudBridge`, `MCCloudBridge`, `CloudBridgeProofs`

The sketch as a loop over `pc`: `Connected`, or `Connect` and `Subscribe` (the two
exchanges of `reconnect`), `Poll` (`client.loop` and the head of `callback`),
`TestParam` (one `containsKey`), `Reply`, `Available`, `ReadLine` and `Publish`
(`readString`). `sub` is the subscription of the connection. A `subscribe` that
fails is looked at by nobody, so a connection can live on `refused`; one that went
out is `on` when the broker has taken it up (`Grant`). The cloud (`Issue`), the
broker (`Grant`), the connection (`Drop`) and the STM32 (`Arrive`) are external:
the session is clean and of quality of service 0, so the broker keeps nothing, and
`Drop` takes what was under way. A set is a function from some of the four keys;
one with more than `MaxParams` does not fit the 100 bytes of the document and
`callback` returns. `missed` is history: the sets that met a bridge that could not
hear them, or a connection that broke. `replied` holds the sets that an answer was
published for. Whether the cloud takes it in is another matter: it goes to
`.../property/post/set_reply` (line 18), and a comment of the sketch (line 101)
says that OneNET does not receive it.

The contents of a publication are left out: task1 prints a line of text before every
report, so what follows `params` in a publication is no JSON value in any case.

### `VoiceLink`, `PanelSound`, `MCPanelSound`, `PanelSoundProofs`

`VoiceLink` is `check` and `get_network_file` over one TCP stream, counted in words
of four bytes, the length of the size. A recording is a size and then words; a read
of the server takes any number of words up to `ReadMax`, whatever they are, and
words that are taken for a size are any number. `Open` can fail, which the server
answers with `error!!!` and then recognises its last file again; the server can end
(`gone`), and the second `send` after that kills the panel, since nobody handles
SIGPIPE.

`PanelSound` extends it with what the thread does with the words (`VoiceActs`) and
with the music page. Both sides act on `player`, the processes called madplay:
`Start`, `KillAll`, `StopAll` and `Continue` are the four shell commands. One that
ends in `&` takes effect later: a new player is `starting` until its shell has
become madplay, and only then does `killall` find it. `calm` is history: the voice
thread has made no sound, and no click came while the effect of an earlier one was
outstanding.

| In the model | In the code |
|---|---|
| `Visit` | `MusicPageRun`: new buttons, the old `is_playing` and `count` |
| `PlayPause` | `play_pause_event`: `count == 1` starts, anything later continues |
| `ChangeCover`, `PlayCover` | `next_cover_event`, `previous_cover_event`: `killall -9`, then `play_music` |
| `Changes`, `VoiceStarts` | the branches of "next" and "previous" in `check`, likewise |
| `Takes` | the chain of `strstr` tests, in its order |

## The runs

| Run | Instance | What it shows |
|---|---|---|
| `uart_rx` | frames of 2, timeout 1, 5 bytes | every byte in one place (`Accounted`), frames in order with only lost bytes between (`WholeFrame`), stale bytes behind new ones (`StaleTail`), slots only advance, calls return, `LineSpec` |
| `controller_race` | two lossy lines, 5 by 4 streams of one or two commands, one KEY2 | nothing turns on without a letter and a 1 on one line; which reported flags can be trusted; `led_flag` never outlives its branch |
| `controller_live` | both sensors free, B0 from the cloud, A1 A0 from the panel, one KEY1 | `FireAlarm`, `AirConverges` |
| `lamps_one` | L1 on both lines | violated: two commands to turn the lamps on turn them off |
| `uart_tx` | two tasks, sizes 2 and 1, timeout 1, counter modulo 3 | `BusyIsHonest`, `LoneCallWhole`, `CallReturns` |
| `uart_tx_race` | the same | violated: a call of one element sends two |
| `display_page` | three visits, two descriptors | mutex, labels, closed connections, and when a return ends |
| `display_stuck` | one visit | violated: the LVGL loop stops for ever |
| `zigbee` | panel and STM32 node, two frames, three network changes or keys | the resend loop lives, frames are whole, a last command that comes alone arrives (`LastCommandArrives`), and `LastWordSpec` |
| `dht11` | two data bytes and a checksum of two bits each, every answer, cut at four times, two phases of each timer, three preemptions | an accepted reading is wrong only in bits that were disturbed, and never in one alone (`AcceptedIsInStep`); a sensor pulled out before its last bit is never believed (`NothingFromACutSensor`); a driver in step with a sensor that stays ends, and with no bit disturbed it returns what was sent (`ReadEnds`) |
| `cloud_bridge` | four sets, one too large, two breaks, a buffer of two lines | an answered set was written out whole and the sets do not mix (`RepliedIsDone`), what can be lost (`NoSetVanishes`), and that a set reaches the STM32 unless `readString` never ends (`SetReaches`) |
| `panel_sound` | two songs, two players, two recordings of two words, two words said, one failing open | `AnswersInStep`, `PageOwnsSound`, `LinkGoes` |

Every property of a passing run has a mutant in `PROJECT.json`: a variant of one
definition, next to it in its module under the word "Fault", that TLC finds to
break the property.

### Bounds

- `uart_rx`: five bytes are two calls and a half, so that a call can find a new
  byte, a byte of the call before and a hole in every slot. The proofs remove the
  bound.
- `controller_race`: two commands on one line and one on the other are the
  smallest case in which a third store can fall between the store and the test of
  another; every pair of devices with a cleared flag occurs. The proofs remove it.
- `uart_tx`: `Wrap` 3 lets a shared count pass below zero within the elements
  `MaxPos` allows. The proofs remove it for the safety properties.
- `display_page`: two visits with a connection each and a third that finds no
  descriptor; a third thread would only repeat the second.
- `zigbee`: two frames, written apart or as one batch of four bytes; two messages
  in the queue, one resend of a node on its way (it arrives or is lost within the
  two seconds to the next; `LastWordSpec` rests on it). The proofs remove the other
  bounds.
- `dht11`: the times of the sensor in units of 10 us, so that a short pulse, the
  sample and a long pulse keep their order. Two bits to a byte let a carry of the
  sum cross the bits; 25 units to a period make delays end at a tick and after it.
  The gaps are shorter than a pulse, as long as a bit, and longer than one; the
  phases let a delay be exact, short and long. Three preemptions can spoil two
  bits and the time before them. Accepted readings that are wrong in two bits or
  more are states of this run, some of them without any preemption. The proofs
  remove the bounds: any bytes, weights, times, phases, cuts and gaps that satisfy
  the two assumptions.
- `cloud_bridge`: sets of one, two, three and four keys with `MaxParams` 3, which is
  about what 100 bytes hold; a set during a break, in one, and between two, and one
  on a connection without its subscription.
- `panel_sound`: recordings of two words, of which a read takes one or two, so that
  it can take the size of the next recording; `MaxDown` is above the three messages
  that can be under way. Two songs make "next" and "previous" the same, which the
  properties do not tell apart. To keep the instance within reach, `MCSpec` lets the
  server fail or end, or be absent, only while nobody has opened the page: no step of
  the link reads the page, and the page reads of the link only that the process is
  alive. The proofs, which are about `Spec`, remove this and the other bounds.

Deadlock is checked everywhere but in `display_page` and `display_stuck`, where
the join of the finding stops every thread, in `dht11`, where a read ends or waits
for an edge that never comes, and in `panel_sound`, where the process may be killed.

### Fairness

- FreeRTOS time-slices the tasks of one priority and `configUSE_PREEMPTION` is on:
  weak fairness of each task's steps, of the tick and of the shift register. The
  peer, the sensors and the keys owe nothing. The fairness of task1 leaves out
  `ReadDht`, whose loops have no timeout: `dht11` has the states in which they wait for
  ever. `FireAlarm` says in its antecedent that task1 comes back from them again and
  again; without it the alarm may stay silent. `ReadEnds` says when they end.
- On the panel the kernel schedules the threads and wakes the waiters of a mutex:
  weak fairness of steps, strong fairness of the two lock operations. The user
  need not click. In `panel_sound` the same holds of the voice thread and of the
  server, a process of another board; the songs and the shells owe nothing.
- OSAL polls the UART and runs pending events, and its timers expire: weak
  fairness. A packet that is sent again and again gets through: strong fairness of
  the delivery of each node's resends. `LastCommandArrives` is about a network whose
  members stay and a last command that the driver delivers alone.
- The sketch is one loop: weak fairness of its steps. An attempt to connect
  succeeds in the end; that the broker takes up a subscription is not assumed.
  `SetReaches` names the one thing it needs and the code does not ensure, that
  `readString` returns again and again.

## The proofs

The theorems are checked with `tlapm UartRxProofs.tla`, and so on. They hold for
all values of the constants that satisfy the assumption of their module. Each
follows one argument: a named inductive invariant `IInv`, three facts about it
(`InitIInv`, the `Step...` lemmas, and that it implies the property), and `PTL`.

- **`UartRxProofs`**, from `UartAssumption`. `WholeFrame` alone is not inductive:
  a read of DR keeps the order only if DR is newer than all that was delivered
  (`InOrder`), and the buffer has to be described while a call is half done
  (`Frame`: the slots written so far are in order, with only lost bytes between
  them, and newer than the rest). `Control` ties the place in the HAL to `count`
  and RXNE: between the SR read and the DR read nothing but the task clears RXNE.
  `ImplementsLine` maps each step to a step of `LossyLine` or a stutter; it needs
  `Accounted` and `InOrder` to know that the byte delivered is the oldest in
  flight.
- **`ControllerProofs`**, from `ControllerAssumption`, for any streams, with or
  without loss. `Branch` says what the control of a task knows of its buffer and
  the pin it writes. `LedHeld`, `AirAgrees`, `WindowAgrees` and `OnByCommand` are
  the properties with the levels about to be written added, since a task that has
  tested a flag carries its value past any change of the flag. `OneWriter` is the
  core: under one commanding side no other task is ever in a branch of the letter,
  and `ClearedBy` never clears the air conditioner.
- **`UartTxProofs`**, from `TxAssumption`, for any number of callers. `Lone`
  describes a call that no other overlaps: the count and the position always add
  up to the size, which fails as soon as a second call enters.
  `BusyIsHonest` is inductive by itself, and holds although `gState` is raced for:
  every call that can set BUSY_TX is inside when it does.
- **`DisplayPageProofs`**, from `DisplayAssumption`, for any number of visits and
  descriptors. `Visits` is the core: all visits but the last are joined, and only a
  return cancels. From it follow `OneUpdater` and, with `OwnLabels` (a thread holds
  the labels of its own visit), `LabelsLive`. `WriteLock` and `ClosedBy` tie a closed
  connection to a thread that was cut inside an insert. `OneUpdater` is proved and no
  longer run. Two theorems say what a return does. `EveryStepOfAReturn`: while the
  main thread joins, only the cancelled thread can move, `Left` falls with each of
  its steps from three to one, and none of them goes to the lock; the join is the
  last. `StuckForEver`: if the thread was at `pthread_mutex_lock` already, no thread
  has a step left. The finding of `display_stuck` stops the whole panel for good.
- **`ZigbeeAppProofs`**, from `ZigbeeAssumption`, for any nodes, frames, batches and
  bounds. `Wholes` says that everything between the driver of a host and the port of
  the coordinator starts with a whole frame: the buffer keeps the tail of an older
  batch, and only its front matters. `ResendAlive` is inductive by itself.
  `ImplementsLastWord` maps `HostWrites` to `Write`, the coordinator's
  `MessageMSGCB` to `Hand` or a stutter, and every other step to a stutter. It
  assumes `MaxAir = 1`, one resend of a node on its way at a time, and needs
  `Ordered`: the numbers of the frames grow from the one handed on last over the
  message queue, the air and the buffer to the driver.
- **`CloudBridgeProofs`**, from `BridgeAssumption`, for any sets and any number of
  breaks. `Tested` says that a key of the set in `callback` is still to be tested or
  written, which gives `Done` when the answer goes out; `Ordered` that the line, the
  set in `callback` and the sets under way follow the order of the cloud; `Control`
  that the loop has asked for the subscription of every connection it polls, so that a
  set can be lost only in the ways `Deaf` and `Drop` name. Both theorems hold for any
  refusals and delays of the subscription.
- **`PanelSoundProofs`**, from `LinkAssumption` and `SoundAssumption`, for any sizes
  of recordings, blocks and reads, any words and any number of songs. `InStep` says
  where the two sides are with one recording: nothing under way (`Between`), its size
  sent and not yet agreed to (`Asked`), its words under way (`Sending`), all sent and
  the one answer to come (`Sent`). The two counts meet in `left = unsent + Len(up)`:
  what the server still waits for is what the client still has and what is in the
  stream, so no read of the file can take a word of the next size. `Owned` is the
  page: at most one player, with the song of the cover, a continuation on its way only
  to a player the page counts as playing, and `count # 0` as soon as there is one,
  which is what makes the second visit continue and not start.
  Two theorems follow from `InStep` about the waits of the link, while the server does
  not fail. `NobodyWaits`: the two sides are never both at a read with nothing under
  way. `EveryTalkEnds`: `Undone`, what is still to be sent, read, heard and answered
  for a recording, falls with every step of either side from `2 * FileSize + 7` at
  most, however the kernel cuts the stream.
- **`Dht11Proofs`**, from `DhtAssumption` and `PulseAssumption`: the sensor has
  pulled the wire low when the driver looks for its answer, and a sample falls behind
  a short pulse, within a long one and before the next. The data sheet allows the
  answer up to 40 us after the release and the driver looks after 30; a later answer
  is refused, which only a quiet read would notice. No theorem assumes anything of the
  phases of the timers or of the preemptions.
  - `Counted` bounds from below the edges up to `t` at each place of the driver:
    `2k + 1` before bit `k`, `2k + 2` inside it. A wait takes the driver past one more
    edge, because the number of edges passed has the parity of the level
    (`WaitPasses`); a bit that is sampled low has used up its edge down while task1 was
    in the delay. No time appears in this argument, so no preemption can break it, and
    `NothingFromACutSensor` follows for any number of them.
  - `AcceptedInStep` is about time. `Clock` ties the two: while the sensor is there,
    the number of edges passed is `2b + 1` or more exactly from the beginning of bit
    `b`, and `2b + 2` from its rise. A driver that is two edges ahead (`Lost`) stays
    so, as each wait keeps the parity (`StepCounts`), and an answer has only one edge
    more than an accepted read uses up: a read that has lost an edge is never accepted.
    One that has lost none is on the bit of the wire whenever it begins a bit, so a bit
    that nothing disturbed is read at its time and right (`InTime`), whatever happened
    to the others; `Reads` is this. That the wrong bits of an accepted reading are never
    one alone is `ChecksumFinds`: a single bit, 0 for 1 or 1 for 0, moves the sum or the
    checksum and not both (`WorthLess`).
  - `OnTime` gives the time of every place of a read in which no bit was disturbed.
    `NoWaitForEver` is the safety half of `ReadEnds`: a driver in step has an edge of
    the answer left for every wait, since the answer has more edges than it uses up
    (`WaveIsLonger`), and a read with no bit disturbed ends in the data that was sent.
    Only that the steps are taken is left to `ReadEnds`.

Only model-checked: the liveness properties (`ReceiveReturns`, `CallReturns`,
`FireAlarm`, `AirConverges`, `CleanReturn`, `LastCommandArrives`, `ReadEnds`,
`SetReaches`, `LinkGoes`), which are out of the prover's reach. Every invariant and
every action property that a run checks is a theorem. For three of the nine the
theorems above prove all but the fairness: that each step of a return
and of the link is one nearer to the end, and that no wait of a read in step is for
nothing. That the steps are taken is left to `CleanReturn`, `LinkGoes` and `ReadEnds`.

## What the checks found

1. `lamps_one`: task3 stores L1 in `led_flag` and tests it after task2, in its own
   L1 branch, has reset it. Two commands to turn the lamps on turn them off
   (`freertos_task.c:225`).
2. `uart_tx_race`: a one-character `printf` sends a second element, from behind its
   buffer, when the transfer of another task resets the shared count
   (`stm32f1xx_hal_uart.c:1145`).
3. `display_stuck`: the return button joins, holding `lvgl_mutex`, a thread that
   waits for `lvgl_mutex` (`Display_page.c:27` and `:125`).

Also seen, and kept in the models as the code has it: the store of one flag clears
others, so `WindowNotFalselyOpen` holds but its converse does not; `led` is always
reported off (`LedFlagTransient`); presence in the room hides a fire, which is why
`FireAlarm` asks for its absence; a query that fails closes a connection in use
(`MisuseNeedsCut` says when). With timers that are not in phase a read that
nothing preempts can be refused, can be accepted with two wrong bits, and can fall
out of step and wait for ever; `AcceptedIsInStep` and `ReadEnds` say what remains
true then. Of commands that travel in one batch only the first is handed on, and a
connection whose subscription was refused brings no set and is kept as it is
(`LastCommandArrives` and `NoSetVanishes` say when). After one failed open of the
server's file the answers lag behind the recordings or the two sides wait for each
other, which is why `AnswersInStep` and `LinkGoes` exclude it. A click that
overtakes the one before it, or a word of the voice thread, leaves the page with a
sound it does not know of, which is why `PageOwnsSound` asks for `calm`.

## Not modelled, and why

- The input of the display page (`serial.c`, torn lines): no report can reach it. The
  coordinator writes two bytes of each packet to its host (`SampleApp.c:447`), and a
  report has about sixty; `DisplayPage` takes any outcome of the read.
- The switches of the control page: they are set by the finger alone, so there is no
  other state that they could agree or disagree with. Their two-byte writes are
  `HostWrites`.
- What the ESP32 publishes, and whether the cloud can read it.
- The recogniser, the benchmark modes of its server and its configuration.
- Start-up code and `gpio.c`, `adc.c`, `dma.c`: register set-up, run once.
- `zigbee/Source/DHT11.C`, `dht111.C`, `adc.c`: `SampleApp.c` no longer calls them.
- Wording and layout: reports, labels, fonts, pictures, log lines.
- Times: a timeout is a tick count in the HAL and a choice elsewhere.

## Plan

1. Done: `UartRx` with `LossyLine`, `Controller`, `UartTx`, `DisplayPage`,
   `ZigbeeApp` with `LastWord`, `Dht11`, `CloudBridge`, `VoiceLink` and `PanelSound`,
   each with its proofs.
2. `SmartHome`: control page, Zigbee path, cloud bridge and controller in one, with
   the abstract specification "the device ends as the last command says" over
   `LastWord` and `LossyLine`, and the places where the code falls short of it.
