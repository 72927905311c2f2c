# A formal model of presm and its Preinception accelerator

`presm` is a matrix library (`driver/matrix`) over a small accelerator
(`device/preinception`) that adds, multiplies by powers of two and divides by
powers of two on 32-bit integers. The accelerator exists three times: as RTL
(FPGA and tapeout, reached over a UART), and as a *functional model*, a
multi-threaded C++ program the library links instead of a serial port. Its
memory is on the host: the command processor sends read and write requests back
over the same link, and the host answers them.

Everything below is about the sources at one commit. Paths are relative to
`src/`; `cp`, `rx` and so on are the names used in the code.

## 1. Inventory

| Component | State | Operations | Talks to |
|---|---|---|---|
| matrix library, `driver/matrix/matrix.cpp` | `recorded_commands`, `global_command_id`, `command_status_readback`, `free_called`; one receive thread | `mInit`, `mAdd`, `mMulPow2`, `mDivPow2`, `mSync`/`cmdSync`, `mFree`, `MIntDeviceMemory` constructor, `getValue`, `setValue` | a `Device` (calls), its own thread (shared list) |
| functional device, `functional_impl.cpp` | `received_payloads`, `mem_write_state`, `mem_write_addr_scratch`, `last_request_pkt`, `last_response_pkt`; one receive thread | `device_initialize`, `send_device_payload`, `receive_device_payload`, `process_device_request` | the library (calls), `HwInterface` (mailbox, list), the memory |
| host interface, `hw_interface.cpp` | `driver_payload`; two threads | `execute_rx`, `execute_tx`, `get_message_from_device` | the device, `HwCp` (mailboxes) |
| command processor, `hw_cp.cpp` | 21-state machine, operands, addresses, `tx_cmd_id`; one thread | `execute` | `HwInterface` (mailboxes) |
| mailboxes, `hw_module.h` | `messages`, one packet per key | `push_message`, `get_message`, `get_message_ack` | |
| clock, `hw_clock.cpp` | a condition variable, a thread | `wait_for_tick` | every hardware thread |
| packets and lists, `defs.h` | | `DevicePayload` getters and setters, `ThreadSafeList` | |
| device memory, `host_resident_device_memory.cpp` | `contents`, `allocation_ptr` | `allocate`, `read`, `write` | library and device |
| logging, `common/logging.cpp` | files | `log_info`, `log_error_and_exit` | everything |
| serial device, `serial_device.cpp`, `serial_impl.cpp` | a ring of 256 bytes, a partial packet; two threads | `device_find`, `serial_read_process`, as the functional device | a port |
| command processor RTL, `rtl/command_processor.v` | 28-state machine | one clock edge | `UARTPacket` (wires) |
| packet UART RTL, `rtl/uart_packet.v` | two state machines | one clock edge | `UARTRx`, `UARTTx`, `CommandProcessor` (wires) |
| byte UART RTL, `device/rtl/uart_rx.v`, `uart_tx.v` | a state machine and counters each | one clock edge | a wire to the host |
| tops, `rtl/tangnano20k_serial.v`, `rtl/tt_ihp26b.v` | none: they wire the three RTL blocks to pins | reset, one clock edge | pins |
| RTL test benches, `rtl_testbench/` | a cocotb coroutine per test, which sets and asserts pins after fixed times | 21 tests in six files | an RTL block or a top, alone in a simulator |
| scripts, `scripts/` | files and directories (`build/`, `packages/`, `verify_runs/`...), the working directory | `build.py`, `verify.py`, `execute.py`, `fpga_load.py`, `rtl_testbench_run.py`, `tt_ihp_export.py`, over `utils.py` | compilers, simulators, the applications, other scripts in other shells |
| configurations, `hw_configs/` | | | scripts, build |
| verification applications, `verification/` | | sequences of library calls, printed results | the library |

How a call travels. `mAdd(a, b, r)` records three packets, one per operand.
`mSync` sends them one by one. Each goes through the mailbox `to_device`, the
thread of `execute_rx`, the mailbox `to_cp` and into the processor. For the
first two the processor sends a read request back (`from_cp`, `execute_tx`,
`driver_payload`, the device's receive thread), which is answered from the
memory by a packet that goes down like a command. For the third it computes and
sends a write request in two packets, address and value, the second of which is
answered. Then it sends a response with the command's id up the same way; the
device queues it (`received_payloads`), the library's receive thread moves it to
`command_status_readback`, and `cmdSync`, which spins on that list, finds it. In
a debug build the processor also sends a statistics packet after every memory
operation and after every command, which nobody answers.

What is hard. Six threads (application, library's receive thread, device's
receive thread, two of the interface, one of the processor) share mailboxes of
one packet that are overwritten without a check, lists, the memory, and a
toggle that pairs addresses with values; nothing but the order of the protocol
keeps them apart. Packets are known by four-bit ids that repeat. `cmdSync` has
no timeout. In the RTL two state machines meet in a four-phase handshake, and
the UART has no framing. The test benches never wait for the design: they count
time, and a bit of theirs is half a clock shorter than one of the design's. The
scripts work on relative paths in a working directory they keep changing, on
files that an earlier script, broken off anywhere, has left, and may run in
several shells at once.

What makes each component correct:

- library: calls are performed in order, completely, before `mSync` returns;
  responses are matched with the packet that is waited for; ids stay below 13;
  every call returns;
- device: each memory request is served once, with the right address; each
  statistics packet finds the packet it is about;
- mailboxes: nothing is overwritten;
- processor: operands, operation and result are those of the command it
  decoded; after a response it is at rest;
- memory: only the library's constructor and `setValue` and the processor's
  writes change it;
- RTL: the same, and packets stay stable while they are sent, each is sent once;
- test benches: every assertion holds, and is about the bit or the packet it was
  written for;
- scripts: what ends well has built, run or compared what it says; no run
  disturbs another; sources are never touched.

The list of hazards, line by line, is in `PROJECT.json`.

## 2. The modules

| Module | Models | Notes |
|---|---|---|
| `PreinceptionDefs` | `defs.h` | packets as records, words of `WordBits` bits, build flags |
| `PreinceptionAlu` | the arithmetic of `hw_cp.cpp` and `command_processor.v` | pure operators |
| `HwModule` | `hw_module.h` | `messages[mailbox]` is a packet or `NoMsg` |
| `HwCp` | `hw_cp.cpp` | one action per branch of `execute` |
| `HwInterface` | `hw_interface.cpp` | take and push are separate steps |
| `HostResidentMemory` | the device memory | one word per integer |
| `FunctionalImpl` | `functional_impl.cpp` | receive thread, and `send_device_payload` in two steps |
| `MatrixDriver` | `matrix.cpp` | application thread (`mainPc`) and receive thread |
| `MatrixAccelerator` | nothing: what the library promises | abstract specification |
| `FunctionalSystem` | all of these in one process | `Next`, fairness, properties, refinement mapping |
| `LinkInvariant` | | the inductive invariants of the link: `Baton`, who has something to send, `Errand`, what it is, and `Accounted`, whose statistics are due |
| `AluEquivalence` | | the arithmetic over all operands |
| `MCFunctionalSystem` | | instances for TLC |
| `LinkProofs`, `ErrandProofs` | | theorems about `FunctionalSystem` |
| `AluProofs`, `AluEquivalenceProofs` | | theorems about the arithmetic |
| `UARTTx`, `UARTRx` | `uart_tx.v`, `uart_rx.v` | one action per state, bit by bit |
| `ByteTransmitter`, `ByteReceiver` | nothing: what the byte layer promises | contracts, abstract specifications |
| `UartLink`, `MCUartLink` | a transmitter and a receiver back to back, each on its clock | checks the contracts |
| `UartLinkProofs` | | theorems about `UartLink`, from its inductive invariant `InStep` |
| `PacketBytes` | the layout of `DevicePayload` in six bytes | |
| `UARTPacket` | `uart_packet.v` | one action per state of each half |
| `CommandProcessor` | `command_processor.v` | one action per state |
| `Tangnano20kUart` | `tangnano20k_serial.v` | all blocks on one clock, the byte layer by its contracts |
| `SerialPort` | the operating system's two queues | external |
| `SerialDevice` | `serial_device.cpp` | the ring and its two threads |
| `SerialImpl` | `serial_impl.cpp` | framing, memory requests, statistics |
| `SerialSystem`, `MCSerialSystem` | the library, `SerialImpl` and the board | properties, refinement mapping |
| `SerialInvariant` | | the inductive invariants of `SerialSystem`: `Turns`, who has something to send, `Errand`, what it is, and `Remembering`, whose statistics are due |
| `SerialLinkProofs`, `SerialErrandProofs` | | theorems about `SerialSystem` |
| `BenchClock` | a coroutine of cocotb, its timers and the clock | external; time in ticks |
| `BenchDesign` | the designs under test, `tangnano20k_serial.v` and `tt_ihp26b.v` among them | the modules of the RTL with their real delays and resets |
| `BenchTests` | the six files of `rtl_testbench/` | every test as a sequence of statements |
| `RtlTestBenches` | a test and its design | one action per kind of statement, one per clock; properties |
| `ExecutionDirs`, `MCExecutionDirs` | `make_numbered_execution_dir` | one action per system call, in several shells; a theorem |
| `ScriptShell` | `utils.py`, the calls of `os`, `shutil`, `subprocess` | one action per kind of statement, over a tree of files |
| `ScriptPrograms` | the scripts and the configurations | every script as a sequence of statements |
| `PresmScripts`, `MCPresmScripts` | a user who runs them | properties |

The two systems stand side by side. `FunctionalSystem` composes `MatrixDriver`,
`FunctionalImpl`, `HwInterface` and `HwCp`; `SerialSystem` composes the same
library with `SerialImpl`, `SerialDevice` and `Tangnano20kUart`. Both are shown
to implement the same `MatrixAccelerator`: a program cannot tell them apart but
by `PreinceptionAlu`'s difference for powers of at least the width, which the
library lets through and of which `alu` states where it shows.

`BenchDesign` composes the RTL modules a third time, now with `UARTTx` and
`UARTRx` themselves in place of their contracts, and with the tests of the
repository in place of a host. `PresmScripts` stands alone: what the built
program does is not part of it.

State and code correspond by name: a variable has the name of the field it
models, `mainPc` is where the application's thread is (the list is at the head of
`MatrixDriver`), `rx_msg`, `tx_msg`, `impl_msg`, `impl_reply` and `scratch` are
the local variables of the five loops that hold a packet between two critical
sections. `calls` and `executed` are history variables.

### Abstractions

- A step of a thread is one critical section, or one access to shared state,
  with the thread-local work that follows it. `ImplRead` and `ImplWriteVal`
  touch the memory and build the reply; `ImplRespond` pushes it.
- Words have `WordBits` bits, in four bytes of `WordBits \div 4` bits, so the
  handshake's body keeps its layout. Header nibbles are numbers; the packing of
  two of them in a byte is not modelled.
- Ticks: a hardware thread that misses a tick only runs later. A branch that
  finds nothing to do is a stuttering step.
- `cp_cycle_count` and the text of logs and statistics are left out.
- The two seconds of the handshake are a nondeterministic timeout that may come
  at any time: a loaded machine can take that long.
- `op1` and `op2` of the processor are not initialised: they start with any
  member of `Garbage`. Memory that was never written returns any member of
  `Unwritten`; shift counts of at least the width are reduced modulo the width,
  as the shift instructions of the build do.
- Without `LOG_ENABLED`, `log_error_and_exit` does nothing, and the model goes
  on where the code does.
- `delete presm_device` ends the model.

And on the serial side:

- A clock edge is one step of the board. The command processor and both halves
  of the packet layer step on every edge, from the values before it. The byte
  layer underneath steps by its contracts: a byte takes any number of clocks,
  which covers every baud rate and every delay of the host, and also timings a
  real line never shows. `UartLink` checks that the RTL keeps those contracts.
- A byte is on the host's side when its last bit is sent, and on the board's
  when it is reported. The line loses nothing: noise, framing errors and
  failing ports are left out.
- `MaxStop` is the number of clocks the contract allows between a byte's
  delivery and its acknowledgement: `DELAY_WAIT` in `UartLink`, 1 in
  `SerialSystem`, where only whether any time passes matters. `MinHigh` clocks
  of `rx_data_en` between two bytes are what `UARTPacket` needs to see a packet
  end; `UartLink` checks that the receiver always gives that many.
- The ring's 256 places are `RingSize`, its 32-bit counters count modulo
  `CounterSize`. The two counters are plain integers shared by two threads; the
  build asks for no optimisation, so a loop reads them from memory each time
  and stores stay in order, which is what the model assumes.
- `SerialSystem` keeps of the library what the device sees of it: where the
  application's thread is (`host`), the recorded packets, the ids, and the
  responses not yet read, as a set (`unread`): `cmdSync` marks every response it
  finds as read, so the order of its list makes no difference. `MatrixDriver` has
  all of it.
- `device_find` finds one port to open. A timeout ends the process, as it does
  with `LOG_ENABLED`; what follows without it is shown by `no_device`.
- Reset happens once, before the model starts. (`RtlTestBenches` resets whenever a
  test does.)

Of the test benches:

- `script` is what the coroutine has left to do. Statements take no time, and a
  timer that ends at the very tick of a rising edge may be served before the
  edge or after it; in `command_processor.py`, where every timer does, the
  simulator does the same each time, which `test_first` chooses.
- Six ticks a clock: `bit_hold` is 2812.5 clocks at 27 MHz and 5208 1/3 at
  50 MHz, both whole numbers of ticks. The tests round to hundredths of
  nanoseconds, 0.005 ns in 100 microseconds, which is left out.
- `Skip` takes as many clocks in one step as change nothing but the counters of
  the UART. It stops before any edge at which another register moves, at which a
  timer ends or at which the history variable `seen` would move.
- Inputs that a test has not driven yet are X in the simulator; they start with
  the inactive value that every branch reading them falls back to.
- The tests of the tops begin with a reset, so each is started from the initial
  state. Those of the unit benches run one after the other, or the second alone.

Of the scripts:

- A file's content is what it was made from: the configuration for what is
  built, the original for a copy. A compiler, a simulator or a synthesis makes
  its outputs if its inputs are there, or fails with some of them made.
- Python's exceptions end a script or reach the bare `except` of its `try` block,
  which prints a message and goes on; Control-C, which may come before any
  statement, is one of them. `rtl_testbench_run.py` then runs `make` in a directory
  that lacks files, and `tt_ihp_export.py` ends with status 0. `complained` holds
  the directories of the runs for which an error has been printed.
- A copy may raise an exception after any part of its files, one of them cut short
  (`PARTIAL`), and a deletion after any part of its own.
- The return code of `os.system` is dropped, that of `_execute` is not.
- An application prints one of `Outputs`, whatever it computes.
- Linux only; `platform.system()` is constant.
- `edited.json` is a configuration as a user may leave it, with an application
  and a bench switched off; the others are those of `hw_configs/`.

## 3. Runs

| Run | Instance | Shows |
|---|---|---|
| `functional_debug` | debug build, 2 integers, 2 different calls out of three with values 3 and -6, or 5 calls of one kind: 15 packets and 20 requests, so both ids wrap; weak fairness | `TypeOK`, `Baton`, `QuietOutsideSync`, `ResponseStatsAttribution`, `UnreadIsAwaited`, `IdsBelow13`, `NoOverwrite`, refinement of `MatrixAccelerator`, `EveryCallReturns` |
| `functional_release` | the same in a release build, operands with rubbish | refinement |
| `alu` | 5-bit words, all operands, powers up to 15 | `AluIsArithmetic`, `RtlAgrees` |
| `stats_race` | debug build, 1 call | refutes `RequestStatsAttribution` |
| `stale_power` | release build, 1 call | refutes `PowerNotNegative` |
| `no_device` | release build without logs | refutes `InitFindsDevice` |
| `uart_link` | 13 clocks a bit, 2 clocks of drift per byte, 4 bytes | `NoByteLost`, `ReportedIsSent`, `EveryByteReported`, both byte contracts |
| `serial_release` | release build, 2 integers, 2 calls out of `ADD` and `DIVP2`, ring of 12 | `RingNotOverrun`, `FramesAligned`, `UnreadIsAwaited`, `TxPacketStable`, refinement, `EveryCallReturns` |
| `serial_debug` | debug build, 2 integers, 1 call of `MULP2`, ring of 18 | `RingNotOverrun`, `ResponseStatsAttribution`, refinement |
| `benches` | all tests of the six benches, release build, 27 and 50 MHz, 9600 baud, every clock | `AssertionsHold`, `SamplesItsBit`, `TakesItsBit`, `NothingUnasserted` |
| `scripts` | three users, up to 3 scripts each out of 2 to 4 configurations and 3 kinds of clones, one interruption or failing copy, failing programs | `BuildOkMeansBuilt`, `RunsWhatWasBuilt`, `VerifyOkMeansVerified`, `ProgramsFindTheirFiles`, `ExportsTheTop`, `SourcesUntouched`, `FinishedRunsKept` |
| `dirs` | 3 shells, 6 runs, directories deleted in between, names of 2 binary digits | `NoSharedDirectory`, `FailsOnlyWhenOverlapped`, `NumbersGrow` |

Bounds: `Cells` integers, `MaxCalls` calls, values `Vals`, calls `Calls`,
rubbish `Garbage` and `Unwritten`. Two integers are enough for a call whose
operands, or whose result and operand, are the same cell, and for a result that
the next call reads; two different calls with different results make the
order visible in the memory. The constant variable `alike` of
`MCFunctionalSystem` chooses between the two applications of `functional_debug`,
few calls of different kinds or a row of one. Packet ids count modulo 10, three to a
call, and request ids modulo 16, four to a call: with five calls both repeat. Words of eight bits hold the addresses, a negative number, an overflow
and a shift by more than the width.

On the serial side:

- `uart_link`: the real numbers are 2813 clocks a bit, and 27 MHz / 9600 baud =
  2812.5 make one end gain half an edge on the other per bit, five per byte, or
  0.02%. The run lets either end gain two edges in a byte of 130 clocks, 1.5%,
  which is more than two cheap oscillators differ by. That is as much as
  `DriftAssumption` allows at 13 clocks a bit: with one edge more the receiver can
  see a bit's neighbour, or report too late. Four bytes with long runs and with an edge at every bit, in any
  order, back to back or with pauses.
- Rings: 12 and 18 are the smallest sizes that hold; with one place less,
  `RingNotOverrun` fails. They say how much the board sends without being asked:
  address and value of a write, 12 bytes, and a debug build a statistics packet
  before them, 18. Neither depends on the number of calls, so 256 is ample.
- Two calls of two kinds over two cells in a release build, each of which may
  use the result of the other. Debug builds have the same processor with more
  packets, and one call, of the third kind, shows each of them in every order
  with the host's next request.

Of the rest:

- `benches` has no bound but the tests themselves, which are finite; its delays
  are those of the RTL. It is a release build: in the debug build that
  `serial_fpga_tangnano20k.json` asks for, the tests of the FPGA's top fail (see
  the observations).
- `scripts`: three users share no script, so their rows are independent. Two
  scripts in a row show what one leaves to the next, and three a build, another
  build that breaks off, and a run. Outputs agree, are too short, too long,
  different or missing. `mishaps` bounds the exceptions that nothing in the tree of
  files explains (Control-C, copies and deletions that fail halfway) to one in all
  the scripts of a user; programs fail as often as they like. One is what the
  properties compare: an unfinished step, and what the rest of its script or a
  later one makes of it. A clone has only the RTL and the tests that the benches of
  the user's configurations name.
- `alu`: with five bits powers go to 15, three times the width.
- `dirs`: with six runs and names of two binary digits the numbers outgrow the
  names, which in the code takes 100000 runs. Shells are symmetric.

Fairness. `FairSpec` assumes weak fairness of each thread: the operating system
schedules every thread and the clock never stops. Nothing is assumed of the
application, which may stop calling the library, nor of the timeout.
`SerialSystem` assumes the same of the host's threads, and of the board that its
clock never stops, which with the byte contracts also means that no byte takes
for ever. `UartLink` assumes that both clocks keep ticking.
`serial_debug` claims no liveness: in a debug build `CP_STOP_MODIFIED` waits for
`rx_packet_ready` to fall, and if the next request arrives as a whole while the
statistics packet is still being sent, the fall has come and gone. In the code
that takes a host that answers within about one bit (104 microseconds at 9600
baud), a matter of time the contracts leave open.
`MCSpec` of `functional_debug` keeps this fairness and restricts only what the
application does. The benches and the scripts claim no liveness: a test awaits
nothing but timers, and a user may stop a script, or never start one.

## 4. Findings

1. **Statistics race** (`functional_impl.cpp:111-118, 176`): a request is
   pushed to the hardware before it is remembered, so the command's statistics
   can find the list empty; an empty `optional` is dereferenced and the lines
   after it are about the wrong packets.
2. **Stale power** (`matrix.cpp:118, 154`): the check "Power cannot be
   negative" is made when a call is recorded, not when it is performed.
3. **No device, no error** (`functional_impl.cpp:87`, `logging.cpp:32-39`): with
   logs disabled an unanswered handshake is ignored.

The runs `stats_race`, `stale_power` and `no_device` exhibit these. Other places
where the code and what is said of it part were met while modelling. No run is
spent on them, and the models follow the code:

- `hw_cp.cpp:268`: `DIVP2` is an arithmetic shift, which rounds a negative
  quotient down; `verification/matrix/divide_power_2/divide_power_2.cpp:41`
  compares with C's `/`, which rounds towards zero. `AluIsArithmetic` states the
  former.
- `hw_cp.cpp:257, 268`: the shift instructions of the build take the power modulo the
  width (in C++ it is undefined), so `a * 2^32` is `a`, and the RTL (`command_processor.v:517, 527`) shifts every bit
  out. The library refuses only negative powers (`matrix.cpp:118, 154`), so both are
  reached. `device/preinception/README.md:6-7` promises `a * 2^b` and `a / 2^b`, and
  `README.md:37` a driver that does not depend on the hardware. `RtlAgrees` states on
  which operands the two part.
- `rtl_testbench/preinception/tt_ihp26b.py:20-23`: driving the line writes all of
  `ui_in` and so clears `ui_in[0]`. From its second bit on `uart_select_test`,
  which has selected the second pair of pins at line 114, talks over the first
  again, and passes.
- `hw_configs/preinception/serial_fpga_tangnano20k.json:3` asks for a debug build,
  in which `tangnano20k_serial.py:106` reads a statistics packet in place of the
  response it asserts.
- `scripts/utils.py:22-30`: of two scripts that overlap one may end with
  `FileExistsError`; and the names are sorted as strings, so that after 100000
  every further run does. `README.md:201` promises a directory for each run.
- `scripts/fpga_load.py:15-21` takes directories for built tools, and an
  interrupted build leaves them; `make` then starts without its programs.
- `scripts/rtl_testbench_run.py:18, 60-70`: after "Cannot include RTL testbenches"
  the bench is run all the same, also when it was Control-C that stopped the
  copies. `ProgramsFindTheirFiles` therefore speaks of runs without a message.
- `scripts/tiny_tapeout/tt_ihp_export.py:36`: an export that is stopped halfway
  leaves a mixture and ends with status 0. `ExportsTheTop` speaks of exports
  without a message.
- `scripts/build.py:54-55`: a clone without submodules has an empty directory for
  each, so the message about them never appears in one.
- `README.md:73` lists the mandatory keys of a configuration without `debug`,
  `device.device_clk_hz` and the baud rate, which `build.py:12-46` requires.
- `hw_configs/default.json:20, 28` enables two benches, and lacks the key `debug`
  without which `rtl_testbench_run.py` ends.

## 5. Proofs

| Theorem | Module | Says |
|---|---|---|
| `RtlAgreesAlways` | `AluEquivalenceProofs` | `Spec => []RtlAgrees` |
| `AluIsArithmeticAlways` | `AluEquivalenceProofs` | `Spec => []AluIsArithmetic` |
| `TypeCorrect` | `LinkProofs` | `Spec => []TypeOK` |
| `IdsStayBelow13` | `LinkProofs` | `Spec => []IdsBelow13` |
| `OneBaton` | `LinkProofs` | with `LOG_ENABLED`, `Spec => []Baton` |
| `NothingOverwritten` | `LinkProofs` | with `LOG_ENABLED`, `Spec => NoOverwrite` |
| `QuietBetweenCalls` | `LinkProofs` | with `LOG_ENABLED`, `Spec => []QuietOutsideSync` |
| `RightErrand` | `ErrandProofs` | with `LOG_ENABLED`, `Spec => []Errand` |
| `NoStaleAnswer` | `ErrandProofs` | with `LOG_ENABLED`, `Spec => []UnreadIsAwaited` |
| `SystemImplementsAccelerator` | `ErrandProofs` | with `LOG_ENABLED`, `Spec => ImplementsAccelerator` |
| `ResponseStatsFindTheirs` | `ErrandProofs` | with `LOG_ENABLED`, `Spec => []ResponseStatsAttribution` |
| `LinkTypeCorrect` | `UartLinkProofs` | `Spec => []TypeOK`, of `UartLink` |
| `StaysInStep` | `UartLinkProofs` | `Spec => []InStep` |
| `ByteNotLost` | `UartLinkProofs` | `Spec => []NoByteLost` |
| `ReportIsSent` | `UartLinkProofs` | `Spec => ReportedIsSent` |
| `ReceiverKeepsContract` | `UartLinkProofs` | `Spec => ImplementsByteReceiver` |
| `TransmitterKeepsContract` | `UartLinkProofs` | `Spec => ImplementsByteTransmitter` |
| `TurnsInvariant` | `SerialLinkProofs` | `Spec => [](TypeOK /\ Turns)`, of `SerialSystem` |
| `SerialTypeCorrect` | `SerialLinkProofs` | `Spec => []TypeOK` |
| `NoOverrun` | `SerialLinkProofs` | `Spec => []RingNotOverrun` |
| `PacketsStayFramed` | `SerialLinkProofs` | `Spec => []FramesAligned` |
| `PacketHeld` | `SerialLinkProofs` | `Spec => TxPacketStable` |
| `SerialErrand` | `SerialErrandProofs` | `Spec => [](TypeOK /\ Turns /\ Errand)` |
| `SerialNoStaleAnswer` | `SerialErrandProofs` | `Spec => []UnreadIsAwaited` |
| `SerialImplementsAccelerator` | `SerialErrandProofs` | `Spec => ImplementsAccelerator` |
| `SerialStatsFindTheirs` | `SerialErrandProofs` | `Spec => []ResponseStatsAttribution` |
| `RunsApart` | `ExecutionDirs` | `Spec => []NoSharedDirectory` |

Those of the functional system hold for every word width, memory, set of values,
set and number of calls, build flags as stated; those of the UART for every
length of a bit, every set of bytes and every two clocks as below; those of the
serial system for every word width, memory, application and number of calls, in
release and in debug builds, for every ring that is large enough and every timing
of the byte layer that its contracts allow. Together they state every safety
property and the refinements of the runs `functional_debug`, `functional_release`,
`alu`, `uart_link`, `serial_release` and `serial_debug`, and one of `dirs`.

Assumptions: `WordAssumption` (the
width is positive, powers of two up to it are numbers, the handshake's body is a
word), `HalfAssumption` (two halves of the words are all of them: powers are a
recursive definition, of which the prover knows nothing else), `ExponentAssumption`
(powers of a sum are products, as far as `AluEquivalence` needs it),
`FlagAssumption` (flags are Boolean), `NoMsgAssumption` (`NoMsg`
is no packet), `CpAssumption` (rubbish is made of words), `MemoryAssumption`
(addresses and unwritten memory are words) and `ApplicationAssumption` (the
application stores words and passes addresses of integers); of the UART
`LinkAssumption` (the lengths are numbers, the bytes are bytes) and
`DriftAssumption`, below; of the serial system `ByteAssumption` (a quarter of a word
is a byte, and the four places a body is cut at are multiples of one another: the
law of exponents the prover does not know), `RingAssumption` (the counters count
modulo a multiple of the ring's size, greater than it), `UartAssumption` (the
contracts' times are numbers) and `BufferAssumption` (the ring has 12 places, 18 in
a debug build; the program's has 256). TLC evaluates each of them in every run of
its modules.

`TypeCorrect`. `TypeOK` is not inductive: `SyncStat` and `CmdSync` take the head
of `recorded_commands`, which is a packet only because nobody empties the list
while `mSync` is between a send and its acknowledgement. `TypeInv` adds that
(`Awaiting`). One lemma per component shows that its steps keep its types.
`IdsStayBelow13` follows from `TypeInv`, which bounds `global_command_id`.

`NothingOverwritten`. No code checks a mailbox before it pushes, except in three
states of the processor, so the proof is about the whole protocol. Its invariant,
`Baton` (module `LinkInvariant`), says that the right to start something is at
one place at a time: with the application's thread (`MainHas`), with the packet
on its way down (`DownHas`), with the processor (`CpHas`), with the packet on its
way up (`UpHas`), with the reply the host is about to push (`ReplyHas`), or with
the acknowledgement on its way to `cmdSync` (`AckHas`). Statistics packets, and
the address half of a memory write, travel up beside it. All that is on its way
up is one sequence, `Up`: the processor appends, the host's thread takes the
head, and what happens in between leaves it alone. `CpInv` says what the
processor may have left in `from_cp` in each of its states. The invariant is
inductive together with `TypeInv`. `LinkProofs` first proves what the steps do
to `Up`, then has one lemma per thread (`AppBaton`, `LibraryBaton`,
`TimeoutBaton`, `RecvBaton`, `ImplBaton`, `InterfaceBaton`, `CpBaton`) and puts
them together in `BatonStep`. `NoOverwrite` and `QuietOutsideSync` are then read
off: whoever pushes has the baton or has seen its last packet taken.

`RightErrand`. `Baton` counts packets and does not look into them, so it cannot
say that an answer is the right one: ids repeat after ten packets and request
ids after sixteen, and the two halves of a write differ only in their order.
`Errand` (module `LinkInvariant`) says what each party carries. `Recorded` and
`Stages` tie the packets left in `recorded_commands` to the calls of the history
variable and say which operand is next; `Operands` and `AtWork` give the
processor's registers in each of its states; `DownRight`, `ReplyRight`, `UpRight`
and `AckRight` the packets in mailboxes, local variables and lists; `WriteRight`
the pairing of addresses and values. `ErrandProofs` has one lemma per thread and
part, as `LinkProofs` has, and uses `Baton` throughout: that nothing else is under
way is why what a thread finds is what `Errand` says.

`NoStaleAnswer` is a part of `AckRight`. `SystemImplementsAccelerator` maps every
step: the only one that performs a call is `ImplWriteVal` of the third packet of
a call, whose address and value `Errand` knows; the only ones that record one are
the library's; each other step leaves `calls`, `executed` and the memory alone.

`ResponseStatsFindTheirs`. The host remembers each response it sends and forgets it
when its statistics come; nothing but counting ties them. `Accounted` says when
the list has one entry: from the moment the host answers until the statistics
are in, which is before the acknowledgement of the same packet. `UpKinds` adds
that nothing else goes up.

`RtlAgreesAlways` and `AluIsArithmeticAlways`. The functional model reduces a shift
count modulo the width and the RTL does not, and the library lets every power
through that is not negative. Below the width both wrap the same integer. That the
word is the exact sum, product or quotient modulo the number of words is about
remainders: a word and the integer it stands for differ by a multiple of
`2^WordBits`, which a product by a power of two keeps. From the width on the exact
product is a multiple of `2^WordBits` (`LegalCount`) and the exact quotient is the
sign (`QuotientSign`), which is what the RTL leaves; HwCp's product is that too when
the word has enough trailing zeros (`ProductSpent`, by `CommonFactor`), and its
quotient when the dividend is small (`SignQuotient`): `SpentEitherWay` is both.
`AluProofs` holds the lemmas that the links' type invariants need as well.

`StaysInStep`. Neither end of the UART sees the other's clock. `Position` counts the
transmitter's clocks since it took a byte, `Heard` the receiver's since it saw
the start bit, and `Elapsed` is `Position` less the drift. `InStep` (module
`UartLink`) says how far apart they can be: after the start bit is seen,
`Elapsed` is within `MaxDrift` of `Heard + 4`, so each flip-flop holds a level
the line showed within `2 * MaxDrift` clocks of a known position (`Seen`). When
all of them lie in one bit, the sample is that bit; `DriftAssumption` is what
makes them do so, and what leaves enough of the stop bit for the report and for
`MinHigh`. It asks that one clock gains at most a quarter of a bit, less a clock,
on the other in ten bits: at 2813 clocks a bit, some 700, where the two ends of the
board gain five. Once the transmitter has sent its stop bit it may wait, so from
there on `Position` is a lower bound and only half of the bound on `Elapsed` is
kept. The invariant's other parts are the handshake with the layer above
(`TxHandshake`), what the line shows (`LineShown`) and which bits are in
(`Sampled`). The proof has a lemma per state of each end, which says how its
count goes on; then `KeepsOn`, which puts the three ways two clocks can tick into
one form; then a lemma for each stage of a byte (`QuietStep`, `TakenStep`,
`AwaitedStep`, `ReceivingGoesOn`, `ReportStep`).

`ByteNotLost` and `ReportIsSent` are read off `InStep`. `ReceiverKeepsContract` needs its
bounds on `high` as well: when a start bit is seen, the output has been up for
`MinHigh` clocks. `TransmitterKeepsContract` needs `TxHandshake` alone.

`TurnsInvariant`. The serial device has no mailboxes: between the host and the board
there are bytes, in the port, in the ring, in `scratch`, in the registers of the
packet layer, and nothing but counting says where a packet begins. `Turns`
(module `SerialInvariant`) therefore starts with what the bytes are. `UpBytes` are
all that are on their way up, oldest first, and `Up` the packets they make;
`Framed` says that what is left over is exactly the part of `tx_packet` that is
sent. Then one party at a time has something to send, as in `Baton`: the host
(`HostHas`), a command on its way down (`DownHas`), the processor (`CpHas`), its
memory request on its way up (`MemUpHas`), the answer on its way down
(`MemDownHas`), the response on its way up (`AckUpHas`), or the driver (`AckHas`).
Each says where the processor is, what the packet layer has of a packet
(`DownShape`), and which kinds of packets `Up` holds in which order. `TxHandshake` and
`CpHandshakes` are the four-phase handshakes on both sides of the packet layer, and
`NotListening` and `Finding` say what is different before `mInit` has found the
device. `SerialLinkProofs` first proves what the six bytes of a packet are, and what
a ring of counters modulo a multiple of its size is; then what every clock does
to the transmitter, the receiver and the processor, one lemma per group of its
states; then a lemma per party and step (`BoardTurns` for the clock,
`QuietTurns` and `StatsTaken` to `AddrTakenLate` for the host).

The theorems are read off: `FramesAligned` from `Framed`, `TxPacketStable` from the
handshakes, and `RingNotOverrun` from the most that `Up` can hold. A release build
has at most the two halves of a write up, 12 bytes, and a debug build a packet of
statistics more; that is what `BufferAssumption` asks for, and with a ring one place
smaller TLC finds the overrun.

`SerialErrand`. `Errand` of `SerialInvariant` says of the packets what `Errand` of
`LinkInvariant` says, in terms of the RTL's registers: `Recorded`, `Stages` and
`Operands` tie the calls to the packets and registers, `AtWork` gives the registers
in each place of the processor, `SendingRight`, `UpRight`, `WriteRight`, `DownRight`
and `AckRight` the packets. Two things are harder than in the functional model.
The processor reads a body from the packet layer's register long after it has taken
the packet (`Reading`), so that register must not change, which `Turns` gives. And
the host may take the first half of a write before or after the second is up, so
`WriteRight` has a case for each. `SerialNoStaleAnswer` and
`SerialImplementsAccelerator` follow as for the functional system: the only step that
performs a call is the one that takes a write's second half (`ResultStored`), and
everything else leaves `calls`, `executed` and the memory alone.

`SerialStatsFindTheirs`. The board's statistics of a memory operation are due from
the moment the host answers (`Awaited`), and then on their way before the
command's response (`OnTheirWay`), so they are in before there is another operation;
otherwise the list of responses is empty (`Forgotten`). That is `Remembering`. What
the statistics are about is not in their packet's id but in where the processor
returns to after them (`StatsPrepared`).

The inductive invariants are in no configuration, since what the runs check
follows from them. `MCFunctionalSystem`, `MCUartLink` and `MCSerialSystem` extend
their modules: named under `INVARIANTS`, `Errand` and `Accounted` hold in
`functional_release` and `functional_debug`, `InStep` in `uart_link`, and `Turns`,
`Errand` and `Remembering` in `serial_release` and `serial_debug`.

`RunsApart`. That two scripts that run have different directories is inductive
once it also says that the directory of a running script is still there: then
`mkdir` cannot make it again. It holds for any number of shells and runs and
any base and width, although a script decides on a number that may be stale by
the time it calls `mkdir`, and although `Highest` is wrong for names of
different lengths; the proof needs neither to be right. Assumption:
`ExecutionDirsAssumption`.

`LOG_ENABLED` is needed, not a convenience: without it the application may go on
after a timeout with the handshake still under way, and then two packets are on
their way down at once.

## 6. Only model-checked

- Liveness: `EveryCallReturns`, `EveryByteReported`. The prover has no rule for
  fairness.
- Builds without `LOG_ENABLED`: the properties that hold there are those whose
  theorems have no condition. The runs with properties have logs enabled, and
  `no_device` shows what happens otherwise.
- The test benches: their tests are finite, and the runs take every step of them.
- Of the scripts, everything but `RunsApart`. `NumbersGrow` and
  `FailsOnlyWhenOverlapped` rest on the order of names, a choice of the greatest
  of a finite set.

`UartLink` and `SerialSystem` also define a `TypeOK`. No run spends time on it, as
their other invariants fail on values of a wrong type; `LinkTypeCorrect` and
`SerialTypeCorrect` prove them.

## 7. Not modelled

- A second `mInit`, and what detached threads do to a device after `mFree` has
  deleted it. The first needs two copies of every thread, the second is
  undefined behaviour on freed memory.
- Threads started by a base class whose derived part is not constructed: what
  they do is undefined.
- A port that fails, a host that restarts, a search over several ports, a packet
  with an unknown command. Nothing in the code resynchronises after one of them:
  a byte too many misframes every later packet, and only the board's reset
  brings it back.
- A host so slow, or so fast, that a debug build of the board misses the fall of
  `rx_packet_ready`: it takes a model with a clock for the line's rate and the
  host's latency, which the byte contracts abstract from.
- `HwClock`'s ticks and missed ticks: they only delay a thread.
- The text of logs and statistics files, the synthesis's constraints and
  Makefile, and the LEDs, which the RTL declares and never drives.
- The size of the device memory, which nothing in the code checks.
- `scripts/hw/preinception/uart_test.py`: it opens a port and prints the bytes it
  reads, and has no state of its own.
- Windows: static libraries, other paths, another loader. Which library the
  loader of Linux takes (`utils.py:123` names the copy without a slash) depends
  on how the executable was linked.

## 8. Order of the work, and what is left

The functional system came first, because it is the whole product in one process
and its protocol is the one all variants share; then its proofs; then the RTL
from the line up, with a contract between each two layers; then the host's side
of the line and the composition; then the benches and the scripts around them.

Of the proofs the arithmetic came first, then the functional system, the byte
layer, and last the serial system, whose `Turns` and `Errand` have those of the
functional system as their pattern.

Left are proofs about the scripts, `BuildOkMeansBuilt` and `RunsWhatWasBuilt` first:
their invariant has to follow a script statement by statement, over trees of files.
A model of the serial line with a clock of its own rate would bring the debug build's
missed fall of `rx_packet_ready` within reach.
