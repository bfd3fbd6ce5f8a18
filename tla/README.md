# Verification of the Arduino Emulator

TLA+ models of `src/ArduinoCore-Linux`, the library that runs Arduino sketches on
Linux, with TLC runs on small instances and TLAPS proofs of the invariants that
matter most. Paths below are relative to `src/ArduinoCore-Linux/`; `A/` stands
for `cores/arduino/`, `F/` for `cores/ftdi/`, `R/` for `cores/rasperry_pi/`.

## 1. The system

A sketch is compiled against this library and runs as an ordinary process:
`setup()` once and `loop()` for ever, in one thread. Its calls of GPIO, SPI,
Wire and Serial go through global wrapper objects to one of several
implementations: a board at the other end of a stream (remote), an FTDI chip on
USB, or the pins of a Raspberry Pi. Network classes are thin layers over POSIX
sockets. Four things make it concurrent: the board and the network on the other
side of every stream, the kernel's descriptor table that all sockets share, the
software-PWM thread of the FTDI GPIO, and state that objects share without
saying so (a PWM channel, an I2C address, a map of GPIO lines, a TLS context).
A signal handler that closes all active sockets is a fifth. Nothing is
persisted, so there is no recovery.

`ArduinoCore-API` (`Stream`, `Print`, `IPAddress`, `String`) is a submodule that
is empty at this commit; what it does is taken from how the code here uses it.
In particular `Stream::readBytes(char*, size_t)` is not virtual and polls the
virtual `read()` until a timeout; `blockingRead()` calls it through a `Stream*`, so
the `readBytes()` of the stream classes here are not reached from there.

### Inventory

| Component | State | Operations | Interacts with | What is hard | What makes it correct |
|---|---|---|---|---|---|
| `RingBufferExt` (A/RingBufferExt.h) | vector, length, read and write position | read, peek, write, read and write of arrays | below EthernetUDP, RemoteSerial, EthernetClient | three redundant counters, wrap-around, zero bytes | a FIFO of bytes; positions agree |
| `cbuf` | ring with one unused slot | read, write, peek, resize, remove, flush | nothing here: a class for sketches | resize while full, pointers at the end, a char that equals the -1 of an empty buffer | a FIFO, nothing lost by resize |
| `MD5Builder` | block buffer, count, state | add (arrays, hex strings, streams), calculate | - | padding at block limits, short reads | the standard's digest |
| `HardwareService`, `RemoteGPIO`, `RemoteI2C`, `RemoteSPI` | the stream | typed sends, flush, typed receives with timeout | a board over TCP or UDP | late, lost and split answers; requests that are not flushed | an answer belongs to its call; a call returns |
| `RemoteSerial` | read and write buffers | begin, read, write, flush, peek | HardwareService, RingBufferExt | calls that flush each other; zero bytes; late answers | bytes in order, once |
| `EthernetUDP` (A/UDP.cpp) | socket, packet being written, packet being read, remote address | begin, stop, beginPacket, write, endPacket, parsePacket, read, flush, multicast | kernel, network | failures in the middle, a full packet, any order of calls | no write through null, no lost socket, bytes once and in order |
| `WiFiUDPStream` | target, `active` | begin, setTarget, write, flush, readBytes, stop | overrides and uses EthernetUDP | virtual stop(), a shared remote address | a flush sends once |
| `SocketImpl`, `EthernetClient` | descriptor; shared SocketImpl, flags, buffers | connect, stop, copy, destroy, read, write, flush, available | kernel's descriptor table, the peer, SignalHandler | ownership of a number the kernel reuses; polls against a deadline | a descriptor is closed once, by its owner; bytes in order, once |
| `EthernetServer` | listening descriptor, status, list of active servers | begin, available, stop, destroy | EthernetClient, SignalHandler | retries, failing listen(), the list | no lost descriptor |
| `NetworkClientSecure` | SSL object, global context and its count | as EthernetClient | WolfSSL | the reference count | the context lives as long as its users |
| `SerialImpl`, `serialib` | file descriptor, one peeked result | open, close, timed reads, flushReceiver | termios, the clock | timeouts, the peeked byte, a char that holds an error code | no byte lost or doubled; a timed call returns |
| `HardwareSetupRemote`, `HardwareSetupFTDI`, `HardwareSetupRPI` | hardware objects, stream, flag "I am the default" | constructors, begin variants, end, destructor, handshake | wrappers, all hardware objects | overlapping lifetimes, endless handshake, one FTDI interface for three objects | globals never dangle; begin() returns; interfaces are released |
| `GPIOWrapper`, `I2CWrapper`, `SPIWrapper`, `Sources` | pointer to an object or a source | set, delegate | setups, sketch | pointer to a setup that is gone | see above |
| `HardwareGPIO_FTDI` | modes, directions, values, PWM table, thread, libftdi context | begin, end, pinMode, digitalWrite/Read, analogWrite, PWM thread | libftdi | two threads, one context, one selected interface | writes survive and reach their channel; end() returns |
| `HardwareI2C_FTDI` | buffers, transaction; the chip's command parser and lines | Wire API | libftdi, the chip | one stream of commands and data, a failing write in the middle | bus released, no success reported for bytes swallowed |
| `HardwareSPI_FTDI` | settings; the chip's command parser and divisor | SPI API | libftdi, slave | two forms of header, chunks, the divisor's range | answers at their place, clock as asked |
| R/ GPIO | static chip and map of line requests; PWM files, frequencies | pinMode, digitalWrite/Read, analogWrite, tone | libgpiod (two versions), sysfs, other programs | failing requests, several objects, order of period and duty | the map agrees with the kernel; a channel does what it was told |
| R/ I2C, SPI | descriptor, address, buffers; descriptor, mode, speed | the same APIs | i2c-dev, spidev | state the kernel keeps across calls and descriptors | bytes and settings reach the wire they were meant for |
| `Servo` | pin, pulse, range | attach, detach, write | sysfs, R/ GPIO | two pins are one channel | the channel plays the pulse last written |
| `SignalHandler` | map of handlers | register, dispatch | lists of active sockets | runs in signal context | cleans each object once |
| `libb64`, `SD`, `SdFat` | coder state; a std::fstream | block, end; open, read, seek | - | - | - |
| Firmata GPIO | - | - | - | does not compile at this commit | - |
| Main, WMath, itoa, Logger, StdioDevice, FileStream, WiFi mock, pin tables | none or constants | I/O, constants | libc | - | - |

### What is hard to test

Listed with file and line under `hazards` in PROJECT.json. The main themes:
answers that arrive after their call has given up; a number or pointer used
after its object is gone; libftdi calls of two threads interleaved around
"select interface"; state of the kernel or of a chip that outlives the call that
set it; a failure in the middle of a function that has already changed state;
bytes with the value 0.

One of them has no property: the signal handler may interrupt the library's
containers at any instruction. Others are covered with exceptions, which their
notes and the section "Exceptions the properties make" name.

## 2. The modules

| Module | Models | Role |
|---|---|---|
| `ByteFifo`, `CharFifo` | what RingBufferExt and cbuf promise | abstract specifications |
| `RingBufferExt` | A/RingBufferExt.h | refines ByteFifo |
| `CBuf` | A/cbuf.* | refines CharFifo |
| `MD5Builder` | A/MD5Builder.* | against the standard's padding |
| `TcpStream` | A/Ethernet.h, A/SocketImpl.cpp: the bytes of an EthernetClient | client, kernel and peer composed |
| `RemoteSerial` | A/RemoteSerial.h | port and its remote side composed |
| `HardwareService` | A/HardwareService.h, RemoteGPIO.h, RemoteI2C.h, RemoteSPI.h, and the streams' read() | calls, network and board composed |
| `HandShake` | HardwareSetupRemote::handShake() with its device and stream | liveness of begin() |
| `Serialib` | A/serialib.*, A/Serial.h | port, device and clock composed |
| `EthernetUDP` | A/UDP.cpp | component |
| `WiFiUdpStream` | A/WiFiUdpStream.h, and its use by HardwareSetupRemote | extends EthernetUDP |
| `EthernetClient` | A/SocketImpl.*, Ethernet.h, EthernetServer.h: descriptors | clients, servers and the descriptor table composed |
| `SecureSocket` | A/NetworkClientSecure.h | sockets around one context |
| `FtdiGpio` | F/HardwareGPIO_FTDI.* and libftdi | two threads and a device |
| `FtdiContexts` | HardwareSetupFTDI.h and begin() and end() of its three objects | composition |
| `FtdiI2C`, `FtdiSpi` | F/HardwareI2C_FTDI.*, F/HardwareSPI_FTDI.* | code and the chip's command parser composed, for SPI with a slave |
| `HardwareSetup` | HardwareSetupRemote.h, HardwareSetupFTDI.h, HardwareSetupRPI.h, GPIOWrapper.h | lifetimes and globals |
| `RpiGpio` | R/HardwareGPIO_RPI.*: digital pins | objects, libgpiod and other programs |
| `RpiPwm`, `Servo` | R/HardwareGPIO_RPI.cpp: PWM and tone; libraries/Servo.h | Servo extends RpiPwm: both write the same files |
| `RpiI2C` | R/HardwareI2C_RPI.* | with the kernel's address |
| `RpiSpi` | R/HardwareSPI_RPI.* | with the device's settings |
| `MCBuffers`, `MCTimed`, `MCNetwork`, `MCFtdi`, `MCRpi` | | values for the passing runs |
| `MCHardwareService`, `MCEthernetClient`, `MCFtdiGpio` | | values for runs that end in a violation |
| `RingBufferExtProofs` | | proofs about RingBufferExt and its refinement |
| `StreamProofs` | | proofs about TcpStream, RemoteSerial, MD5Builder, and CBuf with its refinement |
| `TimedProofs` | | proofs about HardwareService and Serialib |
| `UdpProofs` | | proofs about WiFiUdpStream and EthernetUDP |
| `EthernetClientProofs` | | proofs about EthernetClient |
| `LifetimeProofs` | | proofs about HardwareSetup, FtdiContexts and SecureSocket |
| `FtdiProofs` | | proofs about FtdiGpio, FtdiI2C and FtdiSpi |
| `RpiProofs` | | proofs about RpiGpio, RpiSpi, RpiI2C, RpiPwm and Servo |

What tells several instances of one component apart is a variable that Init
chooses from a constant and no action changes: the link of HardwareService, the
class of endpoint of WiFiUdpStream, the events of EthernetClient, the wiring of
FtdiGpio, the transport of HandShake, the form of FtdiSpi, the API of RpiGpio,
the signedness of char in Serialib.

An operator whose comment begins with "Mutation of" is a wrong variant of the
definition after it. Nothing in the specifications uses it; it stands there to
show that a property is sensitive to that mistake.

### How state and actions correspond to the code

- **RingBufferExt.** The four fields are four variables. `Read`, `Peek`, `Write`
  are the single-byte methods. An array method is a loop over them, so it is a
  state machine (`call`): `CallRead`, then `ReadNext` per iteration, `ReadDone`
  at the end; the same for writes. `read(uint8_t*, int)` leaves its loop at a
  byte that is 0 or less, after removing it. `ByteFifo` has each array call as
  one step, and what one returns is `TextLength`: up to the first zero.
- **CBuf.** `_begin` and `_end` are indexes; `Taken` and `write` copy through the
  wrap in the two pieces the code's memcpy calls have. `CharFifo` is a sequence
  with a size that resize() changes. read() and peek() return a char cast to int,
  which where char is signed can be the -1 that stands for an empty buffer.
- **MD5Builder.** The hash is the sequence of blocks the compression function
  was applied to; the message is the history of what was handed over. Lengths
  are scaled (a block of 4, its last byte the length).
- **TcpStream.** A call of the client that polls is a state machine with a
  deadline; between its polls bytes arrive, the peer ends or resets. `due` is
  what the peer of this connection has to get, `peer` what it got. A failed
  send() loses the bytes it was given (`broken`).
- **RemoteSerial.** The remote port (`port`, `line`) answers each request; an
  answer is in time, or late and then found by the next receive.
- **HardwareService.** A remote method is a record: does it flush, and which
  receives does it make. `RemoteGPIO`, `RemoteI2C`, `RemoteSPI` list every
  method. `Call` is the sends and the flush; over TCP each send is transmitted,
  over UDP only a flush transmits. `ReadByte` is a poll of Stream's readBytes()
  that finds a byte, `ReceiveDone` and `ReceiveTimeout` are the exits of
  blockingRead(). `rx` is what read() gives: over TCP what arrived, over UDP the
  rest of a parsed packet, and nothing HardwareService reaches parses one, so
  answers stay in `back`. The board executes requests in order, may be slow, and
  over UDP requests or answers are lost. A byte of an answer carries whose it is.
- **HandShake.** Bytes are numbers of their position in the announcement; a
  turn of the loop reads up to 18 of them when 16 are there.
- **Serialib.** A timed call is a loop whose step is one read() of the device or
  one look at the clock. `Tick` advances the time of day; once, it may go back.
  A descriptor is closed and opened by other parts of the program too.
- **EthernetUDP.** The packet being written is a sequence of the numbers of the
  bytes; an incoming packet is a sender and a length. `OpenSocket` is the body
  of begin() after its virtual stop(), parameterised by what that stop() did,
  because WiFiUDPStream overrides it. Every call that can fail has both outcomes.
- **WiFiUdpStream.** Adds the target. `active` is false for ever in the code
  (nothing assigns TRUE), so it is no variable and `SStop` changes nothing.
  `SetupNext` restricts the sketch to the order in which HardwareSetupRemote and
  the remote objects call the stream: begin() once and first, setTarget() then or
  never, and flush() in both cases. The module's `Next` is that, or
  `UdpNext` for a plain EthernetUDP in the hands of any sketch.
- **EthernetClient.** `table` is the kernel's descriptor table: who opened each
  descriptor; the kernel gives out the lowest free one. `sock` is
  SocketImpl's number, which close() does not reset. `impl` is the shared_ptr of
  each client, and the destructor of SocketImpl runs with the last handle. `events` says
  what a particular sketch and its surroundings do (copy clients, stop them,
  serve, begin twice, names that do not resolve, a failing listen()).
  `Available` is available_() including its attempt to begin again.
- **SecureSocket.** Constructors and destructors around the static context and
  counter; contexts are numbers, so a session of a freed one is seen.
- **FtdiGpio.** Each thread has a list of steps it has still to do, filled in when a method
  is called; a step is one load, store, libftdi call or lock operation.
  `pin_values |= bit` is a load and a store, as the compiler makes it. libftdi's
  context is the selected interface and what each channel was last told. A
  wiring is the pins in use, those under PWM, and whether libftdi calls fail. Time
  is left out: at a pass of the PWM thread any edge may be due.
- **FtdiContexts.** begin() of the setup is three begins in sequence with the
  failures of each; a context is a number, 0 is nullptr.
- **FtdiI2C.** Every write of a call goes to one parser in the chip. A line
  command is 3 bytes. 0x11 and 0x24 (bytes out, bytes in) take two bytes of length,
  but the code sends them in the form of the bit commands 0x13 and 0x26, with
  one. So `AfterData` is the number of bytes the chip takes for data after an
  address or data byte: 256 times that byte, and 8; `Swallowed` is how commands
  run into it. When the data ends within a command, 0x24 is taken for one, or a
  write fails, the chip is `Astray` and everything is possible, its answers and
  its lines included. `LineSent`, `ByteAcked`, `ByteNacked`, `ReceiveI2CByte` are the
  helpers of the code with their exits, `LineFails` a failing write.
- **FtdiSpi.** The same parser with a slave behind it: `Take` is one byte of a
  command, of a length or divisor, or of data, and only data is answered. The
  clock command goes the same way. The chip takes one or two bytes of length, the
  answers may come after ftdi_read_data() has returned; the base of a byte is a
  constant, so a chunk's limit is reached with few bytes.
- **HardwareSetup.** One wrapper stands for GPIO, SPI and Wire, which are always
  assigned together. Each setup object lives once; how begin() with either flag,
  begin(stream), end(), destruction and sources of several setups follow each other
  is free. A setup that is destroyed may be the wrapper's source.
- **RpiGpio.** `requests` is the static map, `owner` what the kernel says of
  each line of each chip. `Released` and `Requested` are one libgpiod call sequence
  each and differ between the versions as the `#if` branches do.
- **RpiPwm, Servo.** A channel's files are `period`, `duty` and `enabled` with the
  kernel's rules for each write; the order of the writes is the code's. The
  history `last` and `driver` say who commanded what.
- **RpiI2C, RpiSpi.** The kernel's part (the address of a descriptor, the mode
  and bit order of a device) is a variable beside the object's fields. Each byte
  written carries its transmission: the slave it was begun for, whether that
  ioctl was refused, and whether another slave was addressed since.

## 3. What is checked

Five passing runs, each over several modules that have no state in common. A
variable `part` that Init chooses selects the module whose steps are taken; the
others keep one initial state. So a run is the union of the behaviours of its
parts, and each property speaks of the part it belongs to. The root extends
all of its modules, and so do the modules of proofs: a run and a theorem speak
of the very same definitions. Modules that do share state are composed in the
usual way: WiFiUdpStream extends
EthernetUDP, Servo extends RpiPwm, and FtdiContexts has the three objects of a
setup.

| Run | Parts | Shows |
|---|---|---|
| MCBuffers | RingBufferExt, CBuf, MD5Builder, TcpStream, RemoteSerial | What is stored for later comes out in order, once and without loss: `ImplementsFifo` and `ImplementsCharFifo` (refinements), `IInv` of the ring's counters, `DigestOfMessage`, `PeerGetsWritten` and `ReadsInOrder` of a TCP client, `SentInOrder` and `ReadInOrder` of the remote port |
| MCTimed | HardwareService, HandShake, Serialib, FtdiGpio with failing calls | What waits returns (`EveryCallReturns`, `CleanBeginReturns`, `TimedCallReturns`, `EndReturns`), and what it returns belongs to it: a missed answer byte is never made up for (`Accounted`), a call with nothing outstanding gets its own answer (`QuietCallIsAnswered`), a line is whole (`ReadsOneLine`), a byte is read once (`OneReadPerByte`), an error is reported where char is signed (`ReadErrorReported`) |
| MCNetwork | WiFiUdpStream with EthernetUDP, EthernetClient, SecureSocket | `NoWriteToNull`, `NoSocketLeak`, `AtMostOnceInOrder` and `FlushSendsOnce` of UDP; `NoForeign` and `NoLeak` of descriptors; `ContextServesAll` of TLS |
| MCFtdi | FtdiGpio, FtdiContexts, FtdiI2C, FtdiSpi | `WriteSurvives`, `NoUseAfterFree`, `DeviceAgrees` of the two threads; `OpenMeansClaimed`, `ReleasedWhenEnded` of the contexts; `NoFalseSuccess` of I2C; `AnswersInPlace`, `ClockNearRequest` of SPI |
| MCRpi | HardwareSetup, RpiGpio, Servo with RpiPwm, RpiI2C, RpiSpi | `DefaultsAlive` of the global objects; `HeldIsMapped`, `WriteReaches` of the lines; `PwmAsCommanded`, `PulseAsWritten` of the channels; `BytesAccounted` of I2C; `TransferAsSettings` of SPI |

Every one of these properties has a mutant of the code in PROJECT.json that
breaks it.

Seven runs show a disagreement between the code and what the repository says of
it; PROJECT.json quotes the sentence and TLC prints the behaviour:

- HardwareServiceUdp: over UDP receive() polls a read() for which nothing fetches
  the packet, so every call that waits for an answer times out though it is there.
- EthernetClientStop: a stopped client closes its old number again when it is
  destroyed, by then perhaps another client's.
- FtdiGpioMisrouted: a call reaches the other channel while the PWM thread has
  that one selected.
- HandShakeUdp: over the default stream begin() never returns.
- FtdiSpiReceivedByte: transfer(data) gives the chip a header with one byte of
  length where it takes two, as transfer(buf, count) sends it; the data byte becomes
  length and what is returned is not the answer to it.
- RpiPwmTone: tone() of a high frequency after a low one keeps the low one, as
  the period is written while the longer duty is in effect.
- FtdiI2CStop: the address byte of a requestFrom() becomes the length of data, and
  the commands of the stop condition that data: the call returns with both
  lines low.

One more disagreement is not a run: where char is unsigned, as on the ARM boards this
core runs on, the codes of readChar() are not below 0 (A/serialib.cpp:483), so
readString() reports a failing device as a timeout, and at A/serialib.cpp:420 the
loop never ends. `ReadErrorReported` shows what holds where char is signed.

### Exceptions the properties make

Where the code departs from what one would expect and a property would fail, the
property says so, or the model restricts its environment. A reader of the
passing runs should know these:

- `ByteFifo!GetArray` stops at a zero byte as the code does, and that byte is gone;
  `ImplementsFifo` therefore says nothing against that loss. `SentInOrder`,
  `ReadInOrder` and `PeerGetsWritten` end at a zero byte in the buffer for
  that reason; `ReadInOrder` also at an answer that came too late, and
  `PeerGetsWritten` at a failed send().
- What stop() or a refused connect() leaves in the write buffer of an EthernetClient
  goes to the next peer; `PeerGetsWritten` counts it as due to that peer.
- `Accounted` says that a late answer shifts those after it; it does not say
  that an answer belongs to its call. It does so only if nothing was
  outstanding when the call began (`QuietCallIsAnswered`); a request of RemoteI2C
  that was not flushed (A/RemoteI2C.h:68) counts as outstanding. It excepts calls
  that time out, and over UDP all of them that wait do.
- `CleanBeginReturns` excepts UDP, and a stray byte before the announcement: the
  handshake then compares blocks that are out of step for good.
- The clock of Serialib is set back at most once in a call; setting it back for
  ever would keep any call alive. The port is configured when it is read.
- Without setTarget() a flush() discovers a target without a port
  (A/WiFiUdpStream.h:64-71): what is written goes to the sender of the last packet,
  stays in the buffer and goes out again with each flush(). `FlushSendsOnce` speaks
  of the time from setTarget() on, `AtMostOnceInOrder` of packets that were begun.
- WiFiUDPStream::stop() does nothing, so HardwareSetupRemote::end() leaves the
  socket open. `NoSocketLeak` holds because that stream begins once.
- `NoForeign` excepts sketches with stop() and with names that do not resolve:
  both close a descriptor and keep its number. A refused connection counts as
  made (A/Ethernet.h:212).
- `NoLeak` excepts (`Loses`) a server that begins again, which forgets its descriptor,
  a failing listen(), and programs that connect clients again and have copies or
  accepted clients too: one of these does not count as connected itself, so it
  connects the shared SocketImpl again and loses its descriptor. The first also leaves
  an entry in the list of active servers when the server is destroyed.
- `ContextServesAll` counts setting up and cleaning up the library only as long as
  no context failed to be made.
- `WriteSurvives` excepts a pin that shares its byte with another pin under PWM:
  digitalWrite() does not take pwm_mutex, and an update can be lost.
  `DeviceAgrees` excepts failing libftdi calls, and for directions wirings with PWM.
- `ReleasedWhenEnded` excepts an object begun twice: its first context is lost.
- `NoFalseSuccess` ends when the chip has been astray, until the next begin().
  `AnswersInPlace` and `ClockNearRequest` hold until a call has the form the chip
  does not take, the first also until an answer is late. `ClockNearRequest` is about
  458 Hz to 30 MHz.
- `DefaultsAlive` excepts two kinds of setup. One is a setup whose last
  begin(asDefault) did not set the flag: begin(true), begin(false), then end() or
  destruction leaves the globals at it, and so does a begin(stream) or setSource()
  without a begin(true). The other is a HardwareSetupRemote that was not ended (the
  class has no destructor).
- `WriteReaches` promises the level only on a line the object can have
  (`Writable`): the shared chip and the entry of the shared map are those of its own
  chip, the line is not in other hands, and with libgpiod v1 its request never
  failed. In all other cases it says what does not happen: no line changes but an
  output of the pin's number that the program holds.
- `BytesAccounted` excepts from the slave a byte reaches two kinds of transmission:
  one whose ioctl was refused (R/HardwareI2C_RPI.cpp:73), and one during which another
  slave was addressed. Their bytes go to that other slave and endTransmission()
  returns 0.
- `PwmAsCommanded` and `PulseAsWritten` except files that do not open, and a
  period the kernel refused because the duty in effect is longer.
- `TransferAsSettings` excepts the bit order where the controller cannot do LSB
  first, and after a second begin().

### Bounds, and why they are enough

- RingBufferExt: size 3 and arrays up to 3 over {0, 1, 255}: full, empty, every
  wrap position, an array that does not fit, a zero byte anywhere, and a byte
  that a signed char would make negative. CBuf: sizes up to 3 and arrays up to 3,
  so a resize meets every position of the wrap, growing and shrinking; one of the two
  chars is -1.
- MD5Builder: blocks of 4 with a length of 1, messages up to 5, chunks of 2: a
  message may end before, at and behind the place of the length and of the block.
- TcpStream and RemoteSerial: buffers of 2 and 3 bytes written, so a buffer fills in
  the middle of a write; 2 and 3 bytes received, two connections, one byte zero or not.
- HardwareService: three calls: one that times out, one that gets its answer,
  and one after it; one lost message. Answers of none, one and two bytes and a
  method with two receives.
- HandShake: three announcements, one stray byte, split anywhere.
- Serialib: strings of up to 2 bytes, a timeout of 0 (forever) and of 1, time up
  to 2, both kinds of char, with and without SerialImpl. One descriptor, so that
  a second open finds it taken by somebody else.
- WiFiUdpStream: packets of 2 bytes and 3 writes, so a full packet is sent from
  within write(); two packets arriving, so that one is parsed while another
  waits; two begin() calls, so a socket can be reopened.
- EthernetClient: three clients, three SocketImpl objects and a server over three
  descriptors, so that the table can be full, a copy outlive the original, and a
  closed number be reused by another object. No action tells clients or
  SocketImpl objects apart, so they are symmetric (`Alike`). SecureSocket: three
  sockets and three contexts, so the last one goes and a first one comes again.
- FtdiGpio: two pins of a channel, or pins of both. The interaction needs two
  threads and two bits of a byte. FtdiContexts: five contexts, so a setup is begun
  again after one. FtdiI2C: a byte has 16 values, so the length a byte is taken for
  ends before, within and after the stop condition and the calls that follow;
  buffers of 2, requests of 3 bytes. The run FtdiI2CStop has bytes of 256 values.
  FtdiSpi: a byte has two values, so a chunk is four bytes and a transfer of five
  spans two; clocks at both ends of the range.
- HardwareSetup: four setups of all kinds: two remote ones, of which one is begun
  as the default, and two that are not remote, likewise; every pair of kinds
  can take the globals from each other.
- RpiGpio: two objects, two chips, two pins, both versions of libgpiod. RpiPwm and
  Servo: two pins of one channel, a frequency above that of a servo, a servo and a
  pin without PWM; a 32-bit word scaled with the unit of time, so that the product
  of duty and period (R/HardwareGPIO_RPI.cpp:313) wraps; the run RpiPwmTone has the
  same in its own units. Several servos are covered by the theorem alone. RpiI2C: two
  slaves, which are symmetric (`AlikeSlaves`), and two bytes each way. RpiSpi: two modes
  and speeds, two descriptors.

Constants called `Max...`, `losses` of a link, `Strays`, and the cap of 2 on
`registered` are bounds of the model; they stand in guards. A part stops at its
bounds, so deadlock is not checked in the runs that have them: a sketch that makes
no further call is not stuck. What would be a real one, a call that never
returns, is what the four liveness properties of MCTimed are about.

### Fairness

Only MCTimed has liveness. `MCFairSpec` is weak fairness of `SketchRuns`, the step
of the sketch's thread that goes on with a call in progress, and of `WorldGoesOn`,
what the call waits for. As only one part takes steps, this is per part:

- HardwareService: the loop of a call in progress goes on and sees its timeout.
  The board and the network owe nothing.
- HandShake: the loop, and delivery over a reliable stream; the device owes
  nothing, and the property only speaks of a device that has sent.
- Serialib: the loop, and time passes. Bytes need not come.
- FtdiGpio: each thread as a whole, as the operating system runs both and libftdi
  calls return. Weak fairness is enough for the lock because the PWM thread stops
  taking it once the flag is cleared.

## 4. What is proved

TLAPS checks 37 theorems, each for every value of the constants that the named
ASSUMEs of the modules admit; TLC evaluates those on every passing run. The
assumptions say that sizes and bounds are natural numbers and buffers not empty,
that the length at the end of an MD5 block is shorter than the block, that a chip
has one of the two forms of header, that "nobody", "none" and the like are no
members of the sets beside them, that
descriptors are numbers above 0, that the FTDI's pins are within 0 to 15 and the
PWM pins are the four the hardware has, that a second has at least a million
units, and of a link that TCP loses nothing and that its methods are those of
RemoteGPIO, RemoteI2C and RemoteSPI.

Of the 39 properties of the passing runs, 35 are stated by a theorem, among them
both refinements and every invariant. Nearly none is inductive; what was added, per
module:

**RingBufferExtProofs.** `RingInvariant`: `TypeOK` does not say that a write goes
to a free slot; `PositionsAgree` ties the three counters together, and
`LoopBounds` says how far an array call has got. `RingImplementsFifo`: the
mapping reads the queue off the ring, and while an array call is in progress it
is the queue as it was when the call began, so that the loop of the code is one
step of ByteFifo, taken when the call returns. `LoopInv` says what the loop has
moved so far.

**StreamProofs.** `CBufIsQueue`: every step of CBuf is a step of CharFifo or
leaves it as it is; the pointers stay in the array, and `resize()` copies what
`available()` counts, also through the wrap. `PeerGetsAll`, `SketchReadsAll`:
what the peer got, what is in the buffer and what the call in progress still
has to add make up what is due to it; likewise what was read, what is in the
buffer and what is on its way. `SerialSendsAll`, `SerialReadsAll`: the same for
RemoteSerial, whose write of an array is preceded by a flush of the buffer.
`DigestIsOfMessage`: after n items of a message the blocks stepped are its first
blocks, and `_input` begins with the rest (`HasTaken`). This is carried through one
`Put` at a time, so it does not matter how the message was cut. That `calculate()`
ends at a block, with the zeros the standard asks for, is arithmetic about division
(`DivisionUnique`, `ZerosAreThose`).

**TimedProofs.** `BytesAreAccounted`, `QuietIsAnswered`: `ServiceInv`. The
answer bytes outstanding are a sum over the requests not answered and the
datagrams not read. `Balance` is the accounting in these terms. `QuietInv` is about a
call that began with nothing outstanding: no more is outstanding than it waits
for. While both are equal, either its own request is the only one that will be
answered (`Pending`), or what it got and what arrives next are the answer
(`Coming`). A message that is lost makes the first smaller for good, so that the
call has to give up. `PeekedOnce`: SerialImpl
waits for a byte only while it holds none from a peek(). `LineIsWhole`: as long as a
readString() is in progress no byte stored is the final one (`LineInv`).
`ErrorIsReported`: where char is signed, no readString() goes on after a read()
that failed.

**UdpProofs.** `BufferIsThere`, `SocketsAreClosed`: that the packet never exceeds its
buffer needs the type of `tx`, and that the buffer exists needs that
beginPacket() reports success only after allocating it. `TransmittedInOrder`,
`FlushedOnce`: the packets sent, then the buffer, then the next byte are in
order (`Ordered`, `BelowNext`). An EthernetUDP without an open packet may still
have the last one in its buffer, and a stream without a target too; from setTarget()
on a stream may not (`Follows`). `StreamInv` says what a WiFiUDPStream is before
begin(), and that a packet that was begun has a port.

**EthernetClientProofs.** `NothingForeign`: the number a SocketImpl with handles
or a server holds is a descriptor it opened itself (`Owned`). The hard step is
connect, where the lowest free descriptor must exist and be nobody's
(`LowestFree`). `NothingLost`: conversely, each open descriptor is the one its
owner holds, and that owner still exists (`Known`), but for the programs `Loses`
describes. One kind of these was found by the proof: a program that connects
clients again and also has copies or servers. A client that was accepted, or is a
copy, does not count as connected, so it connects the SocketImpl it shares again and
its descriptor is lost. No run has that combination.

**LifetimeProofs.** `GlobalsNeverDangle`, `EndGivesUpGlobals`: together, with the
types, they are inductive (`IInv` of HardwareSetup). A setup that goes was ended by
its destructor or is a remote one, and after its end() the globals are elsewhere if
its flag is set; only begin(), begin(stream) and setSource() bring them back, and
these take a setup out of `ended`. `ContextsOwned`, `InterfaceReleased`: at most one
context lives and it has the interface, and it belongs to an object unless one was
begun twice. `ContextShared`: the counter is the number of sockets, carried
through constructors and destructors by the facts about finite sets.

**FtdiProofs.** `SilenceIsNoSuccess`: until the chip is astray no call gets past its
address, and none has success for its code (`NoSuccessYet`). `ClockIsNear`: the
three bytes of the clock command meet a chip that takes commands as long as all
calls had its form (`InStep`), reads that were early or not, and a lemma about
division (`DivisorIsNear`).
`AnswersComeInPlace`: `SPIInv` says that between two sends the chip rests and that
what the slave heard, what it answered and what was returned are the bytes of the
call up to the same place. A step sends a whole header and chunk, so lemmas say what
the chip makes of each form of header (`ByteForm`, `ChunkForm`), and that the
two bytes of a length, taken apart by `%` and `\div` and put together by the chip,
are the length again (`TwoDigits`).

The theorems about the two threads of FtdiGpio speak of lists of steps.
`ContextOutlivesThread`: the main thread's list is either free of the steps of
end(), or a tail of end()'s, and after the join the PWM thread has none.
The others need what stays true of a list while it is worked off, whatever its
length and its end (`ListInv`): what is done under pwm_mutex is done under it
(`Covered`), a store comes right after the load of its channel (`Preceded`), and
a store is followed by a write to the device (`Followed`). Each method is shown once
to make such a list; then a step is the removal of the first element, and a call of
libftdi that fails is the removal of a longer beginning.
`WritesSurvive`: `SettledInv` follows the level commanded of a pin through the
register into the byte. The PWM thread's stores are all of pins under PWM, and its
load and store of a byte are both under pwm_mutex. `SharesByte` is what remains:
digitalWrite() stores without the mutex.
`DeviceFollows`: a channel whose values differ from what it was told still has
a write in some list, and one whose directions differ a set_bitmode (`DeviceInv`). This
needs that the call reaches its channel, which `CallsReachChannel` proves where it is
so (`Routed`: all pins on channel A, or no PWM and no failing calls). Both theorems are
stated under that condition, because without it they are false: the run
FtdiGpioMisrouted shows a call on the wrong channel, and a failing call leaves
channel B selected.

**RpiProofs.** `LinesAreMapped`: what a release frees is exactly the line of the
entry it removes. `WritesArrive` is an action property from
the same invariant: the line a write sets is the object's own.
`SettingsReachTheWire`: fields, settings asked for and the device's state agree
as long as a descriptor is open. `I2CBytesAccounted`: the bytes in the buffer,
on the wire and dropped are numbered in the order of writing. `OutputIsCommanded`,
`ServoHoldsPulse`: an invariant of each channel's files and of who commanded
them last; the order of the writes to period, duty and enable matters in each of them.

Several proofs need facts about a recursively defined sum or cut, for sequences
of any length. The library's induction theorems take an operator as a
parameter, which the provers cannot instantiate; the lemmas use instead that a
set of natural numbers that is not empty has a least element
(`LeastOfNats`, `LowestFree`), and show of each recursive function used that it
exists (`PartialExists`).

### Only model-checked

- `EveryCallReturns`, `CleanBeginReturns`, `TimedCallReturns`, `EndReturns`:
  liveness under fairness is out of the prover's reach, and so is ENABLED.
- Nothing is said of `DeviceAgrees` for PWM with a pin of channel B and calls that
  do not fail: it is false there, as `RightChannel` is. `DeviceFollows` covers every
  wiring MCFtdi gives TLC.

Where the rules that the violated runs refute do hold is stated by theorems:
`NothingForeign` (EthernetClientStop), `QuietIsAnswered` (HardwareServiceUdp, for
the receives that do not give up), `CallsReachChannel`, `AnswersComeInPlace` on a
chip of the form the call takes, and `OutputIsCommanded` for a tone() that meets no
longer duty. HandShakeUdp is about liveness; of FtdiI2CStop, whether the stop
condition gets through depends on the bytes the chip has swallowed before.

## 5. What is not modelled

- libb64 is third-party code: two coroutines over a fixed table that round trips
  over short inputs test well.
- SignalHandler: the handler runs between any two instructions of the interrupted
  thread, inside the library's containers too. The lists it walks are in
  EthernetClient (`registered`).
- Firmata GPIO does not compile.
- SD and SdFat are thin wrappers whose state is that of a std::fstream.
- Main, Arduino, WMath, itoa, Logger, StdioDevice, FileStream, the WiFi mock and
  the pin tables are I/O, constants or stateless.

In the modelled components these are left out: payloads beyond what a property
tells apart, byte swapping and argument values of remote calls; begin() and end()
of RemoteSerial, which send one request; multicast membership and the payload of
received packets; peek() and address lookups of EthernetClient and write() on a
listening socket; read() and write() of the secure socket, one call of WolfSSL
each; the writes, modem lines and Windows branches of serialib; periods, jitter
statistics and real-time priority of the PWM thread; the value of the FTDI I2C's
divisor; a failing write of the FTDI SPI; calls that only
log; the pinMode() in a servo's attach(), which is an operation of RpiGpio.
libftdi 1.x may refuse to change the interface of an open device; such
a refusal is a failing call, which a wiring with failures covers. `components` in
PROJECT.json says this per component.

## 6. Plan

Done: all modules above; 37 theorems, every invariant and action property of
the passing runs among them. Left, most important first:

1. begin() and end() of RemoteSerial.
2. A write of the FTDI SPI that fails.

A further module becomes a part of the run it resembles, and its proofs a
section of the proofs of that kind.
