# A verification of ft8mon in TLA+

ft8mon receives audio, cuts it into the 15-second cycles of the FT8 protocol,
decodes every signal in a cycle and reports the messages. This directory holds
TLA+ modules of the parts of it whose correctness depends on threads, time and
state, the TLC configurations that check them, and proofs for TLAPS.
`PROJECT.json` lists components, runs, mutants, findings, hazards and theorems,
and maps every definition to the lines it models.

    tlc -workers 2 -config SampleRing.cfg MCSampleRing.tla     # a run
    tlapm SampleRingProofs.tla                                 # the proofs

## 1. The system

```
 PortAudio callback ─┐
 TCP client ─ reader ┼─> sample ring ── get() ──> decode_loop ──> entry ─┬─> FT8 thread ─┐
 rtl_tcp ──── reader ┘   (lock-free)              (main thread)          ├─> FT8 thread ─┤ cb_mu_
 radio (UDP) ─ reader ─> vector + mutex ─ get() ─┘     ^                 └─> ...        ─┤
                                                       └──── join ──────────────┐        v
                     terminal / JSON over UDP / WSJT-X over UDP <── hcb (cycle_mu) <─────┘
```

| Component | State it keeps | Operations | Hard behaviour | Correct when |
|---|---|---|---|---|
| Sample rings (`snd.cc` CardSoundIn, NetworkSoundIn; `rtltcp.cc`) | `buf_`, `wi_`, `ri_`, `n_`, `time_`, shared without a lock | callback or reader stores a chunk; `get(n, t0, latest)` skips, dates, drains | loads and stores of two threads interleave; full ring; wrap | samples come out once, in order, not torn; none disappears unless the ring is full; `t0` dates the first one |
| Decode cycle (`ft8mon.cc` decode_loop, hcb, main -file; `ft8.cc` entry, go, try_decode) | `cycle_count`, `cycle_already`, `saved_cycle_start`; per thread `samples_`, `nsamples_`, `already` | reset, start threads, passes, callback, subtract, join | up to 8 threads decode the same message in overlapping bands; two mutexes | each message reported once per cycle on every output, none suppressed wrongly, subtracted once; every decode ends |
| Clock of decode_loop (`ft8mon.cc` 430-486) | the clock, `ttt_start`, `nominal_start` | poll, get, assign to a cycle, decode, sleep | jitter, slow decodes, sources that go away, integer arithmetic | no cycle decoded twice, none missed needlessly, the start is right |
| Time budget (`ft8.cc` go) | `deadline_`, `final_deadline_`, per pass `deadline`, `new_decodes` | start pass, try candidate, end pass | a search or a candidate overruns | ends in time; later passes get their share |
| Network server (`snd.cc` NetworkSoundIn) | `fd_`, `raw_`, `rate_`, `channels_`, `bits_`, `format_`, `acc` | accept, read header, read PCM, next client | arbitrary cuts of the stream, bad headers, clients that come and go | samples are those that were sent; the server keeps serving |
| RTL-TCP connection (`rtltcp.cc`) | `fd_`, `stop_`, `hz_` | connect, configure, reconnect, set_freq, stop | reconnect races with set_freq and the destructor; writes to a dead socket | the receiver ends on the frequency asked for; a lost connection is replaced; the destructor returns |
| PortAudio start (`snd.cc`) | the stream | choose device and rate | library I/O | - |
| Source selection and main (`snd.cc` open, levels; `ft8mon.cc` main) | argv, `g_dial_hz`, sockets | parse options, open a source, dispatch | none: sequential, before any thread | options are pulled out whatever their order |
| Reporting formats (`ft8mon.cc` json_*, wsjtx_*, freq_to_band) | tag list, two UDP sockets | escape, assemble, send | none | fields are in their ranges |
| Airspy HF+ source (`snd.cc`, optional) | ring, rate reduction state | callback, get | as the rings | as the rings |
| Buffered I/Q sources (`snd.cc` HPSDR-, Cloud-, SDRIPSoundIn; their readers) | the reader's vector and sequence number; `buf_`, `time_` | receive a packet, fill a gap, reduce the rate; absorb, get_iq, get | lost packets, wrap of the numbers, overflow, what arrived during a call | oldest samples first, each once; zeros for exactly what is missing; `t0` right |
| HPSDR radio (`hpsdr.cc`, optional) | `state_`, per unit DDC state, `configuration_changed_`, keying | discover, configure, activate, retune, tick, attenuate, transmit | UDP loss in both directions; a radio that restarts; the loop thread reads keying variables while tx_iq() changes them | every receiver ends on its frequency; keyed only with relays and frequency in place; released at the end |
| CloudSDR and SDR-IP clients (`cloudsdr.cc`, `sdrip.cc`) | one reply slot, `send_mu_`, `reply_mu_` | open, getitem, setitem, reader | a reply that is late or of another request; polls of the slot | a call gets its own reply, takes effect once and ends |
| Signal search (`ft8.cc` entry, go, search, one, one_iter, subtract) | band, rate, padding, candidate, refined position | split the bands, reduce, pad, coarse and fine searches, report, subtract | a chain of indices into arrays of three rates, at the ends of bands and windows | every index exists; reported where it is; the bands leave no gap |
| Codes (`ft8.cc` soft decoders, `libldpc.c`, `osd.cc`, `ft8gen.cc` encoder) | none | CRC, parity, Gray code, soft bits, hints, LDPC, OSD | two encoders and two decoders that must agree, bit order | what is reported is a message as it is encoded |
| FFT and plan cache (`fft.cc`) | `plans`, `nplans`, `plansmu`, lock file, `fftw_type` | get_plan, transforms | threads, a fork, two copies of the library, a type that changes | the planner is entered by one thread at a time; one plan per size; every call ends |
| Messages (`unpack.cc`, `ft8gen.cc` packing) | tables of call hashes | pack a text, unpack 77 bits, remember calls | field boundaries; the order of the messages decides what a hash says | texts come out as typed; a hash is shown as the call that was meant |
| Utilities, tables (`util.cc`, `arrays.h`), audio of `ft8gen.cc`, sound output, `ext_snd_*`, scripts | - | file I/O, synthesis, wrappers | - | - |

Interactions. Threads share the rings without a lock. The decoder threads call
`hcb()` one at a time under `FT8::cb_mu_`; `hcb()` takes `cycle_mu` inside it
for the list of messages seen; the main thread takes `cycle_mu` alone to clear
that list. `entry()` joins every thread before it returns, so cycles do not
overlap. The answer of `hcb()`, 2 for a new message and 1 for a known one,
decides whether the thread subtracts the signal before its next pass. `hcb()` calls `unpack()` under the
same `cb_mu_`, so the tables of call hashes need no lock of their own. The
decoder threads meet once more in `get_plan()`, which HPSDR's transmission uses
too, from another copy of `fft.cc` when both are Python extensions.

## 2. The modules

| Module | Models | Abstracts |
|---|---|---|
| `SampleRing` | the three lock-free rings, one action per load or store of a shared variable | a sample is the number of its arrival, which is also the time it ended |
| `SampleQueue` | the contract of `get()`: a bounded FIFO queue | - |
| `SampleRingInvariant` | the inductive invariant of the ring | - |
| `DecodeCycle` | main thread, decoder threads, callback, three outputs | audio is the set of signals in it; a candidate is a signal in a bucket |
| `CycleLog` | what a user may rely on in the log | - |
| `PassBudget` | the deadlines of one decoder thread | time is counted in ticks |
| `CycleTiming` | the clock of decode_loop, extends `PassBudget` by the loop around it | time is counted in samples |
| `NetStream` | connection, header and framing of the network source | a byte is its position in the client's stream |
| `IqStream` | packets of three radios, their readers, the vector, `get()` | a sample is its position in the radio's stream |
| `SdrControl` | requests and replies of CloudSDR and SDR-IP | a request has a number only the model knows |
| `RadioItems` | what the control connection promises: atomic items | - |
| `Hpsdr` | the HPSDR's loop thread, main thread, transmission and radio over UDP | timers may have run out whenever they are looked at; registers are fields |
| `RtlConn` | the connection to rtl_tcp, reader, set_freq() and destructor | a command is the setting it makes |
| `PlanCache` | `get_plan()` in threads, processes and copies of fft.cc | a plan is its size and type |
| `SignalSearch` | the chain of searches of a decoder thread and every index it uses | what is found is an end of the range that is searched |
| `Codes` | CRC, parity, soft decoders, LDPC, OSD, tones | a tone has a natural strength; see below |
| `Fields` | packing of ft8gen, unpacking of the decoder | characters are numbers; free text and long calls stay characters |
| `Messages` | a message from text to tones, through noise, to text, with the call tables | small code words stand for the messages of a book |
| `*Proofs` | theorems, their inductive invariants, lemmas and proofs: about the module of that name, `SourceProofs` about NetStream and IqStream, `DecoderProofs` about PlanCache, SignalSearch and Fields | - |
| `MC*` | instances for TLC | - |

**SampleRing.** `source`, fixed at the start, is one of the three classes, which
differ in what happens when the ring is full: CardSoundIn's callback leaves its loop (the rest
of the chunk is lost), RTL-TCP drops the one sample, NetworkSoundIn moves `ri_`
itself (`EvictLoad`, `EvictStore`). `ppc`/`cpc` are the program counters of the
two threads, `preg`/`creg` the values of `ri_` they have loaded. `ri_ = (ri_ + 1)
% n_` is two actions; an expression that only loads is one. `order = "weak"`
adds the other order of the stores to `buf_` and `wi_`, which the language
allows because `buf_` is not volatile and there is no fence. `time_` is stamped after a
chunk, as in the code; the clock advances with the samples. `dropped`, `passed`,
`atCall`, `turns`, `slip` and `quiet` are history variables. The comparison of the indices for
`t0` is `>` in two classes and `>=` in the third; `CompareIndices` keeps that.

**SampleQueue.** `SampleRing!Queue` maps the slots from `ri_` to `wi_` to the
queue. A sample is taken when `get()` stores `ri_`, not when it copies the slot,
hence the substitution for `v`. `busy` is "inside get()". A call on an empty
queue may be answered at once (`time_ < 0`) or may start to serve. `ImplementsQueue` states the refinement for
`OneWriter` rings (not NetworkSoundIn, stores in program order): the initial state and
every step of the ring are one of the queue, or a stutter.

**DecodeCycle.** `cmd` is how the program is run. `mpc` is the main thread:
wait, reset (under `cycle_mu`), announce (WSJT-X heartbeat and status), spawn (one `Spawn(t)` per thread), join,
joined. With a file the reset and the announcements are absent, as in
`main()`. `tpc[t]` walks through a pass, a candidate, the two mutexes, the
lookup in `cycle_already`, the three outputs, the return value, the subtraction
and the mark in `already[]`. `Heard` says which bands contain a signal, `Found` in
which 27 Hz buckets it turns up, `Text` which message it carries, `Whole` which threads'
samples hold it to its end (from the others `subtract()` takes nothing, ft8.cc:2790). Every output
carries the cycle `hcb()` stamped (`saved_cycle_start`) and, as history, the
cycle whose samples were being decoded. A candidate that does not decode changes
nothing and is left out; `EndPass` may come at any candidate (time) or at the
end of the list.

**PassBudget and CycleTiming.** `StartPass` gives a pass its share of what is
left of the budget and then searches; `TimeIsUp` is the code's condition;
`TryCandidate` takes any of `Tries` ticks. `pass0_frac` and `pass_threshold`
have their defaults, 1. In `CycleTiming` these are the steps of `Work`, and
`DecodeReturns` lets the time they took pass on the clock of decode_loop, plus a
`Slow` for a machine that is busy. `Elapse(d)` is time passing while the main thread sleeps or
decodes; the source records a sample per tick while it is up, and the newest may
be `Lags` old. `GetSamples` is `get(15 * rate, ttt_start, 1)`, which empties the
ring and computes the time of the first sample from the stamp of the last.
`EndOf` keeps the integer division of the code, `CycleOf` its conversion to
`long long`. An outage leaves a hole in the ring that `t0` does not know of.

**NetStream.** `pc` is the thread inside `accept_and_header()`, `read_header()`
or `reader_loop()`; `booting` is TRUE while the main thread runs `start()`.
`ReadFmt(l)` may occur more than once, as the chunk loop allows. `actual`, `phase`,
`kept` and `garbled` are history: what the client really sends, where in its
frames `acc` begins, whether ft8mon announced that it keeps the first format,
whether a sample was wrong.

**IqStream.** `Store(k, zeros)` is what the three readers have in common: zeros
for what is missing (`HpsdrZeros`, with the unsigned difference that becomes an
`int`; `SdripZeros`), rate reduction, the bound on the vector. `Keeps` is the code's
test of a sample, `Kept` how many samples pass it and `KeptAt` which: closed forms, so that one can reason
about them; the theorem `KeptAreThose` says that they mean the test. A zero is the position of the sample
it stands for, so that order and dates can be checked like those of real
samples. `TakeIq` and `TakeAudio` are the part of `get()` under the reader's
mutex, `ReturnSome` and `ReturnAll` what follows without it: packets arrive in
between. `latest` is fixed at the start: 1 as decode_loop() calls `get()`, 0 as
levels() does, which leaves samples over for the next call. The history
variable `mixed` says that `absorb()` has put newer samples in front of such,
`dated` that everything had arrived and every gap was filled when `time_` was set; `ret` and `out` are
what was returned. Members the constructors do not initialise start with either of two values.
Packets are lost but not reordered or duplicated: what the readers make of a packet that comes late
or twice (hpsdr.cc:1131-1144, sdrip.cc:494-506) is left out. All packets have one size;
sdrip.cc:498 has the literal 240, the size of the packets open() asks for.

**SdrControl and RadioItems.** A call is four steps of its thread: take
`send_mu_`, clear `reply_`, write the request, take a reply with its item's
number out of the slot; the reader reads a message and stores it in a step of
its own. `CloudOpen` and `SdripOpen` are the calls of `open()`, without some more of `getitem()`
whose answers are only printed (cloudsdr.cc:84-100, sdrip.cc:157-173), and for a frequency that is
given (sdrip.cc:106). The radio
answers in order and sends audio in between. `ImplementsItems`: a call happens,
seen from the radio and from the caller, at one moment between its begin and end.

**Hpsdr.** `pc` is what the loop thread does next; `high` the fields that it has
already put into the packet it builds, read one by one without a lock. `TxIq`
lists the steps of `tx_iq()`; `tx_hz_`, which a packet has twice (hpsdr.cc:669-671), is read once, and
a pause outlasts the building of a packet. `radio` is what has arrived, and every packet is sent with an
`arrives` that may be FALSE. `todo` is the scenario: what the main thread, the
radio and a transmission will still do.

**RtlConn.** `fd` says if `fd_` is a descriptor, `socket` what it names; the
reader and the other thread each have a program counter and a local `tuned`.
`Send` is `send_cmd()`, which may write to a connection without a peer and then
raise SIGPIPE, which ends ft8mon and not Python. `PeerGoes`, `Refused` and
`Misgreeted` are the faults; a host that cannot be resolved and a socket that cannot be had
(rtltcp.cc:217-228) count as `Refused`.

**PlanCache.** Every variable of `fft.cc` exists once per process and per copy
of the file; `Fork` copies the parent's. `Set`, `Mine`: the one that thread t
sees. `Transform` asks for the size that each kind of transform needs.

**SignalSearch.** Frequencies in 1/240 Hz are integers; `SearchSpec` is the specification,
`stage` the step a candidate has come to. Each action is one step
of the chain of `entry()`, `go()`, `one()` and `subtract()`, and puts the
indices it computes into `touched` with the size of the array, and FALSE into
`held` if an assertion fails. What a search finds is its first or its last
position: all indices grow with the position, so the ends are the extremes.
The signals of an earlier decode, `prevdecs_`, which go() would move and subtract (ft8.cc:784-787, 829-851),
are left out, for ft8mon passes none.
`SearchAssumption` says that symbols and bins are whole numbers of samples (rates are multiples of 100),
`RoomAssumption` which inputs `InRange` and `Covered` are about; see section 5.

**Codes, Fields, Messages.** The arithmetic on bits is exact. In place of
floating point, a tone has a natural number for its strength, `bayes()` is a
difference, and `ldpc_decode()` may return any codeword or near word, except
that it keeps a codeword it is given. OSD tries its flips in the order of the
code. `Pack77` is ft8gen's, `Unpack` the decoder's, each translated from its own source; that one inverts
the other is what is checked. `Book` gives the fields for the words of the small
code, so that the call tables see messages that came through it in any order. A callback is
one step, for it runs under `cb_mu_`. Recursion is by folds.

**Composition.** `CycleTiming` runs `PassBudget` inside the loop it belongs to.
Otherwise the modules meet at interfaces that one shows and the other
assumes: `SampleRing` and `IqStream` give `get()`'s contract (`ImplementsQueue`,
`T0ExactWhenQuiet`, `T0Error`; `OldestFirst`, `T0Right`), which `CycleTiming!GetSamples` takes as one step;
`CycleTiming!OncePerCycle` is why `DecodeCycle` numbers its cycles upwards, and
`NominalNear` gives `SignalSearch` its starts;
`NetStream!StoredAtRingRate` is why `SampleRing` has one clock;
`SignalSearch!ReportedWhereFound` is why a report of `DecodeCycle` is a signal,
and `Messages!HeardAsSent` why two reports with one text are one message.

## 3. The runs

| Run | Instance | Shows |
|---|---|---|
| `ring` | the three sources, RTL-TCP also with weak stores; 3 usable slots, chunks of 1-2, 6 samples | `RingInv` (the inductive invariant), `NothingLost`, `T0Error`, `EveryTurnIsPaid` and `ImplementsQueue` where each index has one writer; `T0ExactWhenQuiet` for all |
| `decode` | 2 threads, 3 signals, 3 buckets; 2 live cycles of 1 pass, a file of 2 passes, or two files of 1 pass; one signal that one thread cannot subtract | `DecodedIsReported`, `Bracketed`, `SubtractOnce`, `DecodeEnds`, and `FollowsLog`: it implements CycleLog, so nothing is reported twice in a cycle |
| `timing` | 50 s, 10 ticks a second, naps of 1-2 ticks, stamps up to a tick old; 3 passes within 5 s, searches of 1 s, candidates of 3 s, a slow machine that adds 17 s; outages at multiples of 7 s | `NoCycleMissed`, `OncePerCycle`, `NominalNear`, `EndsOnTime`, `LaterPassesHaveTime` |
| `net` | 7 layouts, raw or not, reads of 1-5 bytes, accept errors | `RightUnlessKept`, `StoredAtRingRate` |
| `iq` | the three radios, with `latest` and (but for CloudSDR) without, 6 packets of 2 samples, numbers that wrap after 2, at most 4 samples kept | `OldestFirst`, `InStep`, `T0Right` |
| `iq_gaps` | the HPSDR, 5 packets; violation of `GapsFilled` | the difference of the sequence numbers has the wrong sign |
| `sdr` | `open()` of both radios, then two threads that retune | `CallsReturn`, `ImplementsItems` |
| `hpsdr` | 2 DDCs, lossy; 2 receivers, a retune and a restart; 3 receivers; reports of clipping; a transmission at any time | `KeyedInPlace`, `Served`, `Released` |
| `search` | 4 threads, 150-3600 Hz; 15 s at 8000, 12000 and 48000/s with three starts, and a file | `InRange`, `ReportedWhereFound`, `Covered` |
| `rtl` | ft8mon and Python, 2 HF and 1 VHF frequency, 2 retunes, 3 faults | `TunedAsAsked`, `Reconnects`, `DestructorEnds` |
| `plan` | 3 threads of a parent, one that transmits, and 1 of its child; one copy of fft.cc or two | `PlannerAlone`, `PlannedOnce`, `PlansReturned` |
| `messages` | 12-bit code, 4 message bits, 2 CRC bits, 15 messages of all types, typed texts with calls, grids and reports at the ends of their ranges | `HeardAsSent`, `TextAsTyped`, `NamesAsMeant`, `OsdFinds` |

What the weak order costs can be seen by dropping `order = "program"` from `OneWriter`:
then a slot is returned that holds the sample of the round before.

Why the bounds are enough. *ring*: with 4 slots, full after 3 samples, 6
samples make both indices wrap, the producer find it full and a stale index be
overtaken, also between the two loads of an index for `t0`; requests for 2 samples leave one to skip or to keep. *decode*: two threads are
all that can meet at a mutex or in the overlap of two bands; a signal in two
bands and two buckets, a second signal with the same message and a third with
its own give every reason for a message to turn up again; two cycles, or files, are needed
to see state of one in the next. *timing*: three windows hold a decode of
nearly two cycles together with an outage, naps that
do not divide a window, and stamps that jitter against them. *net*: clients with the same frame size but other
meaning, another rate, another frame size and an unsupported format are the ways
to differ; 5 bytes cut frames of 2 and of 4 bytes anywhere. *iq*: six packets
pass the wrap of a sequence of three numbers with a gap before, in and after
it; halves and two thirds are rates that divide and that do not; a vector of 4
overflows; a request for 1 leaves samples over. *sdr*: two callers contend for `send_mu_`; `open()` has every kind of
call. *hpsdr*: two units are used up by the third receiver; what a unit or a
timer does does not depend on how many there are. *search*: bands meet in the
middle and end at both limits; a rate below, at and far above 12000; starts at
0, at 0.5 s and as late as `CoversCycle` allows; indices are computed with the
real constants. *rtl*: two retunes to either side of 24 MHz and three faults are
enough to lose a connection during each of two reconnections. *plan*: two threads race for one size, a third changes
`fftw_type`, and a fourth is in another process. *messages*: the small code has
unused words, words that differ in few bits, a CRC that detects some of them
and dependent columns, so that Gauss-Jordan must choose; the
calls are chosen at the ends of their number ranges. `MaxFed`, `cycles`,
`MaxClock`, `Passes`, `MaxSent`, `MaxRetunes`, `MaxFaults`, `MaxCalls` and one client in the backlog
are the bounds.

Deadlock is not checked in `net` (the program exits when it cannot
accept its first client, and the reader ends when a later accept fails), `sdr`
and `plan` (the callers are done, or the process has exited), `hpsdr` (an
assertion of the code stops the process when receivers run out) and `search` (a
candidate has been dealt with). A bounded run of
DecodeCycle or CycleTiming ends in `Idle` or `Over`.

Fairness. `DecodeCycle`, `SdrControl`, `RtlConn` and `PlanCache` assume weak fairness of each thread:
the operating system runs a thread that can run. Arrivals, calls, faults and new cycles
are forced by nothing. Weak fairness is enough where mutexes are
contended for (`DecodeEnds`, `CallsReturn`, `PlansReturned`), since the holders give
them back and each thread takes them finitely often. `SdrControl` assumes that the radio answers,
as the clients do, which wait without a limit; `RtlConn` that rtl_tcp takes the
commands it is sent and that a connection is answered or dropped. `Hpsdr` has strong fairness of the timers of
`tick()`, which come round for ever, and of each kind of packet arriving: a
network that loses every one of a kind can be controlled by nobody.
`SampleRing`, `NetStream`, `IqStream`, `SignalSearch`, `Messages` and `CycleTiming` claim safety only:
that `get()` ends depends on how fast the reader is, and that the next client is accepted on the one before (section 4).

## 4. What disagrees with the code's own words

One run ends in a violation: `iq_gaps`. hpsdr.cc:1135 says "fake the missing
samples", hpsdr.cc:1136 subtracts the sequence numbers the wrong way round.

Read in the code while modelling it, and not the subject of a run:

* NetworkSoundIn's reader and `get()` both write `ri_` (snd.cc:651): a full ring
  can become an empty one. rtltcp.cc:329 names the reason not to do it.
* buf_ is not volatile and no fence orders its stores and those of `wi_` (rtltcp.cc:325): `get()` may copy a slot before
  its sample is there. The order of the samples and the queue are claimed for stores seen in program order only.
* `t0` is early by the samples that come in while it is worked out, and wrong by a whole buffer if `wi_` wraps, or the first sample
  comes, between the comparison of the indices and their second load (rtltcp.cc:421; snd.cc:257 fears "a race").
  `T0Error` says that it is off by nothing else, `T0ExactWhenQuiet` when it is right.
* The loops of `get()` (rtltcp.cc:413) end because the main thread is faster than the samples. The code
  does not see to that: a reader that stores one for each that is taken would keep `get()` busy. `EveryTurnIsPaid` says that nothing else can.
* A message in two files of one `-file` run is reported for the first only
  (ft8mon.cc:560): `cycle_already` is not cleared. `DecodedIsReported` says that this is all that is lost.
* `rate_` takes the value of a later client's header, even a rejected one, while
  `get()` uses it (snd.cc:450).
* An accept error ends the server (snd.cc:548, 626), README.md:90 says it goes on. Nor has `read()` a timeout
  (snd.cc:566): a client that stays silent keeps all others out. So nothing is claimed of the next client's being accepted.
* `nominal_start` is up to a second late (ft8mon.cc:445): integer division. `NominalNear` is what remains true.
* The last pass goes on to `final_deadline_` whatever it has decoded (ft8.cc:914), where ft8.cc:421 says "if no
  decodes" (ft8mon gives both deadlines the same value).
* The "decodes:" line prints the counter of the cycle before under the time of the new one (ft8mon.cc:455).
* ft8mon.cc:528 says that the library reduces whatever rate; rates below
  the reduced ones are left as they are.
* Nor is every rate above those enough: at 6000, 7000 and 7400 samples a second, which `-listen addr:port rate` accepts,
  the band of 3600 Hz ends too near half the rate, and the copy at ft8.cc:697 reads past the last bin of
  `bins1`; TLC finds it (`InRange`) when such an input is added to `search`. At 8000 and above it does not happen:
  `RoomAssumption` asks for a rate of 11/5 of the band's end.
* `get()` without `latest`, as the level meter calls it (snd.cc:127), may return newer samples first: `absorb()` puts what has
  arrived in front of what the call before left over (snd.cc:1125, 1305), and dates it all with one stamp. `OldestFirst` and `T0Right`
  except samples `mixed` in this way, and `OldestFirst` says that decode_loop(), which sets `latest`, never sees any.
* `set_freq()` may meet rtltcp's reader in the middle of its configuration (rtltcp.cc:392): the commands of both mix on the
  wire. `TunedAsAsked` claims nothing then (`mixed`), until the next connection or set_freq().
* The relays follow the keying in the loop thread's packet (hpsdr.cc:1362), where the
  comment (1356-1360) wants them first; the pauses of tx_iq() are what makes `KeyedInPlace` true.
* Without FFTW_ESTIMATE a child stores a plan of the other type than it asks
  for, and never finds it again; `PlannedOnce` is about FFTW_ESTIMATE.
* A hashed message heard before and after its call has two texts, and is
  reported and subtracted twice, though ft8mon.cc:327 suppresses "this message".
* Tables of calls remember "CQ xx" and "QRZ" as if they were calls, and calls with their padding.
* ft8gen accepts reports that its 15 bits do not hold.

## 5. The proofs

Eight modules hold theorems. Each is about every value of the constants that the
ASSUMEs of the component's module admit (TLC evaluates those in its run): any
number of slots, threads, signals, callers, frequencies, receivers, passes, any
sampling rate, and executions of any length. All safety properties follow the same way from an
inductive invariant; TLC checked the properties on the instances of the runs first.

| Module | Theorem | States |
|---|---|---|
| `SampleRingProofs` | `TypeCorrect`, `RingInvariant` | `[]TypeOK`, `[]RingInv` |
| | `RingSafe` | `[](NoSlotRace /\ ReturnedInOrder /\ NothingLost)` |
| | `TurnsArePaid` | `[]EveryTurnIsPaid` |
| | `T0Exact`, `T0ErrorBounded` | `[]T0ExactWhenQuiet`, `[]T0Error` |
| | `QueueInvariant`, `RingIsQueue` | `[]QueueInv`; `ImplementsQueue`: SampleRing implements SampleQueue |
| `DecodeCycleProofs` | `DecodeInvariant` | `[]DecodeInv` |
| | `SubtractedOnce`, `AllReported`, `StreamBracketed` | `[]SubtractOnce`, `[]DecodedIsReported`, `[]Bracketed` |
| | `FollowsCycleLog` | `FollowsLog`: DecodeCycle implements CycleLog |
| `CycleTimingProofs` | `TimingInvariant` | `[]TimingInv` |
| | `CyclesDecodedOnce`, `NominalStartNear`, `EveryCycleDecoded` | `[]OncePerCycle`, `[]NominalNear`, `[]NoCycleMissed` |
| | `ThreadEndsOnTime`, `PassesShareTheBudget` | `[]EndsOnTime`, `[]LaterPassesHaveTime` |
| `SourceProofs` | `NetInvariant` | `[]NetInv` |
| | `NetStoredAtRingRate`, `NetRightUnlessKept` | `[]StoredAtRingRate`, `[]RightUnlessKept` |
| | `KeptAreThose` | `Kept` and `KeptAt` count and name the samples that `Keeps` |
| | `ZerosFillTheGaps` | `[]InStep` |
| | `SamplesOldestFirst`, `TimeOfFirstSample` | `[]OldestFirst`, `[]T0Right` |
| `SdrControlProofs` | `ControlInvariant` | `[]ControlInv` |
| | `ImplementsRadioItems` | `ImplementsItems`: SdrControl implements RadioItems |
| `DecoderProofs` | `PlanInvariant` | `[]PlanInv` |
| | `OnePlanner`, `SizesPlannedOnce` | `[]PlannerAlone`, `[]PlannedOnce` |
| | `WhereFound` | `[]ReportedWhereFound` |
| | `IndicesExist`, `GridCovers` | `[]InRange`, `[]Covered` |
| | `CallsComeBack` | `Unpack` of `Pack77` of a first word, a call and a locator or closing is what was typed |
| `RtlConnProofs` | `RtlInvariant`, `RtlTunedAsAsked` | `[]RtlInv`, `[]TunedAsAsked` |
| `HpsdrProofs` | `HpsdrInvariant`, `HpsdrKeyedInPlace` | `[]HpsdrInv`, `[]KeyedInPlace` |

**SampleRing.** `RingInv` and `RingSafe` speak of rings with `OneWriter`: not of
NetworkSoundIn, whose two threads both write `ri_`, and only of stores seen in
program order. Whether a slot can be copied depends on what each thread has tested before.
`RingInv` adds why a test still holds when it is acted on (`TestsHold`): only
`get()` moves `ri_`, so the producer's "there is room" can only become truer, and
only the producer moves `wi_`, so the consumer's "there is a sample" can only
become truer; the value of `ri_` that `get()` loaded is still its value.
`LiveInOrder` says that from `ri_` to `wi_` the slots hold increasing sample
numbers, all newer than `passed`; `Kept` that a sample that is neither there nor
passed was dropped; `GatheredInOrder` the same for the vector. `Dist(i)` counts
slots from `ri_`; lemmas on `%` say how it changes when an index moves on by one.
`T0Exact` holds for all kinds of rings and both orders of the stores. `T0Inv`
measures age backwards from `wi_` instead (`SlotsInStep`), since the network
source's reader may move `ri_`; `T0Progress` follows `quiet` through `get()`.
`TurnsArePaid` needs only that each move of `ri_` takes it nearer to `wi_`. `T0ErrorBounded` rests on both: `T0Means` carries the error noted at the subtraction on to the first sample that is copied,
which, with one writer of each index, is the oldest there or the next to come.
`RingIsQueue` needs `QueueInv`: at each place in `get()`, how much has been
taken and whether more must be passed over (`GetProgress`). Each of the two stores of an index is then one step of the queue, all
other steps stutter.

**DecodeCycle.** `Control` says where threads run and who holds the two mutexes.
`Claims` is the argument: of the threads that decode one message the first to
look it up under `cb_mu_` *owns* it until it has subtracted it, and all others
find it in `cycle_already`; ownership outlasts the mutex, and the list is emptied
only while no decoder thread runs. `AllReported` adds `Accounted`: what was
decoded has been reported or is on its way, where a message in the list was reported live in this
cycle, of a file in its log or an earlier one's. `StreamBracketed` and
`FollowsCycleLog` add what the streams contain.

**CycleTiming and PassBudget.** The lemmas on `CycleOf` and `NominalStart` settle once how samples that
cover a cycle relate to it. `Clockwork` says that what the ring holds is
younger than all that was taken, `Logged` that a decode's samples lie after
those of the one before: the second decode of a cycle would begin before its
second 1.5 and yet after its second 10.5.
`EveryCycleDecoded` assumes `Prompt`: naps of at most a second, the window of the
poll, and stamps at most 2.5 seconds old; decode_loop() asks for 0.1 s. `OnSchedule` says by when the
next window must come. `EndsOnTime` follows from the two deadlines. `PassesShareTheBudget` assumes
`SearchesFit`: no search takes longer than a pass's share and a candidate (a pass
that overruns by more has already spent the next one's share, and nothing in the code prevents it).

**NetStream.** `Layout` follows the layout from client to client: reader_loop()
saves it and puts it back, whatever read_header() has stored in between. `Framing`
says that `acc` begins where a frame begins, unless the format was kept.

**IqStream.** `CountInv`: what the reader expects is the number after the newest packet,
whatever is lost, and the samples counted never exceed those the radio has sent; they are as many when the zeros
fill the gaps. So what a packet adds lies after all before it. `Order`, for every loss and for the wrong sign of the HPSDR's too,
puts what the caller has or `get()` has left over, what it is taking and what waits one above the other, and says
that `buf_` has nothing twice and nothing the caller has, and is in order unless `mixed`.
`T0Right` needs more, in `Recent`: what waits is the *last* part of the samples
kept (`SuffixOf`), which a vector dropped for its length, or returned in part, still is, and what is left over in `buf_` was that at
the moment `time_` was set; then the newest has a known number, and
the time of the first follows from the length. The quotients of `KeptAt` cost two output periods at most.

**SdrControl.** `OneCaller`: who has `send_mu_` clears, writes and polls. `Polling`: the
one request, reply or content of the slot there is belongs to that call. Hence what
is polled is its answer, and `RadioAnswers` is where the call takes effect. `NoneAssumption` only
says that the empty slot is not a message.

**PlanCache.** `Holders` are the mutexes by place, `Estimates` that in a copy
that began with FFTW_ESTIMATE tx_real() changes nothing, `StillMissing` that
a size not found under `plansmu` is missing until its plan is published. Threads that
exist only in the child do nothing before `Fork`.

**SignalSearch.** A candidate's place passes through five changes of rate, scale
and origin. `WhereInv` says at each stage how far it is from the grid position it began
with: `AwayHz` and `AwayOff` add what each search may move it, and `OnGrid` that the grid's offsets are whole at
200 samples a second as well, so that the way back is exact. `RoomInv` is the other half, the room that is left: below and above the band
after it has been moved down (`Margins`), around a candidate (`InBand`), behind it (`Extended`, `InSamples`).
`IndicesExist` and `GridCovers` assume an input of two seconds at least (decode_loop() wants over ten,
ft8mon.cc:451), a rate from 3000 of which the band's end is at most 5/11 (sources give 12000
or more unless told otherwise, the band ends at 3600 Hz), and threads with at least 20 Hz each.

**Fields.** A locator or a call is read digit by digit as it was written, each
place with its own base; one lemma per table. Calls
lie above words and hashes, so no call is read as one of those. RR73 is a locator too, and `PackGrid` must not leave open which it is.

**RtlConn.** What counts is the command of each kind that reaches the receiver
last. `Aim` says that whoever configures aims at `hz_`, `Tuned` which of the last
commands must be right at each place of the two threads; `mixed` marks where
set_freq() met the reader between its reading `hz_` and its last command, and nothing is claimed.

**Hpsdr.** The pauses of tx_iq() divide a transmission into phases, and a packet
is begun and finished within one of them (`InPhase`); within a phase the four
variables may be read in any mixture without harm (`Building`). The pauses are taken to be longer than the
building of one packet, which takes microseconds.

Attempts at proofs have corrected the model. In Fields, RR73 satisfied two guards
of one CASE, of which TLC takes the first and TLA+ neither in particular. SignalSearch checked reduce_rate()'s assertion
for the band after its clamp, where the code asserts it of the band it is given (ft8.cc:642). `NoCycleMissed` was false of an
earlier CycleTiming when a source that was down as get() was called came back
before entry(); `smooth` takes that into account. PassBudget now assumes that
there is a longest search and a longest candidate, without which `EndsOnTime` means nothing, and
PlanCache that a thread uses one of the copies that exist.

Only model-checked, and why:

* Liveness (`DecodeEnds`, `CallsReturn`, `Served`, `Released`, `Reconnects`, `DestructorEnds`, `PlansReturned`): TLAPS
  does not handle ENABLED, of which fairness consists.
* `HeardAsSent`, `TextAsTyped`, `NamesAsMeant`, `OsdFinds`: they say what folds
  over bits and characters compute, which needs induction over data, which none of the installed
  backends can do. They are checked over bounded inputs. `CallsComeBack` is the part of `TextAsTyped` that has no folds:
  reports, directed CQ and the other message types are left to TLC.

## 6. What is not modelled

* PortAudio start and sound output: calls of a library with no state of their own.
* Option parsing, `SoundIn::open()` and `main()`: sequential, before any thread
  exists; errors end in `exit(1)`.
* The text of reports (JSON, WSJT-X datagrams, band table): formatting. When and
  how often a report is sent is `DecodeCycle`.
* The Airspy HF+ source, an optional build: its ring is CardSoundIn's with a
  rate reduction before it.
* `ext_snd_*`, utilities, WAV files, scripts: wrappers and blocking file I/O.
* Audio synthesis of ft8gen, and in the decoder what is computed in floating
  point: filters, spectra, the strength of a candidate, statistics, belief
  propagation. `SignalSearch` has the indices these use, `Codes` what may come out of them.
* `ldpc_decode_log()`, which nothing calls.

## 7. Plan

1. **Done**: SampleRing with SampleQueue and proofs; DecodeCycle with CycleLog;
   CycleTiming with PassBudget; NetStream; IqStream; SdrControl with RadioItems;
   Hpsdr; RtlConn; PlanCache; SignalSearch; Codes, Fields and Messages.
2. **Proved**: every safety property of the runs except the four of Messages, the three refinements,
   and the packing of calls and locators.
3. **Proofs** that remain: the four of Messages, for which induction would be needed.
4. **Models** that remain: the rate reduction of the Airspy source, the option table of `SoundIn::open()`.
