# A verification project for lxstreamer

lxstreamer is a C++ library that serves media sources (cameras, streams, files)
to HTTP clients and records them to files. This directory models its concurrent
core in TLA+, checks the models with TLC and proves theorems about them with
TLAPS. All paths below are relative to the repository.

Contents: [inventory](#inventory), [plan](#plan), [modules and code](#modules-and-code),
[runs](#runs), [bounds](#bounds), [fairness](#fairness), [proofs](#proofs),
[what the checks found](#what-the-checks-found), [what is not modelled](#what-is-not-modelled).

## Inventory

Threads: the application's thread (calls `streamer`), the HTTP thread (one per
`http_server`), one worker per source, one thread per viewer, and one for the
recorder of a source. They share memory; there are no messages but the packet
queues.

| component | state | operations | interacts with |
|---|---|---|---|
| source worker (`src/source/source.cpp`, `source_data.*`) and demuxer (`demuxer.*`, `demuxer_data.hpp`) | flags `running`, `demuxing`, `recording` (atomics), `record_options`, list `viewers` under `mutex`, `irecorder`, `demuxer_initialized`, two timers | `start`, `run` (open, demux, close), `on_open`, `on_packet`, `add_viewer`, `start_recording`, `stop_recording`, `seek`, `set_speed`, destructor | the HTTP thread calls `add_viewer`, the application the rest; owns viewers and recorder |
| viewer (`src/write/viewer.cpp`) | bounded queue, mutex, condition variable, `running`, thread | `init`, `start`, `write_packet`, thread body, destructor | packets from the source's worker, bytes to the client |
| recorder (`src/write/recorder.cpp`, `recorder_data.*`) | the same, `rec_buffer`, `output`, counters of the current file | `start`, `write_packet`, thread body, `write_buffer`, `check_limits`, `finalize_record`, destructor | packets from the source's worker, files |
| writer base (`writer_base.*`) | stream map, first and last time stamps, time of the last write | `write_packet`, `make_output_streams`, `alternate_proper_audio_codec` | base of viewer and recorder; reads `input_ctx` |
| viewer data (`viewer_data.*`, `socket_utils.hpp`) | socket, SSL context, container | `init_io`, `setup_output`, `send_data`, `reset_io`, `finalize` | takes the socket over from mongoose |
| HTTP server (`src/server/http_server.cpp`) | `running`, `initialized`, `init_try_count`, thread, listener | `start`, `initServer`, `setup`, callbacks, destructor | calls `streamer_data::make_stream` |
| streamer (`src/streamer.cpp`, `streamer_data.hpp`) | map of sources, `running` | `add_source`, `remove_source`, `start`, `make_stream`, `get_source`, recording, seek, speed | owns sources and server |
| interrupt handler (`source/interrupt_handler.hpp`) | `running`, `elapsed`, `interrupt_count`, `timeout` | `set_context`, `on_packet`, `callback` | called back from inside FFmpeg's blocking calls |
| encoder cache and codecs (`source/codec/*`) | map of encoders with their last use, decoders, scalers, resamplers | `initialize`, `context`, `encode`, `prune`, `make_packets` | worker, viewer threads, recorder thread |
| utilities, FFmpeg wrappers, error codes | log settings | pure functions, wrappers | everybody |
| mongoose (`src/server/mongoose.*`) | vendored | | HTTP thread |

### What is hard, and what makes each part correct

* **Source.** Three threads change flags of which only some are under the
  mutex. Correct means: the stall decision does not overtake a new viewer or a
  new recording; a viewer is started exactly once; no thread loses its owner;
  the recorder lives inside a session; a stopped recording is closed; the
  destructor returns, and when it does nothing runs any more.
* **Viewer.** A condition variable with a predicate over a queue (under the
  mutex) and a flag (outside it). Correct means: packets in order, none twice,
  the queue bounded, no packet waiting for ever, destruction returning.
* **Recorder.** The same, and files that end while the queue is being drained.
  Correct means: order over queue, buffer and files, nothing lost but what a
  failure loses, every file with its trailer.
* **Writer base.** Time stamps that are made monotonic and relative, a timeout
  that counts from the last write. Correct means: dts strictly increase in each
  stream of a viewer; a recording begins at 0 and keeps distances; index bounds;
  no timeout without silence.
* **Local files.** The demuxer makes the stamps itself from position, speed and
  seek, and waits for the clock. Correct means: time never runs back for a
  client, a change of speed does not leap, playback does not outrun the time for
  which its source exists.
* **Viewer data.** Containers are tried in rotation over shared state; the
  socket changes hands between mongoose and the viewer. Correct means: some
  format that fits is found, and what is sent is what the header announced; a
  descriptor has one owner at a time and is closed by it alone.
* **HTTP server.** A start that is retried, a stop that races the poll loop and
  restarts by a detached thread. Correct means: shutdown terminates and leaves
  no thread behind.
* **Streamer.** A map without a lock between two threads, and a destructor that
  must stop the server before the sources go. Correct means: nobody uses a
  removed source.
* **Interrupt handler.** A timeout that must stop a hanging read and must not
  stop a fresh open.
* **Encoder cache.** An entry is dropped after disuse while another thread is
  between ensuring it and using it.

## Plan

Modules, in the order in which they were written; all exist.

1. `Source`, `SourceProofs` (the composition point: worker, HTTP thread,
   application, with the threads of viewers and recorder as life cycles).
2. `Viewer`, with the abstract `Pipe` it implements; `PipeProofs`,
   `ViewerProofs`.
3. `Recorder`, with the abstract `Recording` it implements; `RecorderProofs`.
4. `HttpServer`, `HttpServerProofs`.
5. `Timestamps`, `TimestampsProofs`: pacing, seek and speed of local files, and
   the stamps that viewers and recorders write.
6. `Requests`, `RequestsProofs`: connections, descriptors and requests, from
   mongoose through the callback and the viewers to the last `close`.
7. `Transcoding`, `TranscodingProofs`: how viewers come to a container and to
   encoders.

What is left, in this order: a composition of `Source` and `Recorder` in which
`record_options` change under a living recorder; one of `Source` and
`HttpServer` in which a blocked client stops the HTTP thread; the map of several
sources. Every safety property of a passing run has its theorem. Worth proving
next: that `Transcoding` and `HttpServer` implement abstract specifications of
their own, as `Viewer` and `Recorder` do.

## Modules and code

`PROJECT.json` maps every definition to its lines.

**`Source`** keeps one program counter per thread: `wpc` for the worker
(`start_worker`, `run`, `demuxer::run`, `on_open`, `on_packet`), `hpc` for the
HTTP thread inside `add_viewer`, `apc` for the application. Every access to a
flag that is shared without the mutex is a step of its own: `on_packet`'s test
of `!recording` (`Quiet`) and its `demuxing = false` (`Stall`) are two steps, so
are its test of `recording` and the reset or the start that follow
(`RecorderUnwanted` and `StopRecorder`, `RecorderWanted` and `StartRecorder`),
and so are the assignments of `start_recording` (`StartRecording`,
`StartedRecording`) and of the destructor (`Destroy`, `Interrupt`,
`JoinWorker`, `Freed`). `viewers` is the list as a set: nothing depends on its
order. A viewer object is its life cycle (`vstate`): initialised, thread
started, told to stop, returned; starting it twice is the assignment over a
joinable `std::thread` and ends the process (`crash = "terminate"`). Packets
are "how many did `make_packets` return", the two timers "has the threshold
passed".

`Exceptions` says what may throw: creating a thread, and storing a packet. An
exception that reaches the catch blocks of `start_worker` (`Unwind`) releases the
mutex and skips the end of `run()`: viewers, recorder and
`demuxer_initialized` stay as they are, the next `run()` opens an input over the
one they read (`InputGoes`, whose reader may crash) and starts the listed viewers
again. A viewer or recorder whose thread could not be created is there without
one (`"hollow"`). On the HTTP thread nobody catches it (`"uncaught"`).
`unwound` remembers that the last run ended so.

**`Viewer`** opens one viewer up: its owner (`opc`) offers packets and destroys
it, its thread (`pc`) sets the container up, waits and writes. A wait on the
condition variable is three steps: the predicate (`Check`), releasing the mutex
and sleeping (`Block`), and taking the mutex again once woken (`Lock`);
spurious wakeups are possible. Writing is its outcome: handed to the muxer,
ignored for want of an output stream, or failed (broken connection, or no write
for fifteen seconds).

**`Pipe`** is what a viewer promises: a bounded FIFO that drops when full,
delivers in order, and closes. `Viewer` states `IsPipe == Piped!Spec` with
`queue`, `sent` and `pc # "done"` for `buffer`, `delivered` and `open`.

**`Recorder`** has the same queue and wait, then for each packet the path of
`recorder::impl::run`: write or buffer, flush when the interval has passed,
check the limits, and on a limit flush, trailer and close. `recorded` holds
what `write_packet` took, each packet with the number of its file; `trailers` counts
trailers for each file. A packet whose stream has no output stream (`Unmapped`)
is ignored. An opening tries the formats in turn, the preferred one first
(`OpenFile`, `OpenFails`). With a path that names a regular file (`path`) the
name is the same each time but for the extension: a try truncates what an
earlier chunk left under its name and, if it fails, removes it (`Truncated`,
`Removed`; `lost` are the chunks gone that way). When the path itself is removed
so, the openings after it find no file there and go to new names (`path = 0`).
Every packet first passes `set_packet_times`, which asks the output for its time
base if the packet has no pts (`Untimed`), also when the packet is only batched.
Doing that, or writing, without an output is a null dereference (`TimesCrash`,
and `writer_base.cpp:48`): `pc = "crashed"`, after which the program takes no
step.

**`Recording`** is what a recorder promises: a log in files. Packets offered are
held (or dropped, when as many are held as the queue has room for), the oldest
held go to the current file and never behind its trailer (packets of streams
the file has no room for go nowhere), a new file begins only when every
earlier one has its trailer, and a file is destroyed only by an opening, done or
failed, and only while there is a defined file (`Destroy`). `Recorder` states
`IsRecording == Logged!Spec` with `rec_buffer \o Waiting`, `recorded` and the files
with a trailer for `held`, `log` and `sealed`: the thread, the mutex, the write
interval and the way from the queue to the buffer are what the refinement hides.
A crash, which loses what is held, is part of the promise, since the code does
crash.

**`HttpServer`** follows `http_server::start`, `initServer` and `~impl` over
three threads: the application (`apc`), the worker (`pc`) and the detached
restarter (`rpc`). One round of `initServer` is `Setup`, from freeing the old
manager to the new one; `GiveUp` is the return when the tries are used up.
`worker` distinguishes a `std::thread` that is assigned from one whose thread
already runs. Joining what cannot be joined (`Terminate`) and using the freed
`pimpl` (`Dangle`) end the program. Requests do not touch this state; they are
in `Requests`.

**`Timestamps`** is one session after another of one input, a file (`local`) or
a live source, with stamps of its own or without (`timed`). The demuxer's loop
is `at`: a seek is two steps (`Seek`, and `ClearSeek`, which stores -1 over
whatever was requested meanwhile), and the application requests seeks and
speeds at any moment. `ReadLocal` is a packet of a file through `apply_speed`,
`analyze` and `parse_local_file_packet`; `ReadLive` is any packet of a live
source. A packet without stamps gets those that count the frames only if the
frame has a duration (`frame`): audio has none, and video none if its rate is
unknown, so that these go on without stamps and unpaced. Both reads end in the
writers, one viewer and one recorder (`w`, `out`); the recorder's packet is dated
first where it has no pts (`Dated`, `set_packet_times`). The arithmetic is
`av_rescale_q` in integers of a fixed width, to the output's time base, whatever
its ratio to the input's (`Rescaled`), and to microseconds (`Micros`). Whether the demuxer
waits is `should_present_faster` against the clock `elapsed` (`Tick`).

**`Requests`** follows a descriptor. A client's connection (`conn`, `sock`,
`inbox`) belongs to mongoose; a request for a stream hands it over to a viewer
(`vsock`, with https `ssl` to `vssl`), which writes to it, closes it when a
write fails, and again when it is dropped. The HTTP thread (`hpc`) polls, calls
the handlers, closes and frees as mongoose does; a request without its body is
delivered late, when the connection closes. `phase` is `~streamer`: the server
first, then the sources. A worker that leaves its loop before the server has
connected to itself (`initialized`), which with plain http is every one, is
followed by another that frees the manager of the first (`Restart`, `clearing`,
`Setup`); so the destructor may find no worker to join, go on, and be met by one
that comes `late`, whose poll hands requests to sources that are destroyed.
Descriptors are given out again, the lowest first, so that a number used after
its `close` may be somebody else's (`stray`).

**`Transcoding`** follows a viewer's thread through `setup_output` statement by
statement where these touch `sd->container`, `sd->view_encoding.audio.codec` or
the encoders, none of which belong to the viewer; and the worker through its
sessions (`session`), since its `on_open` sets that codec before it takes the mutex
and then starts who is listed, whether or not `add_viewer` has started it already.
`Inputs` describes the source: which containers take its video and its audio,
which encoders cannot be opened (`broken`), and which the build does not have
(`lacking`). What `avformat_query_codec` names (`Takes`), by which codecs are
chosen, and what `avformat_write_header` lets in (`Accepts`) are different
things. An encoder is there or not, and in use or idle for ten seconds.

`MCSource`, `MCViewer`, `MCRecorder`, `MCTimestamps`, `MCRequests` and
`MCTranscoding` instantiate these for TLC; `HttpServer` needs no definitions of
its own.

## Runs

Passing runs:

| run | shows |
|---|---|
| `source_safety` | with two viewers coming and going, two sets of options and exceptions wherever a thread is created or a packet stored: a source with viewers goes on demuxing (`WaitingViewersKeepDemuxing`), no recorder is there when the input it reads is replaced, unless an exception left the last run (`RecorderWithinSession`), no viewer thread loses its owner (`ViewerThreadsOwned`), nothing runs after the destructor (`NothingLeftRunning`), a viewer being served is never erased (`ServedViewersAreKept`) |
| `source_progress` | without exceptions: a stop is honoured (`StopHonoured`), a waiting viewer is started or dropped (`WaitingViewersResolved`), an unwatched source stalls (`UnwatchedSourceStalls`), a recording begins (`RecordingBegins`) |
| `viewer_pipe` | the viewer implements `Pipe` (and so sends in order), never strands a packet |
| `recorder_files` | with and without a write interval, to chunks and to a defined file, which openings may destroy: order over queue, buffer and files (`InOrder`), a trailer for every file (`FilesAreSealed`), the whole a log in files, with nothing lost between the stages (`IsRecording`), no packet stranded (`PacketsFlow`) |
| `http_server` | plain and https, with attempts and test connections failing and destruction at any moment: one worker at a time (`OneByOne`), never without a manager (`ManagerWhilePolling`), tried again until it works (`RetriesUntilInitialized`), destroyed cleanly while nothing restarts it (`CrashNeedsRestart`, `DestructionReturns`) |
| `timestamps` | files and live sources, with stamps and without, seeks and speeds between any two packets: the video of a file does not leap when the speed changes (`NoLeap`), since its last seek a file is not played for longer than its source exists, but for the packet under way (`PlayedWithinClock`), viewers get increasing dts (`ViewAdvances`), a recording begins at 0 and keeps distances (`RecordedTimeline`) |
| `requests` | two clients, plain and https, with two requests each, pipelined, late or refused, during restarts, removal and destruction: a descriptor has one owner (`OneOwner`), without SSL nobody touches another's (`OwnDescriptors`) |
| `requests_progress` | whatever a client asked for, once it has gone its descriptor is closed (`Released`) |
| `transcoding` | two viewers and five kinds of sources, over sessions that open under their set-ups: what is served was announced until an attempt has failed (`Understood`), a missing encoder needs a second viewer, an opening or disuse (`CrashNeedsCompany`), a container that fits is found (`FormatFound`) |

The other runs each show one statement of the repository that the code does not
keep; see [below](#what-the-checks-found). Every property of a passing run has a
mutant: a plausible bug in the mapped code under which TLC finds the property
violated. The mutated forms stand in the modules, just before what they mutate.

## Bounds

* `Source`: two viewer identities (reused after destruction), which is what it
  takes for one to arrive while another is erased or waits; two sets of
  options, so that one can replace the other; `MaxBatch = 2`, because the loop
  over the transcoder's packets matters from its second round on; both kinds of
  `Exceptions`. Liveness is checked with one viewer, one set of options,
  `MaxBatch = 1` and no exceptions: its properties speak of one viewer or of the
  recorder, and with exceptions TLC does not finish in reasonable time. Nothing
  else is bounded: flags and timers are finite.
* `Viewer` and `Recorder`: `Capacity = 2` for the code's 256 and four packets,
  so that the queue fills, drops, drains and fills again; packet 2 belongs to
  an unmapped stream, and packet 3 has no pts. `Formats = 2` for the code's
  seven: one that fails and one after it. The recorder's number of files is
  bounded by the packets.
* `HttpServer`: `MaxTries = 3` for the code's 200: fewer rounds than tries, as
  many, and one more.
* `Timestamps`: three packets to a session (`MaxPackets`), which is what a change
  of speed and a seek need around them; positions to 4, stamps to 2, two clock
  ticks, audio and video at most `Interleave = 2` apart; integers between -64 and
  64 (`Half`), which the untimed stamps of a live source overflow; frames of two
  ticks or of unknown length; audio ticks as long as the video's or twice as
  long; two output ticks to three of the input, so that rescaling rounds, and
  three microseconds to two ticks. `Span = 4` and
  `Reach = 12` are not bounds of the exploration but what the bounds above come
  to: the furthest stamp of a file from 0, and the longest distance of two under
  the slowest speed.
* `Requests`: two clients and two descriptors, so that a number is reused while
  its last owner still writes; `MaxRequests = 2` for a pipelined one. The clients
  are symmetric, which is sound for the invariants checked. `Released`
  is checked without symmetry, with one client and three requests: it speaks of
  one connection.
* `Transcoding`: two viewers, two codecs of four, all three containers. The
  sources are those that differ in what fits: the video in the last container
  only that is tried, everything as it is, audio that MPEG-TS accepts without
  naming it, and audio that must be encoded when an encoder is broken or
  missing.

What holds in these instances for any size is the subject of the proofs.

## Fairness

* Every thread that can take a step takes one in the end (weak fairness of the
  thread), and a `std::mutex` serves its waiters (strong fairness of taking
  it). The standard promises neither; schedulers do.
* In `Source`, of the input: an open retried for ever succeeds in the end, a
  read that goes on yields packets, and a read is given up once the interrupt
  callback says so. Of the transcoder: it does not swallow every packet. Of the
  clocks: they advance. `UnwatchedSourceStalls` and `RecordingBegins`
  moreover assume `SteadyInput`: the five-second checks are only reached in
  sessions that last five seconds. Where exceptions are possible, all but
  `WaitingViewersResolved` also assume that they end some time (`Settled`).
* Clients and the application owe nothing: a viewer may fail or block, a
  recording may never be stopped.
* `ThreadsReturn`, a separate assumption that only `ReturningSpec` adds: a
  thread that was told to stop returns, a blocked `send` ends. The models of
  viewer and recorder show that the code does not guarantee it by itself (lost
  wakeup), so it is named and not built in.
* Nobody owes a waiting thread a spurious wakeup.
* In `Requests` the HTTP thread visits every connection that has something to say
  (strong fairness of a visit: `mg_mgr_poll` goes round), a viewer's write to a
  client that has gone fails in the end (a blocked `send` does, once the peer
  has reset), a restarted worker that can free the old manager does in the end
  (strong fairness of `Setup`), and `~streamer` goes on once begun. Clients owe nothing.
* In `Transcoding` a thread goes on, a client that was refused asks again, and an
  open input has packets. `FormatFound` assumes that from some time on the input
  is open and nobody waits for it, set-ups do not overlap, and clients wait for
  their answer (`Calm`): without it the property is false, see below.
* `Timestamps` states safety alone.
* In `HttpServer` a poll resolves the pending connection, either way; nobody has
  to destroy the streamer.

## Proofs

TLAPS checks every theorem for all values of the constants. Assumptions are the
`ASSUME`s of the modules: capacities and batch sizes are positive naturals,
the default options are not among those an application passes, the unmapped
packets are among the packets offered. `Timestamps` has one more,
`RoomAssumption`: the stamps of a file, their distances at the slowest speed and
the sum of a session's distances stay inside the integers. The code's integers
have 64 bits and its ticks are microseconds or the like, so that a session
would have to last for many thousand years to break it; it is assumed of files
and of live sources that bring stamps, while a live source without them
(`timed = FALSE`) may bring any.

* **`SourceProofs`**: `TypeCorrect`, `ViewersKeepDemuxing`, `RecorderInSession`,
  `ThreadsOwned`, `DestructionIsClean`, `ServedKept`, for any set of exceptions.
  None of the invariants is inductive by itself. `Inv` adds to `TypeOK`: which
  program points of the worker lie inside a session, unless an exception left
  the last one (`SessionInv`: a run that ends in order resets a recorder, its
  own or an older one, before `demuxer_initialized`); that while the worker is
  about to stall, holding the mutex, the list is empty (`ListInv`: that is why
  the decision cannot overtake a viewer); that every viewer object is owned by the
  list or by the HTTP thread, and by one of them only (`OwnerInv`); and what the
  destructor has joined (`DestroyedInv`). Each thread's actions preserve it in
  a lemma of its own.
* **`PipeProofs`**: `PipeDeliversInOrder`. The strengthening says that everything
  in the pipe was offered before `next` and states order by positions.
* **`ViewerProofs`**: `TypeCorrect`; `ViewerImplementsPipe` (`Spec => IsPipe`:
  a push offers, a write delivers or skips, the end of the thread closes, every
  other step stutters; the invariant excludes an owner that offers before it
  started); and `SendsInOrder`, which carries the pipe's invariant over along
  the refinement.

* **`RecorderProofs`**: `TypeCorrect`, `Sealed`, `PacketsInOrder`,
  `PacketsAreKept`, `RecorderImplementsRecording`. `ControlInv` relates owner and
  thread (a packet is being dealt with only if the queue is not empty, a file
  has been opened before the queue is looked at). `SealInv` is `FilesAreSealed`
  in two parts, inductive on top of the types. `OrderInv` is order stage by
  stage: each of queue, buffer and files is increasing, everything recorded is
  older than everything buffered, and both are older than what still waits,
  which is all of the queue or all but its head. Each way a packet moves
  preserves it in a lemma of its own, and `LineInOrder` joins the stages to the
  sequence `InOrder` speaks of. For `PacketsAreKept`, `TakenInv`: from the moment
  a packet is dealt with until it is popped, the head of the queue is in the
  buffer or in a file that was not destroyed since; so popping loses nothing, and
  what is lost went with a defined file. (Its `NothingVanishes` is what
  remains of `IsRecording` when order and trailers are left out, so that TLC
  checks only the latter.) For the refinement, `TrailInv`:
  while files are written to, the open one has no trailer (so nothing is
  written behind one), and `OrderInv` (without a write interval the buffer is
  empty, so the packet written directly is the oldest held). `HeadJoined` and
  `CutJoined` say that what is held is the same sequence when its parts are cut
  elsewhere. Buffering stutters, `write_buffer` of k packets is `Write(k)`, and
  the end of a file, of the thread or of the recorder is `Seal`.

* **`HttpServerProofs`**: `TypeCorrect`, `PollsManager`, `WorkersOneByOne`,
  `CleanWithoutRestart`. `ManagerInv`: from the first attempt on there is a
  manager. `SuccessionInv`: between its join and its start the restarter is
  alone. `OwnerInv` relates the `std::thread` to the application's steps as long
  as no restarter was begun: that is what makes the join in the destructor
  reliable.

* **`TimestampsProofs`**: `TypeCorrect` for every width, speed and time base, by
  a lemma for each arithmetic helper (rescaling, wrapping and clamping yield
  integers); `ViewersAdvance`, for which the invariant relates a writer's
  `last_dts` to the packet it wrote last, `NoPts` included; `FilesDoNotLeap`,
  `FilesWithinClock` and `RecordingsKeepTime`, for any file, seeks, speeds and
  ratios of the output's ticks to the input's. Their hypotheses are part of the
  properties: packets with stamps, their own or those that count the frames
  (`HasStamps`, for the clock `timed`), and in the first two audio ticks at least
  as fine as the video's with stamps of 0 and more, or equal to them (`FineAudio`).
  Without the second the leap is real, see below. `FilesWithinClock` bounds what
  was played since the last seek by the whole age of the source, not by the time
  since that seek: the code never restarts the clock, so no better bound holds.
  The arithmetic is non-linear (a distance is multiplied by one
  part of a speed and divided by the other) and rests on lemmas that say what
  rounding may do: it keeps order, and a sum of rounded parts is at most the
  rounded whole. `FileInv` bounds the demuxer's state by what it has read, so
  that no operation wraps; it also says that `dts_offset` never passes the last
  dts, which is why the `last_dts + 1` of `apply_speed` advances the video.
  `ContinuesInv` says where a change of speed, met first by video or by audio,
  puts the start of the new scale: no later than the video's last packet.
  `PacedInv` adds `PlayedWithinClock` to both. `RecordInv` says that every packet
  of a recording stands as far from its first as it came, clamped at 0.
* **`RequestsProofs`**: `TypeCorrect`, `DescriptorsOwned`, `PlainKeepsToItself`,
  over restarts of the server too. `QueueInv` bounds what waits on a connection
  together with what was made of it (a request is there while it is answered);
  `FreshInv`: a viewer not made yet has no socket to overwrite; `EndInv`: what the
  HTTP thread frees it has closed before; `PlainInv`: without SSL nobody holds a
  number but by its socket, which is reset when it is closed.
* **`TranscodingProofs`**: `TypeCorrect`, `NoCrashAlone`, `ServedAsAnnounced`,
  for any number of viewers, codecs and sources, and whatever a container names
  or lets in. `AloneInv`: as long as none overlapped, one set-up at most is under
  way; `EncoderInv`: it then finds what it made; `AgreeInv`: until an attempt
  fails or an `on_open` meets a viewer that is ahead of it, everybody has the
  preferred container, and the codec is the one that every set-up comes to
  (`Common`) unless somebody has just reset it. A viewer that reads the codec
  while another has reset it announces the source's own audio, which the header
  may well let in: that is the exception in `Understood`, and what
  `CopiedIsRemuxed` shows.

Only model-checked: liveness. `StopHonoured`, `WaitingViewersResolved`,
`UnwatchedSourceStalls` and `RecordingBegins` of `Source`, `PacketsFlow` of `Viewer`
and `Recorder`, `RetriesUntilInitialized` and `DestructionReturns` of `HttpServer`,
`Released` of `Requests` and `FormatFound` of `Transcoding` need fairness, which the
installed provers do not reason about. For the same reason `IsPipe` and
`IsRecording` are refinements of safety specifications.

## What the checks found

Each line is a run that TLC must violate; `PROJECT.json` quotes the statement
that fails and explains the cause.

| run | what happens |
|---|---|
| `source_double_start` | a client that arrives while the input is being opened is started twice: `std::terminate` |
| `viewer_destruction` | lost wakeup: the flag changes and the notification is sent without the mutex, so `join()` may never return |
| `recorder_rotation` | the file is closed inside the loop over the queue: the next packet is written through a null output |

Six more statements that the code does not keep stand at the end of `Source`,
`Recorder` and `Transcoding`; a configuration that names one of them gives the
counterexample. `AddedClientIsServed`: a client that arrives in the stalled end
of a session is listed, never started, and erased by the next packet.
`RecordingRequestHonoured`: `start_recording` between the test and the store of
the stall decision leaves recording on, and nothing records.
`DestructionReturns` of `Source`: the interrupt flag is armed again by an open
after the destructor cleared it, and `~source` hangs. `BufferReachesDisk`:
stopping drops the packets buffered for the write interval.
`CopiedIsRemuxed`: of two viewers that set up at once over MPEG-TS, one reads the
codec that the other has just reset, announces the source's own audio, which the
header lets in, and is sent what is encoded for the other (`writer_base.cpp:129`
says that the input's parameters are copied only to remux). `CustomIsServed`: the
codec of `audio_encoding` ("custom stream encoding for video and audio",
`README.md:12`) is never used, since `try_setup_output` resets it
(`viewer_data.cpp:174`).

More are in the models as actions or as the exceptions of properties. A recorder that failed
is reset inside the loop that goes on using it (`Record`, `crash =
"null_recorder"`); `remove_source` frees a source the HTTP thread is using
(`HttpDangling`); a recorder that reaches a limit with a defined file opens the
same file again and truncates it, and a format that fails removes it
(`OpenFile`, `OpenFails`, the exception in `NothingVanishes`); a packet without a pts
that meets a recorder between two files asks the output that is not there for its
time base (`TimesCrash`). An exception out of `run()` leaves viewers and recorder
reading an input that the next session replaces (`InputGoes`), and the next
`on_open` starts those viewers once more. The recorder has the viewer's lost wakeup, too.
A recording that is stopped and started with other options within five seconds
goes on under the old ones (`recoptions`). `initialized` is only ever set with
https, so that a plain server leaves its loop into `Finish` with a restarter,
and `~streamer` meets it: two joins of one thread, or the use of the freed
server (`Terminate`, `Dangle`). When the tries are used up by failed binds, the
worker polls a manager without a listener for ever (`GiveUp`).

From `Timestamps`: audio uses the speed state of the video's stream
(`demuxer_data.hpp:70`), so that with audio ticks coarser than the video's a
change of speed makes the video leap (`FineAudio` is the condition under which
it does not; finer ticks are no better where stamps are below 0). In a file
whose stamps begin late the first packet waits for the clock, or leaps, by as
much (`Beginning`, and the first packet in `NoLeap`): both exceptions came out of
attempts at the proofs. After a seek backwards every stamp is the last plus one, and the
file plays unpaced until it has caught up. `demuxer_data::reset` leaves
`local_file` alone: after a reopen playback is as fast as it can. A seek requested
during a seek is lost (`demuxer.cpp:87-91`); `set_speed(0)` is not excluded
(`source.cpp:260`). A file without stamps whose frame rate is unknown is sent
without any, and unpaced. And, not in the model: the recorder
takes the source's own audio packets for encoded ones as long as the viewers'
audio is encoded (`writer_base.cpp:53`), and rescales them from the time base
0/1.

From `Requests`: with https the viewer keeps its SSL context after a failed write
closed the descriptor, and `SSL_shutdown` writes to whoever has the number by
then (`stray`). `close_socket` repeats `close` until it succeeds. A second,
pipelined request for a stream makes a viewer without a socket. A request whose
body never comes is answered when its connection closes. Connections that never
ask are kept for ever. `remove_source` frees what `make_stream` has just looked
up (`AddToNothing`); and when a restarted worker comes after `~impl` has passed its
join (`late`), its last poll hands requests to sources that are destroyed.

From `Transcoding`: once an attempt has failed, and a client that leaves
during its set-up is enough, the rotation changes container and codec under the
viewers that are being served; `finalize` then looks at another container than
the viewer's. Attempts that overlap move on together and may skip a format for
ever. An encoder that is pruned between `initialize` and `context` is a null
dereference (`crash = "context"`); one that is pruned while nothing is encoded is
not made again for the viewers that are there, whose audio then stays away. The
search for another codec asks for the id of an encoder that the build may lack
(`writer_base.cpp:186`, `crash = "encoder"`). And `on_open` rewrites the codec before
it takes the mutex, under a viewer that `add_viewer` has started meanwhile
(`reopened`), and then starts that viewer again (`crash = "twice"`).

## What is not modelled

* Media data: decoding, encoding, scaling, resampling, and what FFmpeg does
  inside a call. Calls are their outcomes. `decoder.cpp`, `scaler.cpp` and
  `resampler.cpp` are little else, and `ffmpeg_types.hpp` wraps ownership.
* The timers of FFmpeg's interrupt callback and of a writer's fifteen seconds:
  single timers of one thread, which the models allow to expire at any time.
* The video encoder, whose configuration `on_open` fixes for a session; it takes
  the audio encoder's path.
* Changes of `record_options` under a living recorder inside `Recorder` (the
  interval is a constant); `Source` models the change itself.
* The recorder's own trial of containers, in a row within one thread.
* In `Source`, `demux_data`'s own state when an exception skips its reset; in
  `Recorder`, exceptions of the file system and what the user's file held before;
  exceptions in the sessions of `Transcoding`.
* In `Requests`, what two threads do to one manager at once: that is `HttpServer`'s
  crash.
* In `Timestamps`, packets whose stamps overflow in a file (`RoomAssumption`).
* Several sources in one streamer, and the authentication callback.
* The chunk name, which repeats if two files begin within a second (the second
  then truncates the first), and the
  effect of a second trailer on the last file.
* The pure functions (`query_value`, `format_string`, resolutions), logging, the
  examples and the build.
* mongoose beyond the life of an HTTP connection. Most of the repository's lines
  are this vendored library (22 400 of 27 700), of which the program uses a
  small part; the share of lines the models cover is low for that reason.
