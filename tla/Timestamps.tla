----------------------------- MODULE Timestamps -----------------------------
(***************************************************************************)
(* The time stamps of packets on their way from the input through the     *)
(* demuxer (demuxer_data.hpp) to a viewer's and a recorder's muxer         *)
(* (writer_base.cpp), with the pacing of local files, seeks and speed      *)
(* changes.  Times are numbers of ticks of the video stream, those of the  *)
(* clock microseconds; conversions are modelled with their rounding.       *)
(*                                                                         *)
(* Streams are "video" and "audio".  For a local file both go through      *)
(* apply_speed with the state of the video stream, the audio in its own    *)
(* ticks: last_dts, first_dts, dts_offset and last_speed exist once.  A    *)
(* live input's streams do not touch each other: its "video" stands for    *)
(* either, an audio stream being one without a frame rate.                 *)
(***************************************************************************)
EXTENDS Integers

CONSTANTS
    Half,       \* the least integer is -Half: 2^63 in the code
    Start,      \* position before the first packet: dts may begin below 0
    MaxPos,     \* bound: positions in the file
    MaxStamp,   \* bound: stamps of a live input
    MaxPackets, \* bound: packets in a session
    MaxElapsed, \* bound: of the clock
    Steps,      \* bound: distances of two packets of a file
    Interleave, \* bound: positions from one video packet to the next
    Seeks,      \* bound: positions an application seeks
    Speeds,     \* bound: speeds <<n, d>> an application sets, n/d
    Ratios,     \* bound: audio ticks <<n, d>> in a video tick
    FrameTimes, \* bound: ticks of a frame, 0 if its rate is unknown
    Output,     \* ticks <<n, d>> of the output in one of the input
    Micro,      \* microseconds <<n, d>> in a tick of the video
    Dates,      \* bound: times into a file in ticks, taken for nanoseconds
    Span,       \* bound: stamps of a file, either way
    Reach       \* bound: distances of two of them under any speed

ASSUME TimestampsAssumption ==
    /\ {Half, MaxPos, MaxStamp, MaxPackets, Interleave} \subseteq Nat \ {0}
    /\ Start \in Int /\ MaxElapsed \in Nat
    /\ Steps \subseteq Nat \ {0}
    /\ Seeks \subseteq Nat /\ FrameTimes \subseteq Nat /\ Dates \subseteq Nat
    /\ Speeds \cup Ratios \cup {Output, Micro} \subseteq (Nat \ {0}) \X (Nat \ {0})

Streams == {"video", "audio"}
Writers == {"view", "record"}
NoPts == -Half   \* AV_NOPTS_VALUE
Normal == <<1, 1>>

\* The positions of the packets of a file, and 0, where first_dts begins.
Places == (IF Start < 0 THEN Start ELSE 0)..MaxPos

\* The stamps of a file stay far from the least integer, whatever the speed.
ASSUME RoomAssumption ==
    /\ {Span, Reach} \subseteq Nat \ {0} /\ Reach < Half
    /\ \A r \in Ratios \cup {Normal}, t \in Places :
           (t * r[1]) \div r[2] \in -Span..Span
    /\ \A v \in Speeds \cup {Normal} : 2 * Span * v[2] <= Reach * v[1]

VARIABLES
    local,      \* demuxer_data::is_local
    timed,      \* every packet has pts and dts; raw files have none
    ratio,      \* audio ticks in a video tick
    frame,      \* stream_data::duration of the video; the audio's is 0
    at,         \* where the demuxer's loop is
    seek_time,  \* local_file_data::seek_time
    speed,      \* local_file_data::playback_speed
    pos,        \* position in the file
    raw,        \* where the last video packet was, or the last seek led
    frames,     \* stream_data::frames of either stream
    last_dts, first_dts, dts_offset, last_speed, \* video_stream
    lf,         \* local_file_data: last_dts, seek_dts, seeked
    elapsed,    \* local_file_data::elapsed
    w,          \* writer_base: first_pts and last_dts of writer and stream
    out,        \* the packet last written if any, with the pts it came with
    count       \* packets of this session

input == <<local, timed, ratio, frame>>
requests == <<seek_time, speed>>
video == <<last_dts, first_dts, dts_offset, last_speed>>
written == <<w, out>>
vars == <<input, at, requests, pos, raw, frames, video, lf, elapsed, written, count>>

\* make_output_streams: the arrays are filled with -1.
Fresh == [s \in Streams |-> [first_pts |-> -1, last_dts |-> -1]]
Empty == [s \in Streams |-> {}]

FramesKept == frames \* mutation: reset() forgets the frames
NoFrames == [s \in Streams |-> 0]

Init ==
    /\ local \in BOOLEAN /\ timed \in BOOLEAN
    /\ ratio \in IF local /\ timed THEN Ratios ELSE {Normal}
    /\ frame \in FrameTimes
    /\ at = "loop"
    /\ seek_time = -1 /\ speed = Normal
    /\ pos = Start /\ raw = Start
    /\ frames = [s \in Streams |-> 0]
    /\ last_dts = 0 /\ first_dts = 0 /\ dts_offset = 0 /\ last_speed = Normal
    /\ lf = [last_dts |-> 0, seek_dts |-> 0, seeked |-> FALSE]
    /\ elapsed = 0
    /\ w = [c \in Writers |-> Fresh] /\ out = [c \in Writers |-> Empty]
    /\ count = 0

-----------------------------------------------------------------------------
(* Arithmetic.                                                             *)

\* Division towards zero, as a cast of a double does it.
Trunc(a, b) == IF a >= 0 THEN a \div b ELSE -((-a) \div b)

\* Division to the nearest, halves away from zero (AV_ROUND_NEAR_INF).
Nearest(a, b) == IF a >= 0 THEN (2 * a + b) \div (2 * b)
                           ELSE -((2 * (-a) + b) \div (2 * b))

\* av_rescale_q_rnd with AV_ROUND_PASS_MINMAX.
Rescaled(x) == IF x = NoPts THEN NoPts ELSE Nearest(x * Output[1], Output[2])

\* av_rescale_q to microseconds.
Micros(x) == Nearest(x * Micro[1], Micro[2])

-----------------------------------------------------------------------------
(* The demuxer's view of a packet: demuxer_data::on_packet.                *)

SpeedChanged == last_speed # speed

FirstKept(dts) == first_dts      \* mutation: first_dts stays
FirstDts(dts) == IF SpeedChanged THEN dts ELSE first_dts

Offset == IF SpeedChanged THEN last_dts ELSE dts_offset

\* The stamp under the speed.  Without a stamp a stream has pts and dts
\* NoPts; (NoPts - 0) * 1.0 is NoPts again, NoPts - NoPts is nothing.
Sped(dts) == IF dts = NoPts /\ FirstDts(dts) # NoPts THEN NoPts
             ELSE Offset + Trunc((dts - FirstDts(dts)) * speed[2], speed[1])

Monotonic(dts) ==
    IF dts # NoPts /\ dts <= last_dts THEN last_dts + 1 ELSE dts

\* apply_speed: the dts of a packet, and the packet.
Base(p) == IF p.dts < 0 THEN p.pts ELSE p.dts
SpeedApplied(p) ==
    LET dts == Monotonic(Sped(Base(p))) IN
    [pts |-> IF p.pts = NoPts /\ dts = NoPts THEN NoPts
                                             ELSE dts + (p.pts - Base(p)),
     dts |-> dts, duration |-> 0]

Duration(s) == IF s = "video" THEN frame ELSE 0

\* analyze: a packet without pts counts the frames, if their rate is known.
Analyzed(s, p) ==
    IF p.pts = NoPts /\ Duration(s) > 0
    THEN LET t == (frames[s] + 1) * Duration(s)
         IN  [pts |-> t, dts |-> t, duration |-> Duration(s)]
    ELSE p

\* parse_local_file_packet.
Parsed(p) ==
    LET t == Micros(IF p.dts # NoPts THEN p.dts ELSE p.pts)
    IN  [last_dts |-> t, seeked |-> FALSE,
         seek_dts |-> IF lf.seeked THEN t ELSE lf.seek_dts]

ShouldWait == lf.last_dts - lf.seek_dts > elapsed

-----------------------------------------------------------------------------
(* The muxer's: writer_base::write_packet.                                 *)

\* The recorder gives a packet without pts the time into the file.
Dated(t, p) == IF p.pts # NoPts THEN p
               ELSE [pts |-> t, dts |-> NoPts, duration |-> 0]

\* It does not touch a packet with a pts alone.
UntouchedDts(p) == p.pts >= 0 /\ p.duration = 0 \* mutation: whatever its dts
Untouched(p) == p.pts >= 0 /\ p.dts = NoPts /\ p.duration = 0

FirstPts(s, pts) ==
    IF w["record"][s].first_pts = -1 THEN pts ELSE w["record"][s].first_pts

Clamped(x) == IF x < 0 THEN 0 ELSE x

\* The last two fix-ups.
IncreasedLess(last, dts) == \* mutation: < instead of <=
    IF dts # NoPts /\ dts < last THEN last + 1 ELSE dts
Increased(last, dts) == IF dts # NoPts /\ dts <= last THEN last + 1 ELSE dts

\* What the viewer's writer makes of packet p of stream s: its new state, and
\* the packet.
Viewed(s, p) ==
    LET q   == Rescaled(p.pts)
        dts == Increased(w["view"][s].last_dts, Rescaled(p.dts))
    IN  [state  |-> [w["view"][s] EXCEPT !.last_dts = dts],
         packet |-> [pts |-> IF dts # NoPts /\ q < dts THEN dts ELSE q,
                     dts |-> dts, src |-> q]]

\* And the recorder's: pts count from the first, dts are left to the muxer.
Recorded(s, p) ==
    LET q     == IF Untouched(p) THEN p.pts ELSE Rescaled(p.pts)
        first == IF Untouched(p) THEN w["record"][s].first_pts ELSE FirstPts(s, q)
    IN  [state  |-> [first_pts |-> first, last_dts |-> NoPts],
         packet |-> [pts |-> IF Untouched(p) THEN q ELSE Clamped(q - first),
                     dts |-> NoPts, src |-> q]]

Write(s, p) ==
    \E t \in Dates :
      LET v == Viewed(s, p)
          r == Recorded(s, Dated(t, p))
      IN  /\ w' = [w EXCEPT !["view"][s] = v.state, !["record"][s] = r.state]
          /\ out' = [out EXCEPT !["view"][s] = {v.packet},
                               !["record"][s] = {r.packet}]

-----------------------------------------------------------------------------
(* The application and the clock.                                          *)

\* streamer::seek, streamer::set_speed.  For a live input they are stored,
\* and nothing reads them.
RequestSeek ==
    /\ local
    /\ seek_time' \in Seeks
    /\ UNCHANGED <<input, at, speed, pos, raw, frames, video, lf, elapsed, written, count>>

SetSpeed ==
    /\ local
    /\ speed' \in Speeds
    /\ UNCHANGED <<input, at, seek_time, pos, raw, frames, video, lf, elapsed, written, count>>

Tick ==
    /\ local
    /\ elapsed < MaxElapsed
    /\ elapsed' = elapsed + 1
    /\ UNCHANGED <<input, at, requests, pos, raw, frames, video, lf, written, count>>

\* The recorder begins a file.  (A viewer that joins has the state of one that
\* was there when the session began.)
NewFile ==
    /\ w' = [w EXCEPT !["record"] = Fresh]
    /\ out' = [out EXCEPT !["record"] = Empty]
    /\ UNCHANGED <<input, at, requests, pos, raw, frames, video, lf, elapsed, count>>

-----------------------------------------------------------------------------
(* The demuxer's loop: demuxer::run, process_next_packet.                  *)

SeekedNot == FALSE \* mutation: seek_to() does not set seeked
SeekedNow == TRUE

\* seek_to: to the key frame before the time, or nowhere if it fails.
Seek ==
    /\ at = "loop" /\ local /\ seek_time > -1
    /\ pos' \in {seek_time, pos} /\ raw' = pos'
    /\ lf' = [lf EXCEPT !.seeked = SeekedNow]
    /\ at' = "clear"
    /\ UNCHANGED <<input, requests, frames, video, elapsed, written, count>>

\* st.store(-1), whatever it holds by now.
ClearSeek ==
    /\ at = "clear"
    /\ seek_time' = -1
    /\ at' = "loop"
    /\ UNCHANGED <<input, speed, pos, raw, frames, video, lf, elapsed, written, count>>

\* Without a seek to make, and not ahead of the clock, it reads.
Reads ==
    /\ at = "loop"
    /\ local => seek_time = -1 /\ ~ShouldWait

Ticks(s, t) == IF s = "video" THEN t ELSE (t * ratio[1]) \div ratio[2]

\* A packet of the file.  Corrupt packets and those of other streams only make
\* the step longer.
ReadLocal(s, step, cts) ==
    /\ Reads /\ local
    /\ count < MaxPackets /\ pos + step <= MaxPos
    /\ pos + step - raw <= Interleave
    /\ LET dts == IF timed THEN Ticks(s, pos + step) ELSE NoPts
           in  == [dts |-> dts, pts |-> IF timed THEN dts + cts ELSE NoPts,
                   duration |-> 0]
           p   == Analyzed(s, SpeedApplied(in))
       IN  /\ first_dts' = FirstDts(Base(in))
           /\ last_dts' = IF s = "video" THEN p.dts ELSE last_dts
           /\ lf' = IF s = "video" THEN Parsed(p) ELSE lf
           /\ Write(s, p)
    /\ dts_offset' = Offset /\ last_speed' = speed
    /\ frames' = [frames EXCEPT ![s] = @ + 1]
    /\ pos' = pos + step
    /\ raw' = IF s = "video" THEN pos + step ELSE raw
    /\ count' = count + 1
    /\ UNCHANGED <<input, at, requests, elapsed>>

\* A packet of a live stream, with any stamps; the streams of a live input
\* do not touch each other's state.
ReadLive(p) ==
    /\ Reads /\ ~local
    /\ count < MaxPackets
    /\ timed => p.pts # NoPts /\ p.dts # NoPts
    /\ LET q == Analyzed("video", p)
       IN  last_dts' = q.dts /\ Write("video", q)
    /\ frames' = [frames EXCEPT !["video"] = @ + 1]
    /\ count' = count + 1
    /\ UNCHANGED <<input, at, requests, pos, raw, first_dts, dts_offset, last_speed, lf, elapsed>>

\* The file ends or the read fails: the source drops its viewers and its
\* recorder, resets the streams and opens the input again.  demuxer_data::reset
\* leaves local_file alone.
Reopen ==
    /\ Reads
    /\ pos' = Start /\ raw' = Start
    /\ frames' = NoFrames
    /\ last_dts' = 0 /\ first_dts' = 0 /\ dts_offset' = 0 /\ last_speed' = Normal
    /\ w' = [c \in Writers |-> Fresh] /\ out' = [c \in Writers |-> Empty]
    /\ count' = 0
    /\ UNCHANGED <<input, at, requests, lf, elapsed>>

Stamps == {NoPts} \cup -1..MaxStamp

Read ==
    \/ \E s \in Streams, step \in Steps, cts \in 0..1 : ReadLocal(s, step, cts)
    \/ \E p \in [pts : Stamps, dts : Stamps, duration : 0..1] : ReadLive(p)
    \/ Reopen

Next == \/ RequestSeek \/ SetSpeed \/ Tick
        \/ NewFile \/ Seek \/ ClearSeek \/ Read

Spec == Init /\ [][Next]_vars

-----------------------------------------------------------------------------
(* What holds.                                                             *)

Packet == [pts : Int, dts : Int, src : Int]

TypeOK ==
    /\ {local, timed} \subseteq BOOLEAN
    /\ ratio \in Ratios \cup {Normal}
    /\ frame \in FrameTimes
    /\ at \in {"loop", "clear"}
    /\ seek_time \in Seeks \cup {-1}
    /\ {speed, last_speed} \subseteq Speeds \cup {Normal}
    /\ {pos, raw, last_dts, first_dts, dts_offset} \subseteq Int
    /\ frames \in [Streams -> 0..count]
    /\ lf \in [last_dts : Int, seek_dts : Int, seeked : BOOLEAN]
    /\ elapsed \in 0..MaxElapsed
    /\ w \in [Writers -> [Streams -> [first_pts : Int, last_dts : Int]]]
    /\ out \in [Writers -> [Streams -> SUBSET Packet]]
    /\ count \in 0..MaxPackets

\* Packets that have stamps, their own or those that count the frames.
HasStamps(s) == timed \/ (local /\ s = "video" /\ frame > 0)

\* What a muxer is given for a viewer has increasing dts in every stream, as
\* long as the packets have any, and never a pts before its dts: a muxer
\* refuses both, and the refusal costs the viewer its connection.
ViewAdvances ==
    [][\A s \in Streams : frames'[s] > frames[s] =>
         \A new \in out'["view"][s] : new.dts # NoPts =>
           /\ new.pts >= new.dts
           /\ \A old \in out["view"][s] :
                old.dts # NoPts => new.dts > old.dts]_vars

\* A distance in the file as the speed stretches it, a tick more where a pts
\* stands in for a dts, another for the step past the last dts.
Stretched(d, v) == Trunc((d + 1) * v[2], v[1]) + 1

\* Audio and video share the state of apply_speed.  Where audio stamps are
\* behind the video's, in coarser ticks or below 0 in finer ones, the first
\* audio packet after a change of speed sets first_dts to a stamp far in the
\* past of the video.
FineAudio == \A t \in Places : Ticks("audio", t) >= t

\* Where audio ticks are at least as fine and the packets have stamps: a change
\* of speed, back and forth, between any two packets and met first by video or
\* audio, never makes the video leap; playback goes on from where it was.
NoLeap ==
    [][/\ local /\ HasStamps("video") /\ FineAudio /\ ~lf.seeked
       /\ 0 < frames["video"] /\ frames["video"] < frames'["video"]
       => last_dts' - last_dts <=
            IF timed THEN Stretched(pos' - raw, speed) ELSE frame + 1]_vars

\* Where the clock should start: the demuxer waits for a first stamp above 0.
Beginning == IF Start > 0 THEN Start ELSE 0

\* Since the last seek a file has been played for no longer than its source
\* exists, but for the packet under way, if its packets have stamps and audio
\* ticks are as fine.  It is a bound by the whole age of the source: the clock
\* is not started again by a seek or a reopening, and what follows one may
\* leave in a burst.
PlayedWithinClock ==
    local /\ timed /\ FineAudio =>
      \E v \in Speeds \cup {Normal} :
        lf.last_dts - lf.seek_dts
          <= elapsed + Micros(Beginning + Stretched(Interleave, v)) + 1

\* The recording of packets with stamps begins at time 0, keeps the order of
\* their pts, and their distances where it did not clamp them to 0.
RecordedTimeline ==
    [][\A s \in Streams : HasStamps(s) /\ frames'[s] > frames[s] =>
         \A new \in out'["record"][s] :
           /\ new.pts >= 0
           /\ out["record"][s] = {} => new.pts = 0
           /\ \A old \in out["record"][s] : new.src >= old.src =>
                /\ new.pts >= old.pts
                /\ old.pts > 0 => new.pts - old.pts = new.src - old.src]_vars
=============================================================================
