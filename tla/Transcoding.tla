---------------------------- MODULE Transcoding ----------------------------
(***************************************************************************)
(* How viewers of one source come to a container and to an audio encoding: *)
(* viewer_data::setup_output and writer_base::make_output_streams in the   *)
(* threads of the viewers, the encoders of source/codec/encoder.cpp, which *)
(* the worker uses (transcoder.cpp) and prunes, and the sessions of the    *)
(* worker, whose on_open sets the codec and starts who is listed.          *)
(*                                                                         *)
(* The container and the audio codec are the source's (source_data), not   *)
(* the viewer's, and no lock protects them: each access is a step.  The    *)
(* encoding of the video, which on_open alone chooses, is left out, and so *)
(* is an exception in a session (module Source).                           *)
(***************************************************************************)
EXTENDS Naturals, Sequences, Functions, FiniteSetsExt

CONSTANTS
    Viewers,
    Codecs,  \* the audio codecs of codec_t, in order
    Takes,   \* the codecs for which avformat_query_codec is 1 for a container
    Accepts, \* those that avformat_write_header accepts, usually more
    Inputs   \* the sources to look at

Containers == {"matroska", "mpegts", "flv"}

Names == Range(Codecs)
None == "unknown"
Audio == Names \cup {None}

\* preferred is source_args_t::container, custom the codec of audio_encoding;
\* its own audio is taken, and accepted, by these containers, and its video
\* accepted; these codecs cannot be opened with its settings; and these have no
\* encoder in the FFmpeg of the build.
ASSUME TranscodingAssumption ==
    /\ Codecs \in Seq(Names) /\ None \notin Names
    /\ Takes \in [Containers -> SUBSET Names]
    /\ Accepts \in [Containers -> SUBSET Names]
    /\ Inputs \subseteq [preferred : Containers, custom : Audio,
                         raw : SUBSET Containers, own : SUBSET Containers,
                         video : SUBSET Containers,
                         broken : SUBSET Names, lacking : SUBSET Names]

VARIABLES
    input,
    session,   \* "closed", "opened", "configured" by on_open, "open", "cleared"
    container, \* source_data::container
    audio,     \* source_data::view_encoding.audio.codec
    encoders,  \* encoder::impl::encoders: "none", "used", or "idle" for ten seconds
    pc,        \* where a viewer's thread is: "waiting" is not started, "over" ended
    fmt,       \* the container of its output; in "move" the one it rotates to
    said,      \* the codec its header announces, None for the source's own
    left,      \* its client has closed the connection
    crash,     \* "none"; no "encoder" or no "context" was there; started "twice"
    moved, overlapped, disused, reopened \* history: what has ever happened

shared == <<container, audio, encoders>>
viewer == <<pc, fmt, said, left>>
history == <<moved, overlapped, disused, reopened>>
vars == <<input, session, shared, viewer, crash, history>>

Init ==
    /\ input \in Inputs /\ session = "closed"
    /\ container = None /\ audio = None
    /\ encoders = [c \in Names |-> "none"]
    /\ pc = [v \in Viewers |-> "away"]
    /\ fmt = [v \in Viewers |-> None] /\ said = [v \in Viewers |-> None]
    /\ left = [v \in Viewers |-> FALSE]
    /\ crash = "none"
    /\ moved = FALSE /\ overlapped = FALSE /\ disused = FALSE /\ reopened = FALSE

Step(v, from, to) == pc[v] = from /\ pc' = [pc EXCEPT ![v] = to]
SettingUp == {v \in Viewers : pc[v] \notin {"away", "waiting", "served", "over"}}
Overlap == \E u, v \in SettingUp : u # v

-----------------------------------------------------------------------------
(* The thread of a viewer: setup_output.                                   *)

\* add_viewer starts it if the input is open, demuxer_initialized being set before
\* on_open and reset after the viewers of the session are cleared, unless the
\* source has just stalled (demuxing).
Add(v) ==
    /\ \/ Step(v, "away", "waiting")
       \/ session # "closed" /\ Step(v, "away", "begin")
    /\ left' = [left EXCEPT ![v] = FALSE]
    /\ overlapped' = (overlapped \/ Overlap')
    /\ UNCHANGED <<input, session, shared, fmt, said, crash, moved, disused,
                   reopened>>

\* The client closes its connection, at any moment.
Leave(v) ==
    /\ pc[v] # "away" /\ ~left[v]
    /\ left' = [left EXCEPT ![v] = TRUE]
    /\ UNCHANGED <<input, session, shared, pc, fmt, said, crash, history>>

\* The input may have been closed meanwhile.
Begin(v) ==
    /\ Step(v, "begin", IF session = "closed" THEN "over" ELSE "unset")
    /\ UNCHANGED <<input, session, shared, fmt, said, left, crash, history>>

Unset(v) ==
    /\ Step(v, "unset", IF container = None THEN "set" ELSE "alloc")
    /\ UNCHANGED <<input, session, shared, fmt, said, left, crash, history>>

Set(v) ==
    /\ Step(v, "set", "alloc")
    /\ container' = input.preferred
    /\ UNCHANGED <<input, session, audio, encoders, fmt, said, left, crash,
                   history>>

StartNext == \* mutation: every viewer starts with another container
    CHOOSE c \in Containers : c # container
Start == container

Alloc(v) ==
    /\ Step(v, "alloc", "reset")
    /\ fmt' = [fmt EXCEPT ![v] = Start]
    /\ UNCHANGED <<input, session, shared, said, left, crash, history>>

ResetCodec(v) ==
    /\ Step(v, "reset", "choose")
    /\ audio' = None
    /\ UNCHANGED <<input, session, container, encoders, fmt, said, left, crash,
                   history>>

\* alternate_proper_audio_codec: none if the source's own audio is taken, or no
\* codec is; the search ends badly at one without an encoder.
Search(f) == {i \in DOMAIN Codecs : Codecs[i] \in Takes[f] \cup input.lacking}
Alternate(f) ==
    IF f \in input.raw \/ Search(f) = {} THEN None ELSE Codecs[Min(Search(f))]

Choose(v) ==
    /\ pc[v] = "choose"
    /\ IF container # "matroska" /\ Alternate(fmt[v]) \in input.lacking
       THEN crash' = "encoder" /\ UNCHANGED <<pc, audio>>
       ELSE /\ pc' = [pc EXCEPT ![v] = "initialize"]
            /\ audio' = IF container # "matroska" /\ Alternate(fmt[v]) # None
                        THEN Alternate(fmt[v]) ELSE audio
            /\ UNCHANGED crash
    /\ UNCHANGED <<input, session, container, encoders, fmt, said, left,
                   history>>

EnsuredNot(c) == encoders \* mutation: the encoder is not made
Ensured(c) == IF encoders[c] = "none" THEN [encoders EXCEPT ![c] = "used"] ELSE encoders

\* encoder::initialize, under the encoder's mutex; one that is there is taken
\* as it is, and its time goes on.
Initialize(v) ==
    /\ \/ Step(v, "initialize", "streams") /\ audio = None /\ UNCHANGED encoders
       \/ /\ Step(v, "initialize", "streams")
          /\ audio # None
          /\ encoders[audio] # "none" \/ audio \notin input.broken \cup input.lacking
          /\ encoders' = Ensured(audio)
       \/ /\ Step(v, "initialize", "rotate")
          /\ audio # None
          /\ encoders[audio] = "none" /\ audio \in input.broken \cup input.lacking
          /\ UNCHANGED encoders
    /\ UNCHANGED <<input, session, container, audio, fmt, said, left, crash,
                   history>>

\* make_output_streams: the source's own parameters, or those of an encoder.
Streams(v) ==
    /\ \/ /\ Step(v, "streams", "header") /\ audio = None
          /\ said' = [said EXCEPT ![v] = None]
       \/ /\ Step(v, "streams", "context") /\ audio # None
          /\ UNCHANGED said
    /\ UNCHANGED <<input, session, shared, fmt, left, crash, history>>

\* encoder::context looks up, without the mutex, what is configured by now.
Context(v) ==
    /\ pc[v] = "context"
    /\ IF audio # None /\ encoders[audio] # "none"
       THEN /\ pc' = [pc EXCEPT ![v] = "header"]
            /\ said' = [said EXCEPT ![v] = audio]
            /\ UNCHANGED crash
       ELSE crash' = "context" /\ UNCHANGED <<pc, said>>
    /\ UNCHANGED <<input, session, shared, fmt, left, history>>

HeaderFits(f, c) ==
    f \in input.video /\ (IF c = None THEN f \in input.own ELSE c \in Accepts[f])

WriteHeader(v) ==
    /\ \/ Step(v, "header", "served") /\ ~left[v] /\ HeaderFits(fmt[v], said[v])
       \/ Step(v, "header", "rotate") /\ (left[v] \/ ~HeaderFits(fmt[v], said[v]))
    /\ UNCHANGED <<input, session, shared, fmt, said, left, crash, history>>

\* The preferred container comes first, the others in their order.
Formats ==
    IF input.preferred = "matroska" THEN <<"matroska", "mpegts", "flv">>
    ELSE IF input.preferred = "mpegts" THEN <<"mpegts", "matroska", "flv">>
    ELSE <<"flv", "matroska", "mpegts">>

AfterNone(c) == \* mutation: the end of the list is not looked for
    IF c = Formats[3] THEN None ELSE Formats[1 + (CHOOSE i \in 1..2 : Formats[i] = c)]
AfterStuck(c) == \* mutation: the last container is tried again
    IF c = Formats[3] THEN c ELSE Formats[1 + (CHOOSE i \in 1..2 : Formats[i] = c)]
After(c) ==
    IF c = Formats[3] THEN Formats[1]
    ELSE Formats[1 + (CHOOSE i \in 1..2 : Formats[i] = c)]

\* The attempt has failed: on from the container that is the source's by now.
Rotate(v) ==
    /\ Step(v, "rotate", "move")
    /\ fmt' = [fmt EXCEPT ![v] = After(container)]
    /\ UNCHANGED <<input, session, shared, said, left, crash, history>>

Over(v) ==
    /\ fmt' = [fmt EXCEPT ![v] = None] /\ said' = [said EXCEPT ![v] = None]
    /\ left' = [left EXCEPT ![v] = FALSE]

Move(v) ==
    /\ Step(v, "move", "over")
    /\ container' = fmt[v]
    /\ moved' = TRUE
    /\ Over(v)
    /\ UNCHANGED <<input, session, audio, encoders, crash, overlapped, disused,
                   reopened>>

\* A client that was served has left, or a write to it failed.
End(v) ==
    /\ Step(v, "served", "over")
    /\ Over(v)
    /\ UNCHANGED <<input, session, shared, crash, history>>

-----------------------------------------------------------------------------
(* The worker: its sessions.                                               *)

Open ==
    /\ session = "closed"
    /\ session' = "opened"
    /\ UNCHANGED <<input, shared, viewer, crash, history>>

\* on_open: the codec, before the mutex is taken.
Configure ==
    /\ session = "opened"
    /\ session' = "configured"
    /\ audio' = input.custom
    /\ reopened' = (reopened \/ \E v \in Viewers : pc[v] \notin {"away", "waiting"})
    /\ UNCHANGED <<input, container, encoders, viewer, crash, moved,
                   overlapped, disused>>

\* on_open: all that are listed are started, a second time if they were.
StartListed ==
    /\ session = "configured"
    /\ IF \A v \in Viewers : pc[v] \in {"away", "waiting"}
       THEN /\ pc' = [v \in Viewers |-> IF pc[v] = "waiting" THEN "begin" ELSE pc[v]]
            /\ session' = "open"
            /\ UNCHANGED crash
       ELSE crash' = "twice" /\ UNCHANGED <<pc, session>>
    /\ overlapped' = (overlapped \/ Overlap')
    /\ UNCHANGED <<input, shared, fmt, said, left, moved, disused, reopened>>

\* A packet for a viewer whose thread has ended, or was not started: it is dropped.
Erase(v) ==
    /\ session = "open"
    /\ Step(v, "over", "away") \/ Step(v, "waiting", "away")
    /\ UNCHANGED <<input, session, shared, fmt, said, left, crash, history>>

\* viewers.clear() waits for set-ups, at the end of a session or when the input
\* could not be opened.
Clear ==
    /\ session \in {"open", "closed"} /\ SettingUp = {}
    /\ session' = IF session = "open" THEN "cleared" ELSE "closed"
    /\ pc' = [v \in Viewers |-> "away"]
    /\ fmt' = [v \in Viewers |-> None] /\ said' = [v \in Viewers |-> None]
    /\ left' = [v \in Viewers |-> FALSE]
    /\ UNCHANGED <<input, shared, crash, history>>

\* demux_data.reset()
Reset ==
    /\ session = "cleared"
    /\ session' = "closed"
    /\ UNCHANGED <<input, shared, viewer, crash, history>>

-----------------------------------------------------------------------------
(* The worker: its packets.                                                *)

\* An audio packet for the viewers that are there is encoded if an encoder is,
\* and dropped if none is.
Encode ==
    /\ session = "open"
    /\ audio # None /\ encoders[audio] # "none"
    /\ \E v \in Viewers : pc[v] # "away"
    /\ encoders' = [encoders EXCEPT ![audio] = "used"]
    /\ UNCHANGED <<input, session, container, audio, viewer, crash, history>>

\* Ten seconds without a frame for it.
Disuse(c) ==
    /\ encoders[c] = "used"
    /\ encoders' = [encoders EXCEPT ![c] = "idle"]
    /\ disused' = TRUE
    /\ UNCHANGED <<input, session, container, audio, viewer, crash, moved,
                   overlapped, reopened>>

Prune ==
    /\ session = "open"
    /\ \E c \in Names : encoders[c] = "idle"
    /\ encoders' = [c \in Names |-> IF encoders[c] = "idle" THEN "none" ELSE encoders[c]]
    /\ UNCHANGED <<input, session, container, audio, viewer, crash, history>>

-----------------------------------------------------------------------------
(* The specification.                                                      *)

SetUp(v) ==
    \/ Begin(v) \/ Unset(v) \/ Set(v) \/ Alloc(v) \/ ResetCodec(v) \/ Choose(v)
    \/ Initialize(v) \/ Streams(v) \/ Context(v) \/ WriteHeader(v) \/ Rotate(v) \/ Move(v)

Worker == Open \/ Configure \/ StartListed \/ Clear \/ Reset \/ Encode \/ Prune

Next ==
    /\ crash = "none"
    /\ \/ \E v \in Viewers : Add(v) \/ Leave(v) \/ SetUp(v) \/ End(v) \/ Erase(v)
       \/ Worker
       \/ \E c \in Names : Disuse(c)

\* A thread goes on, a client that is not served asks again, and an open input
\* has packets.
Fairness ==
    \A v \in Viewers : WF_vars(crash = "none" /\ (Add(v) \/ SetUp(v) \/ Erase(v)))

Spec == Init /\ [][Next]_vars /\ Fairness

-----------------------------------------------------------------------------
(* What holds.                                                             *)

TypeOK ==
    /\ input \in Inputs
    /\ session \in {"closed", "opened", "configured", "open", "cleared"}
    /\ container \in Containers \cup {None} /\ audio \in Audio
    /\ encoders \in [Names -> {"none", "used", "idle"}]
    /\ pc \in [Viewers -> {"away", "waiting", "begin", "unset", "set", "alloc", "reset",
                           "choose", "initialize", "streams", "context", "header",
                           "rotate", "move", "served", "over"}]
    /\ fmt \in [Viewers -> Containers \cup {None}] /\ said \in [Viewers -> Audio]
    /\ left \in [Viewers -> BOOLEAN]
    /\ crash \in {"none", "encoder", "context", "twice"}
    /\ {moved, overlapped, disused, reopened} \subseteq BOOLEAN
    /\ \A v \in Viewers :
         /\ pc[v] \notin {"away", "waiting", "begin", "unset", "set", "over"} =>
              container # None
         /\ pc[v] \notin {"away", "waiting", "begin", "unset", "set", "alloc", "over"} =>
              fmt[v] # None

\* As long as no attempt has failed, and on_open met no viewer of its session,
\* every viewer that is served has the source's container, and its header
\* announces the codec that is sent, however many came before and after it;
\* only if set-ups overlapped may it announce the source's own codec instead.
Understood ==
    ~moved /\ ~reopened /\ SettingUp = {} =>
      \A v \in Viewers : pc[v] = "served" =>
        /\ fmt[v] = container
        /\ said[v] = audio \/ (overlapped /\ said[v] = None)

\* A set-up finds its encoder unless another set-up, or the on_open of a session
\* that started it before, changed the codec under it, or the encoder had been
\* out of use and was pruned in between.
CrashNeedsCompany == crash = "context" => overlapped \/ reopened \/ disused

\* If there is a container that fits, and from some time on the input is open
\* and does not stall, the attempts do not overlap and clients wait for their
\* answer, each client is served again and again, however far from it the
\* container was left.
Chosen(f) == IF f = "matroska" THEN None ELSE Alternate(f)
Fits(f) ==
    /\ HeaderFits(f, Chosen(f))
    /\ Chosen(f) \notin input.broken \cup input.lacking

Calm ==
    /\ crash = "none" /\ session = "open" /\ ~Overlap
    /\ \A v \in SettingUp : ~left[v]
    /\ \A v \in Viewers : pc[v] # "waiting"

FormatFound ==
    <>[]Calm /\ (\E f \in Containers : Fits(f)) =>
      \A v \in Viewers : []<>(pc[v] = "served")

\* The source's own parameters are in a header only if the stream is remuxed
\* (writer_base.cpp:129), also when nothing failed and nothing was reopened.
CopiedIsRemuxed ==
    session = "open" /\ ~moved /\ ~reopened /\ SettingUp = {} =>
      \A v \in Viewers : pc[v] = "served" /\ said[v] = None => audio = None

\* The audio encoding that a source was given for streaming (common_types.hpp:99)
\* is that of its viewers, if there is an encoder and the container accepts it.
CustomIsServed ==
    \A v \in Viewers :
      /\ session = "open" /\ pc[v] = "served"
      /\ input.custom \in Accepts[fmt[v]] \ (input.broken \cup input.lacking)
      => said[v] = input.custom
=============================================================================
