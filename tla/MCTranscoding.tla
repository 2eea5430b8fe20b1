--------------------------- MODULE MCTranscoding ---------------------------
EXTENDS Transcoding

Two == <<"mp2", "mp3">>

\* MPEG-TS names mp2 as its codec and lets others in; flv knows mp3 alone.
Taken == [matroska |-> {"mp2", "mp3"}, mpegts |-> {"mp2"}, flv |-> {"mp3"}]
Accepted == [Taken EXCEPT !["mpegts"] = {"mp2", "mp3"}]

All == {"matroska", "mpegts", "flv"}
Source(p, c, r, o, v, b, l) ==
    [preferred |-> p, custom |-> c, raw |-> r, own |-> o, video |-> v,
     broken |-> b, lacking |-> l]

\* A source whose video fits only into the last container that is tried, one
\* that fits everywhere as it is, one whose audio MPEG-TS accepts without naming
\* it, and audio that must be encoded, when mp2 cannot be opened and when the
\* build has no mp3.
Sources ==
    {Source("mpegts", None, {"matroska"}, {"matroska"}, {"matroska"}, {}, {}),
     Source("matroska", "mp3", All, All, All, {}, {}),
     Source("mpegts", "mp3", {"matroska", "flv"}, All, All, {}, {}),
     Source("mpegts", None, {}, {}, All, {"mp2"}, {}),
     Source("mpegts", None, {}, {}, All, {}, {"mp3"})}
=============================================================================
