-------------------------- MODULE TimestampsProofs --------------------------
(***************************************************************************)
(* Proofs about Timestamps, for every bound, speed, ratio of the time      *)
(* bases and width of the integers: the types; that a viewer's muxer is    *)
(* given increasing dts; that the dts of a file's video do not leap where  *)
(* the speed changes and stay within the clock, where its packets have     *)
(* stamps and audio ticks are as fine; and that a recording of packets     *)
(* with stamps begins at 0 and keeps their distances.                      *)
(*                                                                         *)
(* Inv types the state; FileInv bounds the demuxer's part of it for a      *)
(* file; ContinuesInv says where the next video packet goes on; RecordInv  *)
(* relates the packet last recorded to first_pts.                          *)
(***************************************************************************)
EXTENDS Timestamps, TLAPS

-----------------------------------------------------------------------------
(* Arithmetic.                                                             *)

\* A quotient rounded towards zero is an integer.
LEMMA TruncType == ASSUME NEW a \in Int, NEW b \in Nat \ {0} PROVE Trunc(a, b) \in Int
  BY DEF Trunc

\* So is one rounded to the nearest, and rescaling yields a stamp.
LEMMA RescaledType == ASSUME NEW a \in Int PROVE Rescaled(a) \in Int
<1>1. Output[1] \in Int /\ Output[2] \in Nat \ {0} /\ Half \in Nat \ {0}
  BY TimestampsAssumption
<1>2. a * Output[1] \in Int
  BY <1>1
<1>3. Nearest(a * Output[1], Output[2]) \in Int
  BY <1>1, <1>2 DEF Nearest
<1> QED
  BY <1>1, <1>3 DEF Rescaled, NoPts

\* A quotient and its remainder.
LEMMA DivBounds ==
  ASSUME NEW a \in Int, NEW b \in Nat \ {0}
  PROVE  /\ a \div b \in Int /\ b * (a \div b) \in Int
         /\ b * (a \div b) <= a /\ a < b * (a \div b) + b
  OBVIOUS

\* Multiplication keeps the order.
LEMMA Scaled ==
  ASSUME NEW b \in Nat, NEW x \in Int, NEW y \in Int, x <= y
  PROVE  b * x \in Int /\ b * y \in Int /\ b * x <= b * y
  OBVIOUS

\* Multiplication distributes over a sum.
LEMMA ScaledSum ==
  ASSUME NEW b \in Int, NEW x \in Int, NEW y \in Int
  PROVE  b * (x + y) = b * x + b * y
  OBVIOUS

\* A quotient rounded towards zero: how far it is from the exact one.
LEMMA TruncBounds ==
  ASSUME NEW a \in Int, NEW b \in Nat \ {0}
  PROVE  /\ Trunc(a, b) \in Int /\ b * Trunc(a, b) \in Int
         /\ a >= 0 => 0 <= Trunc(a, b) /\ b * Trunc(a, b) <= a /\ a < b * Trunc(a, b) + b
         /\ a <= 0 => Trunc(a, b) <= 0 /\ a <= b * Trunc(a, b) /\ b * Trunc(a, b) < a + b
<1>1. CASE a >= 0
  <2> DEFINE q == a \div b
  <2>1. q \in Int /\ b * q <= a /\ a < b * q + b
    BY DivBounds
  <2>2. Trunc(a, b) = q
    BY <1>1 DEF Trunc
  <2> HIDE DEF q
  <2>3. q >= 0
    <3> SUFFICES ASSUME q <= -1 PROVE FALSE
      BY <2>1
    <3>1. b * q <= b * (-1)
      BY <2>1, Scaled
    <3> QED
      BY <1>1, <2>1, <3>1
  <2>4. a = 0 => q = 0 
    <3> SUFFICES ASSUME a = 0, q >= 1 PROVE FALSE
      BY <2>1, <2>3
    <3>1. b * 1 <= b * q
      BY <2>1, Scaled
    <3> QED
      BY <2>1, <3>1
  <2> QED
    BY <1>1, <2>1, <2>2, <2>3, <2>4
<1>2. CASE a < 0
  <2> DEFINE q == (-a) \div b
  <2>1. q \in Int /\ b * q <= -a /\ -a < b * q + b
    BY DivBounds
  <2>2. Trunc(a, b) = -q
    BY <1>2 DEF Trunc
  <2> HIDE DEF q
  <2>3. q >= 0
    <3> SUFFICES ASSUME q <= -1 PROVE FALSE
      BY <2>1
    <3>1. b * q <= b * (-1)
      BY <2>1, Scaled
    <3> QED
      BY <1>2, <2>1, <3>1
  <2>4. b * (-q) = -(b * q) /\ b * q \in Int
    BY <2>1
  <2> QED
    BY <1>2, <2>1, <2>2, <2>3, <2>4
<1> QED
  BY <1>1, <1>2

\* It is monotone ...
LEMMA TruncMonotone ==
  ASSUME NEW a \in Int, NEW c \in Int, NEW b \in Nat \ {0}, a <= c
  PROVE  Trunc(a, b) <= Trunc(c, b)
<1> DEFINE p == Trunc(a, b)
           q == Trunc(c, b)
<1>1. /\ p \in Int /\ b * p \in Int
      /\ a >= 0 => 0 <= p /\ b * p <= a /\ a < b * p + b
      /\ a <= 0 => p <= 0 /\ a <= b * p /\ b * p < a + b
  BY TruncBounds
<1>2. /\ q \in Int /\ b * q \in Int
      /\ c >= 0 => 0 <= q /\ b * q <= c /\ c < b * q + b
      /\ c <= 0 => q <= 0 /\ c <= b * q /\ b * q < c + b
  BY TruncBounds
<1> HIDE DEF p, q
<1> SUFFICES ASSUME q + 1 <= p PROVE FALSE
  BY <1>1, <1>2 DEF p, q
<1>3. b * (q + 1) <= b * p /\ b * (q + 1) = b * q + b
  <2>1. b * (q + 1) <= b * p
    BY <1>1, <1>2, Scaled
  <2>2. b * (q + 1) = b * q + b * 1
    BY <1>2, ScaledSum
  <2> QED
    BY <2>1, <2>2
<1> QED
  BY <1>1, <1>2, <1>3

\* ... adds up but for one tick ...
LEMMA TruncSum ==
  ASSUME NEW a \in Int, NEW d \in Nat, NEW b \in Nat \ {0}
  PROVE  Trunc(a + d, b) <= Trunc(a, b) + Trunc(d, b) + 1
<1> DEFINE p == Trunc(a, b)
           q == Trunc(d, b)
           r == Trunc(a + d, b)
<1>0. a + d \in Int /\ d \in Int
  OBVIOUS
<1>1. /\ p \in Int /\ b * p \in Int
      /\ a >= 0 => 0 <= p /\ b * p <= a /\ a < b * p + b
      /\ a <= 0 => p <= 0 /\ a <= b * p /\ b * p < a + b
  BY TruncBounds
<1>2. /\ q \in Int /\ b * q \in Int
      /\ 0 <= q /\ b * q <= d /\ d < b * q + b
  BY <1>0, TruncBounds
<1>3. /\ r \in Int /\ b * r \in Int
      /\ a + d >= 0 => 0 <= r /\ b * r <= a + d /\ a + d < b * r + b
      /\ a + d <= 0 => r <= 0 /\ a + d <= b * r /\ b * r < a + d + b
  BY <1>0, TruncBounds
<1> HIDE DEF p, q, r
<1> SUFFICES ASSUME p + q + 2 <= r PROVE FALSE
  BY <1>1, <1>2, <1>3 DEF p, q, r
<1>4. b * p + b * q + 2 * b <= b * r
  <2>1. b * (p + (q + 2)) <= b * r
    BY <1>1, <1>2, <1>3, Scaled
  <2>2. b * (p + (q + 2)) = b * p + b * (q + 2) /\ b * (q + 2) = b * q + b * 2
    BY <1>1, <1>2, ScaledSum
  <2> QED
    BY <1>1, <1>2, <1>3, <2>1, <2>2
<1> QED
  BY <1>0, <1>1, <1>2, <1>3, <1>4

\* ... and is bounded by what bounds the exact one.
LEMMA TruncWithin ==
  ASSUME NEW a \in Int, NEW b \in Nat \ {0}, NEW n \in Nat, -(b * n) <= a, a <= b * n
  PROVE  Trunc(a, b) \in -n..n
<1> DEFINE q == Trunc(a, b)
<1>1. /\ q \in Int /\ b * q \in Int
      /\ a >= 0 => 0 <= q /\ b * q <= a /\ a < b * q + b
      /\ a <= 0 => q <= 0 /\ a <= b * q /\ b * q < a + b
  BY TruncBounds
<1> HIDE DEF q
<1>2. q <= n
  <2> SUFFICES ASSUME n + 1 <= q PROVE FALSE
    BY <1>1
  <2>1. b * (n + 1) <= b * q /\ b * (n + 1) = b * n + b
    <3>1. b * (n + 1) <= b * q
      BY <1>1, Scaled
    <3>2. b * (n + 1) = b * n + b * 1
      BY ScaledSum
    <3> QED
      BY <3>1, <3>2
  <2>2. b * n \in Int
    OBVIOUS
  <2> QED
    BY <1>1, <2>1, <2>2
<1>3. -n <= q
  <2> SUFFICES ASSUME n + 1 <= -q PROVE FALSE
    BY <1>1
  <2>1. b * (n + 1) <= b * (-q) /\ b * (n + 1) = b * n + b /\ b * (-q) = -(b * q)
    <3>1. b * (n + 1) <= b * (-q)
      BY <1>1, Scaled
    <3>2. b * (n + 1) = b * n + b * 1
      BY ScaledSum
    <3>3. b * (-q) = -(b * q)
      BY <1>1
    <3> QED
      BY <3>1, <3>2, <3>3
  <2>2. b * n \in Int
    OBVIOUS
  <2> QED
    BY <1>1, <2>1, <2>2
<1> QED
  BY <1>1, <1>2, <1>3 DEF q

\* A quotient rounded to the nearest: how far it is from the exact one.
LEMMA NearestBounds ==
  ASSUME NEW a \in Nat, NEW b \in Nat \ {0}
  PROVE  /\ Nearest(a, b) \in Nat /\ 2 * b * Nearest(a, b) \in Int
         /\ 2 * b * Nearest(a, b) <= 2 * a + b /\ 2 * a < 2 * b * Nearest(a, b) + b
<1> DEFINE n == 2 * a + b
           d == 2 * b
           q == n \div d
<1>1. n \in Nat /\ d \in Nat \ {0}
  OBVIOUS
<1>2. Nearest(a, b) = q
  BY DEF Nearest
<1> HIDE DEF n, d
<1>3. q \in Int /\ d * q \in Int /\ d * q <= n /\ n < d * q + d
  BY <1>1, DivBounds
<1> HIDE DEF q
<1>4. q >= 0
  <2> SUFFICES ASSUME q <= -1 PROVE FALSE
    BY <1>3
  <2>1. d * q <= d * (-1) /\ d * (-1) = -d
    BY <1>1, <1>3, Scaled
  <2> QED
    BY <1>1, <1>3, <2>1
<1> QED
  BY <1>2, <1>3, <1>4 DEF n, d

\* Conversion to microseconds keeps the order and adds up but for one.
LEMMA MicrosSum ==
  ASSUME NEW x \in Nat, NEW y \in Nat
  PROVE  /\ Micros(x) \in Nat /\ Micros(y) \in Nat /\ Micros(x + y) \in Nat
         /\ Micros(x) <= Micros(x + y)
         /\ Micros(x + y) <= Micros(x) + Micros(y) + 1
<1> DEFINE n == Micro[1]
           b == Micro[2]
           p == Nearest(x * n, b)
           q == Nearest(y * n, b)
           t == Nearest((x + y) * n, b)
<1>1. n \in Nat /\ b \in Nat \ {0}
  BY TimestampsAssumption
<1>2. Micros(x) = p /\ Micros(y) = q /\ Micros(x + y) = t
  BY DEF Micros
<1> HIDE DEF n, b
<1>3. x * n \in Nat /\ y * n \in Nat /\ (x + y) * n \in Nat /\ (x + y) * n = x * n + y * n
  BY <1>1
<1>4. /\ p \in Nat /\ 2 * b * p \in Int
      /\ 2 * b * p <= 2 * (x * n) + b /\ 2 * (x * n) < 2 * b * p + b
  BY <1>1, <1>3, NearestBounds
<1>5. /\ q \in Nat /\ 2 * b * q \in Int
      /\ 2 * b * q <= 2 * (y * n) + b /\ 2 * (y * n) < 2 * b * q + b
  BY <1>1, <1>3, NearestBounds
<1>6. /\ t \in Nat /\ 2 * b * t \in Int
      /\ 2 * b * t <= 2 * ((x + y) * n) + b /\ 2 * ((x + y) * n) < 2 * b * t + b
  BY <1>1, <1>3, NearestBounds
<1> HIDE DEF p, q, t
<1> DEFINE d == 2 * b
<1>7. d \in Nat \ {0}
  BY <1>1
<1>8. p <= t
  <2> SUFFICES ASSUME t + 1 <= p PROVE FALSE
    BY <1>4, <1>6
  <2>1. d * (t + 1) <= d * p /\ d * (t + 1) = d * t + d * 1
    BY <1>4, <1>6, <1>7, Scaled, ScaledSum
  <2> QED
    BY <1>1, <1>3, <1>4, <1>6, <2>1
<1>9. t <= p + q + 1
  <2> SUFFICES ASSUME p + (q + 2) <= t PROVE FALSE
    BY <1>4, <1>5, <1>6
  <2>1. d * (p + (q + 2)) <= d * t
    BY <1>4, <1>5, <1>6, <1>7, Scaled
  <2>2. d * (p + (q + 2)) = d * p + d * (q + 2) /\ d * (q + 2) = d * q + d * 2
    BY <1>4, <1>5, <1>7, ScaledSum
  <2> QED
    BY <1>1, <1>3, <1>4, <1>5, <1>6, <2>1, <2>2
<1> QED
  BY <1>2, <1>4, <1>5, <1>6, <1>8, <1>9

\* It yields a time for every stamp.
LEMMA MicrosType == ASSUME NEW x \in Int PROVE Micros(x) \in Int
<1>1. Micro[1] \in Int /\ Micro[2] \in Nat \ {0}
  BY TimestampsAssumption
<1>2. x * Micro[1] \in Int
  BY <1>1
<1> QED
  BY <1>1, <1>2 DEF Micros, Nearest

-----------------------------------------------------------------------------
(* The writers.                                                            *)

Stamped == [pts : Int, dts : Int, duration : Int]
WriterState == [first_pts : Int, last_dts : Int]

\* The fix-up of a dts yields a stamp that is beyond the last one.
LEMMA IncreasedBeyond ==
  ASSUME NEW last \in Int, NEW dts \in Int
  PROVE  /\ Increased(last, dts) \in Int
         /\ Increased(last, dts) # NoPts /\ dts # NoPts => Increased(last, dts) > last
         /\ dts = NoPts => Increased(last, dts) = NoPts
<1>1. Half \in Nat \ {0}
  BY TimestampsAssumption
<1> QED
  BY <1>1 DEF Increased, NoPts

\* What the writers make of a packet: their new state and the packet's stamps.
LEMMA ViewedType ==
  ASSUME NEW s \in Streams, NEW p \in Stamped, w["view"][s] \in WriterState
  PROVE  LET r == Viewed(s, p) IN
         /\ r.state \in WriterState /\ r.packet \in Packet
         /\ r.packet.dts = r.state.last_dts
         /\ r.packet.dts # NoPts =>
              r.packet.pts >= r.packet.dts /\ r.packet.dts > w["view"][s].last_dts
<1> DEFINE q == Rescaled(p.pts)
           before == Rescaled(p.dts)
           dts == Increased(w["view"][s].last_dts, before)
<1>1. q \in Int /\ before \in Int
  <2>1. p.pts \in Int /\ p.dts \in Int
    BY DEF Stamped
  <2> QED
    BY <2>1, RescaledType
<1>2. dts \in Int /\ (dts # NoPts => dts > w["view"][s].last_dts)
  <2>1. w["view"][s].last_dts \in Int
    BY DEF WriterState
  <2> QED
    BY <1>1, <2>1, IncreasedBeyond
<1>3. Viewed(s, p) = [state  |-> [w["view"][s] EXCEPT !.last_dts = dts],
                      packet |-> [pts |-> IF dts # NoPts /\ q < dts THEN dts ELSE q,
                                  dts |-> dts, src |-> q]]
  BY DEF Viewed
<1> HIDE DEF q, before, dts
<1> QED
  BY <1>1, <1>2, <1>3 DEF WriterState, Packet

LEMMA RecordedType ==
  ASSUME NEW s \in Streams, NEW p \in Stamped, w["record"][s] \in WriterState
  PROVE  Recorded(s, p).state \in WriterState /\ Recorded(s, p).packet \in Packet
<1> DEFINE q == IF Untouched(p) THEN p.pts ELSE Rescaled(p.pts)
           first == IF Untouched(p) THEN w["record"][s].first_pts ELSE FirstPts(s, q)
           t == IF Untouched(p) THEN q ELSE Clamped(q - first)
<1>1. q \in Int /\ NoPts \in Int
  BY RescaledType, TimestampsAssumption DEF Stamped, NoPts
<1>2. first \in Int
  BY <1>1 DEF FirstPts, WriterState
<1>3. t \in Int
  BY <1>1, <1>2 DEF Clamped
<1>4. Recorded(s, p) = [state  |-> [first_pts |-> first, last_dts |-> NoPts],
                        packet |-> [pts |-> t, dts |-> NoPts, src |-> q]]
  BY DEF Recorded
<1> HIDE DEF q, first, t
<1> QED
  BY <1>1, <1>2, <1>3, <1>4 DEF WriterState, Packet

\* A packet with a date is a packet.
LEMMA DatedType ==
  ASSUME NEW t \in Dates, NEW p \in Stamped
  PROVE  Dated(t, p) \in Stamped /\ (p.pts # NoPts => Dated(t, p) = p)
<1>1. t \in Int /\ NoPts \in Int
  BY TimestampsAssumption DEF NoPts
<1> QED
  BY <1>1 DEF Dated, Stamped

\* The writers' state: every last_dts is the dts of the packet last written.
WritersInv ==
    /\ w \in [Writers -> [Streams -> WriterState]]
    /\ out \in [Writers -> [Streams -> SUBSET Packet]]
    /\ \A s \in Streams : \A o \in out["view"][s] : o.dts = w["view"][s].last_dts

\* Writing a packet of stream s: it keeps the writers' state, and the viewer's
\* packet is beyond its last one.
LEMMA WriteStep ==
  ASSUME NEW s \in Streams, NEW p \in Stamped, WritersInv, Write(s, p)
  PROVE  /\ WritersInv'
         /\ \A new \in out'["view"][s] : new.dts # NoPts =>
              /\ new.pts >= new.dts
              /\ \A old \in out["view"][s] : new.dts > old.dts
<1>0. "view" \in Writers /\ "record" \in Writers /\ "view" # "record"
  BY DEF Writers
<1>1. PICK t \in Dates :
        /\ w' = [w EXCEPT !["view"][s] = Viewed(s, p).state,
                          !["record"][s] = Recorded(s, Dated(t, p)).state]
        /\ out' = [out EXCEPT !["view"][s] = {Viewed(s, p).packet},
                              !["record"][s] = {Recorded(s, Dated(t, p)).packet}]
  BY DEF Write
<1> DEFINE v == Viewed(s, p)
           r == Recorded(s, Dated(t, p))
<1>2. w["view"][s] \in WriterState /\ w["record"][s] \in WriterState
  BY <1>0 DEF WritersInv
<1>3. /\ v.state \in WriterState /\ v.packet \in Packet
      /\ v.packet.dts = v.state.last_dts
      /\ v.packet.dts # NoPts =>
           v.packet.pts >= v.packet.dts /\ v.packet.dts > w["view"][s].last_dts
  BY <1>2, ViewedType
<1>4. r.state \in WriterState /\ r.packet \in Packet
  BY <1>2, DatedType, RecordedType
<1> HIDE DEF v, r
<1>1b. /\ w' = [w EXCEPT !["view"][s] = v.state, !["record"][s] = r.state]
       /\ out' = [out EXCEPT !["view"][s] = {v.packet}, !["record"][s] = {r.packet}]
  BY <1>1 DEF v, r
<1>5. w' \in [Writers -> [Streams -> WriterState]]
  BY <1>0, <1>1b, <1>3, <1>4 DEF WritersInv
<1>6. out' \in [Writers -> [Streams -> SUBSET Packet]]
  BY <1>0, <1>1b, <1>3, <1>4 DEF WritersInv
<1>7. /\ w'["view"] = [w["view"] EXCEPT ![s] = v.state]
      /\ out'["view"] = [out["view"] EXCEPT ![s] = {v.packet}]
  BY <1>0, <1>1b DEF WritersInv
<1>8. out'["view"][s] = {v.packet} /\ w'["view"][s] = v.state
  BY <1>0, <1>7 DEF WritersInv
<1>9. ASSUME NEW z \in Streams, NEW o \in out'["view"][z]
      PROVE  o.dts = w'["view"][z].last_dts
  <2>1. CASE z = s
    BY <1>3, <1>8, <1>9, <2>1
  <2>2. CASE z # s
    <3>1. out'["view"][z] = out["view"][z] /\ w'["view"][z] = w["view"][z]
      BY <1>0, <1>7, <2>2 DEF WritersInv
    <3> QED
      BY <1>9, <3>1 DEF WritersInv
  <2> QED
    BY <2>1, <2>2
<1>10. WritersInv'
  BY <1>5, <1>6, <1>9 DEF WritersInv
<1>11. ASSUME NEW new \in out'["view"][s], new.dts # NoPts
       PROVE  /\ new.pts >= new.dts
              /\ \A old \in out["view"][s] : new.dts > old.dts
  BY <1>3, <1>8, <1>11 DEF WritersInv
<1> QED
  BY <1>10, <1>11

-----------------------------------------------------------------------------
(* The demuxer.                                                            *)

\* The demuxer's part of the types.
DemuxerInv ==
    /\ {local, timed} \subseteq BOOLEAN
    /\ ratio \in Ratios \cup {Normal} /\ frame \in FrameTimes
    /\ at \in {"loop", "clear"}
    /\ seek_time \in Seeks \cup {-1}
    /\ {speed, last_speed} \subseteq Speeds \cup {Normal}
    /\ {pos, raw, last_dts, first_dts, dts_offset} \subseteq Int
    /\ frames \in [Streams -> 0..count]
    /\ lf \in [last_dts : Int, seek_dts : Int, seeked : BOOLEAN]
    /\ elapsed \in 0..MaxElapsed
    /\ count \in 0..MaxPackets

Inv == DemuxerInv /\ WritersInv

\* The types are the invariant's two parts.
LEMMA InvTypes == Inv => TypeOK
  BY DEF Inv, DemuxerInv, WritersInv, WriterState, TypeOK

\* Speeds and ratios are pairs of positive numbers.
LEMMA Fractions ==
  ASSUME NEW v \in Speeds \cup Ratios \cup {Normal}
  PROVE  v[1] \in Nat \ {0} /\ v[2] \in Nat \ {0}
  BY TimestampsAssumption DEF Normal

\* Under any speed a packet stays a packet.
LEMMA SpeedAppliedType ==
  ASSUME NEW p \in Stamped, DemuxerInv
  PROVE  SpeedApplied(p) \in Stamped /\ FirstDts(Base(p)) \in Int /\ Offset \in Int
<1>1. p.pts \in Int /\ Base(p) \in Int
  BY DEF Base, Stamped
<1>2. last_dts \in Int /\ first_dts \in Int /\ dts_offset \in Int /\ NoPts \in Int
  BY TimestampsAssumption DEF DemuxerInv, NoPts
<1>3. FirstDts(Base(p)) \in Int /\ Offset \in Int
  BY <1>1, <1>2 DEF FirstDts, Offset
<1>4. Sped(Base(p)) \in Int
  <2>1. speed[1] \in Nat \ {0} /\ speed[2] \in Nat \ {0}
    <3>1. speed \in Speeds \cup Ratios \cup {Normal}
      BY DEF DemuxerInv
    <3> QED
      BY <3>1, Fractions
  <2>2. (Base(p) - FirstDts(Base(p))) * speed[2] \in Int
    BY <1>1, <1>3, <2>1
  <2>3. Trunc((Base(p) - FirstDts(Base(p))) * speed[2], speed[1]) \in Int
    BY <2>1, <2>2, TruncType
  <2> QED
    BY <1>2, <1>3, <2>3 DEF Sped
<1>5. Monotonic(Sped(Base(p))) \in Int
  BY <1>2, <1>4 DEF Monotonic
<1>6. SpeedApplied(p) \in Stamped
  BY <1>1, <1>2, <1>5 DEF SpeedApplied, Stamped
<1> QED
  BY <1>3, <1>6

\* A packet stays a packet under analyze, and a packet that does is parsed.
LEMMA AnalyzedType ==
  ASSUME NEW s \in Streams, NEW p \in Stamped, DemuxerInv
  PROVE  /\ Analyzed(s, p) \in Stamped
         /\ Parsed(p) \in [last_dts : Int, seek_dts : Int, seeked : BOOLEAN]
<1>1. Duration(s) \in Int /\ (frames[s] + 1) * Duration(s) \in Int
  <2>1. frame \in Nat /\ frames[s] \in Int
    BY TimestampsAssumption DEF DemuxerInv
  <2>2. Duration(s) \in Int
    BY <2>1 DEF Duration
  <2> QED
    BY <2>1, <2>2
<1>2. Analyzed(s, p) \in Stamped
  BY <1>1 DEF Analyzed, Stamped
<1>3. Parsed(p) \in [last_dts : Int, seek_dts : Int, seeked : BOOLEAN]
  <2>1. (IF p.dts # NoPts THEN p.dts ELSE p.pts) \in Int
    BY DEF Stamped
  <2>2. Micros(IF p.dts # NoPts THEN p.dts ELSE p.pts) \in Int
    BY <2>1, MicrosType
  <2> QED
    BY <2>2 DEF Parsed, DemuxerInv
<1> QED
  BY <1>2, <1>3

-----------------------------------------------------------------------------
(* The steps.                                                              *)

\* What a step may write: one packet, or nothing.
Advances(s) ==
    \A new \in out'["view"][s] : new.dts # NoPts =>
       /\ new.pts >= new.dts
       /\ \A old \in out["view"][s] : new.dts > old.dts

\* The packet read of a file is a packet, and so is what the demuxer makes of it.
LEMMA ReadLocalPacket ==
  ASSUME Inv, NEW s \in Streams, NEW step \in Steps, NEW cts \in 0..1,
         ReadLocal(s, step, cts)
  PROVE  \E in, p \in Stamped :
           /\ Parsed(p) \in [last_dts : Int, seek_dts : Int, seeked : BOOLEAN]
           /\ FirstDts(Base(in)) \in Int /\ Offset \in Int
           /\ first_dts' = FirstDts(Base(in))
           /\ last_dts' = IF s = "video" THEN p.dts ELSE last_dts
           /\ lf' = IF s = "video" THEN Parsed(p) ELSE lf
           /\ Write(s, p)
<1> DEFINE dts == IF timed THEN Ticks(s, pos + step) ELSE NoPts
           in == [dts |-> dts, pts |-> IF timed THEN dts + cts ELSE NoPts,
                  duration |-> 0]
           p == Analyzed(s, SpeedApplied(in))
<1>0. DemuxerInv /\ step \in Int /\ cts \in Int /\ pos \in Int /\ NoPts \in Int
  BY TimestampsAssumption DEF Inv, DemuxerInv, NoPts
<1>1. dts \in Int
  <2>1. ratio \in Speeds \cup Ratios \cup {Normal}
    BY <1>0 DEF DemuxerInv
  <2>2. ratio[1] \in Nat \ {0} /\ ratio[2] \in Nat \ {0}
    BY <2>1, Fractions
  <2>3. Ticks(s, pos + step) \in Int
    BY <1>0, <2>2 DEF Ticks
  <2> QED
    BY <1>0, <2>3
<1>2. in \in Stamped
  <2> HIDE DEF dts
  <2> QED
    BY <1>0, <1>1 DEF Stamped
<1>3. /\ first_dts' = FirstDts(Base(in))
      /\ last_dts' = IF s = "video" THEN p.dts ELSE last_dts
      /\ lf' = IF s = "video" THEN Parsed(p) ELSE lf
      /\ Write(s, p)
  BY DEF ReadLocal
<1> HIDE DEF dts, in
<1>4. SpeedApplied(in) \in Stamped /\ FirstDts(Base(in)) \in Int /\ Offset \in Int
  BY <1>0, <1>2, SpeedAppliedType
<1>5. p \in Stamped /\ Parsed(p) \in [last_dts : Int, seek_dts : Int, seeked : BOOLEAN]
  BY <1>0, <1>4, AnalyzedType
<1> HIDE DEF p
<1> QED
  BY <1>2, <1>3, <1>4, <1>5

\* Reading a packet of a file.
LEMMA ReadLocalStep ==
  ASSUME Inv, NEW s \in Streams, NEW step \in Steps, NEW cts \in 0..1,
         ReadLocal(s, step, cts)
  PROVE  Inv' /\ \A z \in Streams : frames'[z] > frames[z] => Advances(z)
<1>0. DemuxerInv /\ WritersInv /\ step \in Int /\ pos \in Int
  BY TimestampsAssumption DEF Inv, DemuxerInv
<1>2. PICK in, p \in Stamped :
        /\ Parsed(p) \in [last_dts : Int, seek_dts : Int, seeked : BOOLEAN]
        /\ FirstDts(Base(in)) \in Int /\ Offset \in Int
        /\ first_dts' = FirstDts(Base(in))
        /\ last_dts' = IF s = "video" THEN p.dts ELSE last_dts
        /\ lf' = IF s = "video" THEN Parsed(p) ELSE lf
        /\ Write(s, p)
  BY ReadLocalPacket
<1>3. /\ dts_offset' = Offset /\ last_speed' = speed
      /\ frames' = [frames EXCEPT ![s] = @ + 1]
      /\ pos' = pos + step
      /\ raw' = IF s = "video" THEN pos + step ELSE raw
      /\ count' = count + 1 /\ count < MaxPackets
      /\ UNCHANGED <<input, at, requests, elapsed>>
  BY DEF ReadLocal
<1>6. WritersInv' /\ Advances(s)
  BY <1>0, <1>2, WriteStep DEF Advances
<1>7. DemuxerInv'
  <2>1. {pos, raw, last_dts, first_dts, dts_offset}' \subseteq Int
    BY <1>0, <1>2, <1>3 DEF DemuxerInv, Stamped
  <2>2. lf' \in [last_dts : Int, seek_dts : Int, seeked : BOOLEAN]
    BY <1>0, <1>2, <1>3 DEF DemuxerInv
  <2>3. frames' \in [Streams -> 0..count']
    BY <1>0, <1>3 DEF DemuxerInv
  <2>4. count' \in 0..MaxPackets
    BY <1>0, <1>3, TimestampsAssumption DEF DemuxerInv
  <2> QED
    BY <1>0, <1>3, <2>1, <2>2, <2>3, <2>4 DEF DemuxerInv, input, requests
<1>8. ASSUME NEW z \in Streams, frames'[z] > frames[z] PROVE z = s
  BY <1>0, <1>3, <1>8 DEF DemuxerInv
<1> QED
  BY <1>6, <1>7, <1>8 DEF Inv

\* Reading a packet of a live input.
LEMMA ReadLiveStep ==
  ASSUME Inv, NEW p \in [pts : Stamps, dts : Stamps, duration : 0..1], ReadLive(p)
  PROVE  Inv' /\ \A z \in Streams : frames'[z] > frames[z] => Advances(z)
<1> DEFINE q == Analyzed("video", p)
<1>0. DemuxerInv /\ WritersInv /\ "video" \in Streams
  BY DEF Inv, Streams
<1>1. p \in Stamped
  BY TimestampsAssumption DEF Stamped, Stamps, NoPts
<1>2. q \in Stamped
  BY <1>0, <1>1, AnalyzedType
<1>3. /\ last_dts' = q.dts /\ Write("video", q)
      /\ frames' = [frames EXCEPT !["video"] = @ + 1]
      /\ count' = count + 1 /\ count < MaxPackets
      /\ UNCHANGED <<input, at, requests, pos, raw, first_dts, dts_offset, last_speed, lf, elapsed>>
  BY DEF ReadLive
<1> HIDE DEF q
<1>4. WritersInv' /\ Advances("video")
  BY <1>0, <1>2, <1>3, WriteStep DEF Advances
<1>5. DemuxerInv'
  <2>1. count' \in 0..MaxPackets
    BY <1>0, <1>3, TimestampsAssumption DEF DemuxerInv
  <2>2. frames' \in [Streams -> 0..count'] /\ last_dts' \in Int
    BY <1>0, <1>2, <1>3 DEF DemuxerInv, Stamped
  <2> QED
    BY <1>0, <1>3, <2>1, <2>2 DEF DemuxerInv, input, requests
<1>6. ASSUME NEW z \in Streams, frames'[z] > frames[z] PROVE z = "video"
  BY <1>0, <1>3, <1>6 DEF DemuxerInv
<1> QED
  BY <1>4, <1>5, <1>6 DEF Inv

\* Writers that are set up anew.
LEMMA FreshWriters ==
  ASSUME NEW c \in Writers
  PROVE  Fresh \in [Streams -> WriterState] /\ Empty \in [Streams -> SUBSET Packet]
         /\ \A s \in Streams : Empty[s] = {}
  BY DEF Fresh, Empty, WriterState

\* Every step keeps the invariant, and what it writes for a viewer advances.
LEMMA Step ==
  ASSUME Inv, [Next]_vars
  PROVE  Inv' /\ \A s \in Streams : frames'[s] > frames[s] => Advances(s)
<1>0. frames \in [Streams -> 0..count] /\ count \in Int /\ "view" \in Writers /\ "record" \in Writers
  BY DEF Inv, DemuxerInv, Writers
<1>1. ASSUME UNCHANGED <<w, out>> PROVE WritersInv'
  BY <1>1 DEF Inv, WritersInv
<1>2. ASSUME UNCHANGED frames
      PROVE  \A s \in Streams : frames'[s] > frames[s] => Advances(s)
  BY <1>0, <1>2
<1>3. CASE RequestSeek
  <2>1. DemuxerInv'
    BY <1>3 DEF RequestSeek, Inv, DemuxerInv, input, video
  <2> QED
    BY <1>1, <1>2, <1>3, <2>1 DEF RequestSeek, Inv, written
<1>4. CASE SetSpeed
  <2>1. DemuxerInv'
    BY <1>4 DEF SetSpeed, Inv, DemuxerInv, input, video
  <2> QED
    BY <1>1, <1>2, <1>4, <2>1 DEF SetSpeed, Inv, written
<1>5. CASE Tick
  <2>1. DemuxerInv'
    BY <1>5, TimestampsAssumption DEF Tick, Inv, DemuxerInv, input, requests, video
  <2> QED
    BY <1>1, <1>2, <1>5, <2>1 DEF Tick, Inv, written
<1>6. CASE NewFile
  <2>1. DemuxerInv'
    BY <1>6 DEF NewFile, Inv, DemuxerInv, input, requests, video
  <2>2. WritersInv'
    BY <1>0, <1>6, FreshWriters DEF NewFile, Inv, WritersInv, Writers
  <2> QED
    BY <1>2, <1>6, <2>1, <2>2 DEF NewFile, Inv
<1>7. CASE Seek
  <2>0. Inv /\ 0 \in Int /\ Seeks \subseteq Int
    BY TimestampsAssumption
  <2>1. lf' \in [last_dts : Int, seek_dts : Int, seeked : BOOLEAN]
    BY <1>7 DEF Seek, Inv, DemuxerInv, SeekedNow
  <2>2. pos' \in Int /\ raw' \in Int
    BY <1>7, <2>0 DEF Seek, Inv, DemuxerInv
  <2>3. DemuxerInv'
    BY <1>7, <2>1, <2>2 DEF Seek, Inv, DemuxerInv, input, requests, video
  <2> QED
    BY <1>1, <1>2, <1>7, <2>3 DEF Seek, Inv, written
<1>8. CASE ClearSeek
  <2>1. DemuxerInv'
    BY <1>8 DEF ClearSeek, Inv, DemuxerInv, input, video
  <2> QED
    BY <1>1, <1>2, <1>8, <2>1 DEF ClearSeek, Inv, written
<1>9. CASE Reopen
  <2>1. DemuxerInv'
    BY <1>9, TimestampsAssumption
    DEF Reopen, NoFrames, Inv, DemuxerInv, input, requests
  <2>2. WritersInv'
    BY <1>0, <1>9, FreshWriters DEF Reopen, WritersInv
  <2>3. ASSUME NEW s \in Streams PROVE ~(frames'[s] > frames[s])
    BY <1>0, <1>9 DEF Reopen, NoFrames
  <2> QED
    BY <2>1, <2>2, <2>3 DEF Inv
<1>10. CASE Read /\ ~Reopen
  BY <1>10, ReadLocalStep, ReadLiveStep DEF Read
<1>11. CASE UNCHANGED vars
  <2>1. DemuxerInv'
    BY <1>11 DEF vars, Inv, DemuxerInv, input, requests, video
  <2> QED
    BY <1>1, <1>2, <1>11, <2>1 DEF vars, Inv, written
<1> QED
  BY <1>3, <1>4, <1>5, <1>6, <1>7, <1>8, <1>9, <1>10, <1>11 DEF Next

\* Every state of every behaviour satisfies the invariant.
LEMMA Invariance == Spec => []Inv
<1>1. Init => Inv
  <2> SUFFICES ASSUME Init PROVE Inv
    OBVIOUS
  <2>1. DemuxerInv
    BY TimestampsAssumption DEF Init, DemuxerInv
  <2>2. WritersInv
    BY FreshWriters DEF Init, WritersInv, Writers
  <2> QED
    BY <2>1, <2>2 DEF Inv
<1>2. Inv /\ [Next]_vars => Inv'
  BY Step
<1> QED
  BY <1>1, <1>2, PTL DEF Spec

-----------------------------------------------------------------------------
(* Files: the demuxer's bounds.                                            *)

\* Where a file begins, or 0.
Low == IF Start < 0 THEN Start ELSE 0

\* How far apart the stamps t and f are under speed v.
Distance(t, f, v) == Trunc((t - f) * v[2], v[1])

\* What the bounds of a file leave of the demuxer's state (video_stream and
\* local_file) if its video has stamps: dts_offset is never beyond the last dts,
\* and dts made without stamps count the frames.
FileInv ==
  local /\ HasStamps("video") =>
    /\ Low <= pos /\ raw <= pos
    /\ 0 <= dts_offset /\ dts_offset <= last_dts
    /\ 0 <= lf.seek_dts
    /\ timed => first_dts \in -Span..Span
    /\ ~timed /\ first_dts # NoPts => last_dts = frames["video"] * frame

\* What the demuxer makes of the packet of stream s at t.
FilePacket(s, t, base, p) ==
    /\ p \in Stamped /\ base \in Int
    /\ HasStamps(s) => 1 <= p.dts /\ p.dts <= p.pts
    /\ timed =>
         /\ base \in -Span..Span
         /\ Ticks(s, t) <= base /\ base <= Ticks(s, t) + 1
         /\ p.dts = LET q == Offset + Distance(base, FirstDts(base), speed)
                    IN  IF q <= last_dts THEN last_dts + 1 ELSE q
    /\ ~timed =>
         /\ base = NoPts
         /\ s = "video" => p.dts = IF FirstDts(NoPts) = NoPts THEN last_dts + 1
                                   ELSE (frames["video"] + 1) * frame

\* Nothing, under any speed, stays nothing.
LEMMA TruncZero == ASSUME NEW b \in Nat \ {0} PROVE Trunc(0, b) = 0
<1>1. ASSUME NEW a \in Int, a = 0 PROVE Trunc(a, b) = 0
  <2>1. Trunc(a, b) \in Int /\ 0 <= Trunc(a, b) /\ Trunc(a, b) <= 0
    BY <1>1, TruncBounds
  <2> QED
    BY <2>1
<1> QED
  BY <1>1

\* What the assumptions say of the constants.
LEMMA Room ==
  /\ Half \in Nat \ {0} /\ Span \in Nat \ {0} /\ Reach \in Nat \ {0}
  /\ Reach < Half /\ Span < Half /\ NoPts = -Half
<1>1. /\ Half \in Nat \ {0} /\ Span \in Nat \ {0} /\ Reach \in Nat \ {0}
      /\ Reach < Half /\ NoPts = -Half
  BY TimestampsAssumption, RoomAssumption DEF NoPts
<1>2. 2 * Span * Normal[2] <= Reach * Normal[1]
  BY RoomAssumption
<1>3. Normal[1] = 1 /\ Normal[2] = 1
  BY DEF Normal
<1> QED
  BY <1>1, <1>2, <1>3

\* Two stamps of a file are within Reach of each other under every speed.
LEMMA DistanceWithin ==
  ASSUME NEW t \in -Span..Span, NEW f \in -Span..Span, NEW v \in Speeds \cup {Normal}
  PROVE  Distance(t, f, v) \in -Reach..Reach
<1> DEFINE n == v[1]
           d == v[2]
<1>1. n \in Nat \ {0} /\ d \in Nat \ {0}
  BY Fractions
<1>2. 2 * Span * d <= Reach * n
  BY RoomAssumption
<1>3. Span \in Nat \ {0} /\ Reach \in Nat \ {0}
  BY Room
<1>4. Distance(t, f, v) = Trunc((t - f) * d, n)
  BY DEF Distance
<1> HIDE DEF n, d
<1>5. d * (t - f) <= d * (2 * Span) /\ d * (-(2 * Span)) <= d * (t - f)
  <2>1. t - f \in Int /\ t - f <= 2 * Span /\ -(2 * Span) <= t - f
    BY <1>3
  <2> QED
    BY <1>1, <1>3, <2>1, Scaled
<1>6. (t - f) * d \in Int /\ -(n * Reach) <= (t - f) * d /\ (t - f) * d <= n * Reach
  <2>1. /\ (t - f) * d = d * (t - f) /\ d * (t - f) \in Int
        /\ d * (2 * Span) = 2 * Span * d /\ d * (-(2 * Span)) = -(2 * Span * d)
        /\ Reach * n = n * Reach /\ n * Reach \in Int /\ 2 * Span * d \in Int
    BY <1>1, <1>3
  <2> QED
    BY <1>2, <1>5, <2>1
<1>7. Trunc((t - f) * d, n) \in -Reach..Reach
  BY <1>1, <1>3, <1>6, TruncWithin
<1> QED
  BY <1>4, <1>7

\* A packet of a file with stamps: apply_speed gives it a dts beyond the last
\* one or the dts its distance from first_dts asks for, and analyze leaves it.
LEMMA TimedPacket ==
  ASSUME DemuxerInv, FileInv, local, timed, HasStamps("video"),
         NEW s \in Streams, NEW t \in Places, NEW cts \in 0..1,
         NEW in \in Stamped, in = [dts |-> Ticks(s, t), pts |-> Ticks(s, t) + cts, duration |-> 0]
  PROVE  /\ FilePacket(s, t, Base(in), SpeedApplied(in))
         /\ Analyzed(s, SpeedApplied(in)) = SpeedApplied(in)
<1> DEFINE base == Base(in)
           q == Offset + Distance(base, FirstDts(base), speed)
           p == SpeedApplied(in)
<1>1. /\ Span \in Nat /\ Reach \in Nat \ {0} /\ Reach < Half /\ Half \in Nat
      /\ NoPts = -Half /\ Span < Half
  BY Room
<1>2. Ticks(s, t) \in -Span..Span
  <2>1. ratio \in Ratios \cup {Normal} /\ Normal \in Ratios \cup {Normal}
    BY DEF DemuxerInv
  <2>2. (t * Normal[1]) \div Normal[2] \in -Span..Span
    BY <2>1, RoomAssumption
  <2>3. (t * Normal[1]) \div Normal[2] = t
    BY DEF Normal, Places
  <2>4. (t * ratio[1]) \div ratio[2] \in -Span..Span
    BY <2>1, RoomAssumption
  <2> QED
    BY <2>2, <2>3, <2>4 DEF Ticks
<1>3. /\ base \in -Span..Span /\ Ticks(s, t) <= base /\ base <= Ticks(s, t) + 1
      /\ in.pts = Ticks(s, t) + cts /\ base <= in.pts /\ in.pts <= base + 1
      /\ in.pts \in Int
  <2> DEFINE u == Ticks(s, t)
  <2>1. in.dts = u /\ in.pts = u + cts
    OBVIOUS
  <2>2. base = IF u < 0 THEN u + cts ELSE u
    BY <2>1 DEF Base
  <2>3. u \in -Span..Span
    BY <1>2
  <2> HIDE DEF u, base
  <2>4. /\ base \in -Span..Span /\ u <= base /\ base <= u + 1
        /\ base <= u + cts /\ u + cts <= base + 1 /\ u + cts \in Int
    BY <1>1, <2>2, <2>3
  <2> QED
    BY <2>1, <2>4 DEF u
<1> HIDE DEF base
<1>4. first_dts \in -Span..Span /\ FirstDts(base) \in -Span..Span
  BY <1>3 DEF FileInv, FirstDts
<1>5. /\ Offset \in Int /\ 0 <= Offset /\ Offset <= last_dts /\ last_dts \in Int
  BY DEF FileInv, DemuxerInv, Offset
<1>6. Distance(base, FirstDts(base), speed) \in -Reach..Reach
  <2>1. speed \in Speeds \cup {Normal}
    BY DEF DemuxerInv
  <2> QED
    BY <1>3, <1>4, <2>1, DistanceWithin
<1>7. q \in Int /\ q # NoPts
  BY <1>1, <1>5, <1>6
<1>8. Sped(base) = q
  <2>1. base # NoPts
    BY <1>1, <1>3
  <2> QED
    BY <2>1 DEF Sped, Distance
<1> HIDE DEF q
<1> DEFINE dts == IF q <= last_dts THEN last_dts + 1 ELSE q
<1>9. Monotonic(Sped(base)) = dts
  BY <1>7, <1>8 DEF Monotonic
<1>10. dts \in Int /\ 1 <= dts
  BY <1>1, <1>5, <1>7
<1>11. p = [pts |-> dts + (in.pts - base), dts |-> dts, duration |-> 0]
  <2>1. dts # NoPts
    BY <1>1, <1>10
  <2> HIDE DEF dts
  <2> QED
    BY <1>9, <2>1 DEF SpeedApplied, base
<1> HIDE DEF dts
<1>12. p.dts = dts /\ p.pts = dts + (in.pts - base) /\ p \in Stamped
  BY <1>3, <1>10, <1>11 DEF Stamped
<1> HIDE DEF p
<1>13. 1 <= p.dts /\ p.dts <= p.pts /\ p.pts # NoPts
  BY <1>1, <1>3, <1>5, <1>10, <1>12
<1>14. Analyzed(s, p) = p
  BY <1>13 DEF Analyzed
<1>15. FilePacket(s, t, base, p)
  BY <1>3, <1>12, <1>13 DEF FilePacket, dts, q
<1> QED
  BY <1>14, <1>15 DEF base, p

\* A packet of a file without: apply_speed counts from the last dts as long as
\* first_dts is NoPts, else analyze counts the frames.
LEMMA UntimedPacket ==
  ASSUME DemuxerInv, FileInv, local, ~timed, HasStamps("video"),
         NEW s \in Streams, NEW t \in Int,
         NEW in \in Stamped, in = [dts |-> NoPts, pts |-> NoPts, duration |-> 0]
  PROVE  FilePacket(s, t, Base(in), Analyzed(s, SpeedApplied(in)))
<1> DEFINE p == SpeedApplied(in)
<1>1. Half \in Nat \ {0} /\ NoPts = -Half /\ frame \in Nat \ {0} /\ NoPts \in Int
  BY Room, TimestampsAssumption DEF DemuxerInv, HasStamps
<1>2. Base(in) = NoPts
  BY <1>1 DEF Base
<1>3. p \in Stamped /\ Analyzed(s, p) \in Stamped
  BY SpeedAppliedType, AnalyzedType
<1>4. CASE s = "audio"
  <2>1. ~HasStamps(s)
    BY <1>4 DEF HasStamps
  <2> HIDE DEF p
  <2> QED
    BY <1>1, <1>2, <1>3, <1>4, <2>1 DEF FilePacket, p
<1>5. CASE s = "video" /\ FirstDts(NoPts) = NoPts
  <2>0. Offset \in Int /\ 0 <= Offset /\ Offset <= last_dts /\ last_dts \in Int
    BY DEF FileInv, DemuxerInv, Offset
  <2>1. Sped(NoPts) = Offset
    <3>1. (NoPts - FirstDts(NoPts)) * speed[2] = 0 /\ Trunc(0, speed[1]) = 0
      <4>1. speed \in Speeds \cup {Normal}
        BY DEF DemuxerInv
      <4>2. speed[1] \in Nat \ {0} /\ speed[2] \in Nat \ {0}
        BY <4>1, Fractions
      <4>3. Trunc(0, speed[1]) = 0
        BY <4>2, TruncZero
      <4> QED
        BY <1>1, <1>5, <4>2, <4>3
    <3>2. Sped(NoPts) = Offset + Trunc((NoPts - FirstDts(NoPts)) * speed[2], speed[1])
      BY <1>5 DEF Sped
    <3> QED
      BY <2>0, <3>1, <3>2
  <2>2. Monotonic(Sped(NoPts)) = last_dts + 1
    <3>1. Offset # NoPts
      BY <1>1, <2>0
    <3> QED
      BY <2>0, <2>1, <3>1 DEF Monotonic
  <2>3. p = [pts |-> last_dts + 1, dts |-> last_dts + 1, duration |-> 0]
    <3>1. last_dts + 1 # NoPts /\ in.pts = NoPts /\ last_dts + 1 + (NoPts - NoPts) = last_dts + 1
      BY <1>1, <2>0
    <3> QED
      BY <1>2, <2>2, <3>1 DEF SpeedApplied
  <2>4. Analyzed(s, p) = p
    <3>1. p.pts # NoPts
      BY <1>1, <2>0, <2>3
    <3> QED
      BY <3>1 DEF Analyzed
  <2>5. last_dts + 1 \in Int /\ 1 <= last_dts + 1
    BY <2>0
  <2> QED
    BY <1>1, <1>2, <1>5, <2>3, <2>4, <2>5 DEF FilePacket, Stamped
<1>6. CASE s = "video" /\ FirstDts(NoPts) # NoPts
  <2>1. Sped(NoPts) = NoPts /\ Monotonic(NoPts) = NoPts
    BY <1>6 DEF Sped, Monotonic
  <2>2. p.pts = NoPts
    BY <1>2, <2>1 DEF SpeedApplied
  <2> DEFINE n == (frames["video"] + 1) * frame
  <2>3. Analyzed(s, p) = [pts |-> n, dts |-> n, duration |-> frame]
    BY <1>1, <1>6, <2>2 DEF Analyzed, Duration
  <2>4. n \in Int /\ 1 <= n
    <3>1. frames["video"] \in Nat
      BY DEF DemuxerInv, Streams
    <3>2. frame * 1 <= frame * (frames["video"] + 1)
      BY <1>1, <3>1, Scaled
    <3> QED
      BY <1>1, <3>1, <3>2
  <2> HIDE DEF n, p
  <2>5. /\ Analyzed(s, p).pts = n /\ Analyzed(s, p).dts = n
    BY <2>3
  <2>6. n = (frames["video"] + 1) * frame
    BY DEF n
  <2> DEFINE a == Analyzed(s, p)
  <2>7. a \in Stamped /\ a.pts = n /\ a.dts = n
    BY <1>3, <2>5 DEF p
  <2> HIDE DEF a
  <2>8. FilePacket(s, t, NoPts, a)
    BY <1>1, <1>6, <2>4, <2>6, <2>7 DEF FilePacket
  <2> QED
    BY <1>2, <2>8 DEF a, p
<1> QED
  BY <1>4, <1>5, <1>6 DEF Streams

\* A later stamp is further away ...
LEMMA DistanceMonotone ==
  ASSUME NEW t \in Int, NEW u \in Int, NEW f \in Int, NEW v \in Speeds \cup {Normal}, t <= u
  PROVE  /\ Distance(t, f, v) \in Int /\ Distance(u, f, v) \in Int
         /\ Distance(t, f, v) <= Distance(u, f, v)
         /\ Distance(f, f, v) = 0
<1> DEFINE n == v[1]
           d == v[2]
<1>1. n \in Nat \ {0} /\ d \in Nat \ {0}
  BY Fractions
<1>2. \A x : Distance(x, f, v) = Trunc((x - f) * d, n)
  BY DEF Distance
<1> HIDE DEF n, d
<1>3. d * (t - f) <= d * (u - f)
  BY <1>1, Scaled
<1>4. /\ (t - f) * d \in Int /\ (u - f) * d \in Int /\ (t - f) * d <= (u - f) * d
      /\ (f - f) * d = 0
  BY <1>1, <1>3
<1>5. Trunc((t - f) * d, n) <= Trunc((u - f) * d, n)
  BY <1>1, <1>4, TruncMonotone
<1>6. Trunc((t - f) * d, n) \in Int /\ Trunc((u - f) * d, n) \in Int /\ Trunc(0, n) = 0
  BY <1>1, <1>4, TruncBounds, TruncZero
<1> QED
  BY <1>2, <1>4, <1>5, <1>6

\* ... by what lies between, but for one tick.
LEMMA DistanceSum ==
  ASSUME NEW r \in Int, NEW u \in Int, NEW f \in Int, NEW v \in Speeds \cup {Normal}, r <= u
  PROVE  Distance(u, f, v) <= Distance(r, f, v) + Distance(u, r, v) + 1
<1> DEFINE n == v[1]
           d == v[2]
<1>1. n \in Nat \ {0} /\ d \in Nat \ {0}
  BY Fractions
<1>2. \A x, y : Distance(x, y, v) = Trunc((x - y) * d, n)
  BY DEF Distance
<1> HIDE DEF n, d
<1>3. d * 0 <= d * (u - r)
  BY <1>1, Scaled
<1>4. /\ (u - r) * d \in Nat /\ (r - f) * d \in Int
      /\ (u - f) * d = (r - f) * d + (u - r) * d
  BY <1>1, <1>3
<1>5. Trunc((r - f) * d + (u - r) * d, n) <= Trunc((r - f) * d, n) + Trunc((u - r) * d, n) + 1
  BY <1>1, <1>4, TruncSum
<1> QED
  BY <1>2, <1>4, <1>5

\* The bound of NoLeap and PlayedWithinClock is a distance and a tick, and monotone.
LEMMA StretchedDistance ==
  ASSUME NEW d \in Nat, NEW e \in Nat, d <= e, NEW r \in Int, NEW v \in Speeds \cup {Normal}
  PROVE  /\ Stretched(d, v) = Distance(r + d + 1, r, v) + 1
         /\ Stretched(d, v) \in Int /\ Stretched(e, v) \in Int
         /\ 1 <= Stretched(d, v) /\ Stretched(d, v) <= Stretched(e, v)
<1>1. \A x \in Int : Distance(r + x + 1, r, v) = Trunc((x + 1) * v[2], v[1])
  <2> SUFFICES ASSUME NEW x \in Int
               PROVE  Distance(r + x + 1, r, v) = Trunc((x + 1) * v[2], v[1])
    OBVIOUS
  <2>1. (r + x + 1) - r = x + 1
    OBVIOUS
  <2> QED
    BY <2>1 DEF Distance
<1>2. /\ Stretched(d, v) = Distance(r + d + 1, r, v) + 1
      /\ Stretched(e, v) = Distance(r + e + 1, r, v) + 1
  BY <1>1 DEF Stretched
<1>3. /\ Distance(r + d + 1, r, v) \in Int /\ Distance(r + e + 1, r, v) \in Int
      /\ Distance(r + d + 1, r, v) <= Distance(r + e + 1, r, v)
  BY DistanceMonotone
<1>4. Distance(r, r, v) = 0 /\ Distance(r, r, v) <= Distance(r + d + 1, r, v)
  BY DistanceMonotone
<1> QED
  BY <1>2, <1>3, <1>4

\* Reading a packet of a file: ReadLocal in terms of FilePacket.
LEMMA ReadFile ==
  ASSUME Inv, FileInv, HasStamps("video"),
         NEW s \in Streams, NEW step \in Steps, NEW cts \in 0..1,
         ReadLocal(s, step, cts)
  PROVE  /\ local /\ step \in Nat \ {0} /\ pos + step \in Places /\ pos + step - raw <= Interleave
         /\ count < MaxPackets /\ ~ShouldWait
         /\ \E base \in Int, p \in Stamped :
              /\ FilePacket(s, pos + step, base, p)
              /\ Write(s, p)
              /\ first_dts' = FirstDts(base)
              /\ last_dts' = IF s = "video" THEN p.dts ELSE last_dts
              /\ lf' = IF s = "video"
                       THEN [last_dts |-> Micros(p.dts), seeked |-> FALSE,
                             seek_dts |-> IF lf.seeked THEN Micros(p.dts) ELSE lf.seek_dts]
                       ELSE lf
         /\ dts_offset' = Offset /\ last_speed' = speed
         /\ frames' = [frames EXCEPT ![s] = @ + 1]
         /\ pos' = pos + step
         /\ raw' = IF s = "video" THEN pos + step ELSE raw
         /\ count' = count + 1
         /\ UNCHANGED <<input, elapsed>>
<1> DEFINE dts == IF timed THEN Ticks(s, pos + step) ELSE NoPts
           in == [dts |-> dts, pts |-> IF timed THEN dts + cts ELSE NoPts, duration |-> 0]
           p == Analyzed(s, SpeedApplied(in))
<1>0. local /\ count < MaxPackets /\ ~ShouldWait
  <2>1. local /\ Reads /\ count < MaxPackets
    BY DEF ReadLocal
  <2> QED
    BY <2>1 DEF Reads
<1>0b. pos + step <= MaxPos /\ pos + step - raw <= Interleave
  BY DEF ReadLocal
<1>1. /\ first_dts' = FirstDts(Base(in))
      /\ last_dts' = IF s = "video" THEN p.dts ELSE last_dts
      /\ lf' = IF s = "video" THEN Parsed(p) ELSE lf
      /\ Write(s, p)
      /\ dts_offset' = Offset /\ last_speed' = speed
      /\ frames' = [frames EXCEPT ![s] = @ + 1]
      /\ pos' = pos + step
      /\ raw' = IF s = "video" THEN pos + step ELSE raw
      /\ count' = count + 1
      /\ UNCHANGED <<input, elapsed>>
  BY DEF ReadLocal
<1>2. DemuxerInv /\ step \in Nat \ {0} /\ pos + step \in Int /\ pos + step \in Places
  <2>1. step \in Nat \ {0} /\ pos \in Int /\ Low <= pos /\ Low \in Int /\ MaxPos \in Int
    BY <1>0, TimestampsAssumption DEF Inv, DemuxerInv, FileInv, Low
  <2> QED
    BY <1>0b, <2>1 DEF Inv, Places, Low
<1>3. dts \in Int /\ NoPts \in Int
  <2>1. NoPts \in Int
    BY Room
  <2>2. ratio[1] \in Nat \ {0} /\ ratio[2] \in Nat \ {0}
    BY <1>2, Fractions DEF DemuxerInv
  <2>3. Ticks(s, pos + step) \in Int
    BY <1>2, <2>2 DEF Ticks
  <2> QED
    BY <2>1, <2>3
<1>4. in \in Stamped
  <2> HIDE DEF dts
  <2> QED
    BY <1>3 DEF Stamped
<1>5. FilePacket(s, pos + step, Base(in), p)
  <2>1. CASE timed
    <3>1. in = [dts |-> Ticks(s, pos + step), pts |-> Ticks(s, pos + step) + cts, duration |-> 0]
      BY <2>1
    <3> HIDE DEF in
    <3> QED
      BY <1>0, <1>2, <1>4, <2>1, <3>1, TimedPacket
  <2>2. CASE ~timed
    <3>1. in = [dts |-> NoPts, pts |-> NoPts, duration |-> 0]
      BY <2>2
    <3> HIDE DEF in
    <3> QED
      BY <1>0, <1>2, <1>4, <2>2, <3>1, UntimedPacket
  <2> QED
    BY <2>1, <2>2
<1> HIDE DEF in, p
<1>6. p \in Stamped /\ Base(in) \in Int
  BY <1>5 DEF FilePacket
<1>7. s = "video" =>
        Parsed(p) = [last_dts |-> Micros(p.dts), seeked |-> FALSE,
                     seek_dts |-> IF lf.seeked THEN Micros(p.dts) ELSE lf.seek_dts]
  <2> SUFFICES ASSUME s = "video"
               PROVE  Parsed(p) = [last_dts |-> Micros(p.dts), seeked |-> FALSE,
                        seek_dts |-> IF lf.seeked THEN Micros(p.dts) ELSE lf.seek_dts]
    OBVIOUS
  <2>1. 1 <= p.dts /\ p.dts \in Int
    BY <1>5 DEF FilePacket, Stamped
  <2>2. p.dts # NoPts
    BY <2>1, Room
  <2> QED
    BY <2>2 DEF Parsed
<1>8. \E e \in Int, r \in Stamped :
        /\ FilePacket(s, pos + step, e, r)
        /\ Write(s, r)
        /\ first_dts' = FirstDts(e)
        /\ last_dts' = IF s = "video" THEN r.dts ELSE last_dts
        /\ lf' = IF s = "video"
                 THEN [last_dts |-> Micros(r.dts), seeked |-> FALSE,
                       seek_dts |-> IF lf.seeked THEN Micros(r.dts) ELSE lf.seek_dts]
                 ELSE lf
  BY <1>1, <1>5, <1>6, <1>7
<1> QED
  BY <1>0, <1>0b, <1>1, <1>2, <1>8

\* The video's dts increases.
LEMMA FileAdvances ==
  ASSUME DemuxerInv, FileInv, local, HasStamps("video"), NEW t, NEW base, NEW p \in Stamped,
         FilePacket("video", t, base, p)
  PROVE  /\ last_dts < p.dts
         /\ ~timed => p.dts <= last_dts + frame + 1
<1>0. /\ last_dts \in Int /\ frame \in Nat /\ (~timed => frame > 0)
      /\ NoPts \in Int /\ frames["video"] \in Nat
  BY Room, TimestampsAssumption DEF DemuxerInv, Streams, HasStamps
<1>1. CASE timed
  <2> DEFINE q == Offset + Distance(base, FirstDts(base), speed)
  <2>1. p.dts = IF q <= last_dts THEN last_dts + 1 ELSE q
    BY <1>1 DEF FilePacket
  <2>2. q \in Int
    <3>1. Offset \in Int /\ base \in Int /\ FirstDts(base) \in Int /\ speed \in Speeds \cup {Normal}
      BY <1>1 DEF FilePacket, DemuxerInv, Offset, FirstDts
    <3>2. Distance(base, FirstDts(base), speed) \in Int
      BY <3>1, DistanceMonotone
    <3> QED
      BY <3>1, <3>2
  <2> HIDE DEF q
  <2> QED
    BY <1>0, <1>1, <2>1, <2>2
<1>2. CASE ~timed
  <2>1. p.dts = IF FirstDts(NoPts) = NoPts THEN last_dts + 1 ELSE (frames["video"] + 1) * frame
    BY <1>2 DEF FilePacket
  <2>2. FirstDts(NoPts) # NoPts => last_dts = frames["video"] * frame
    BY <1>2 DEF FileInv, FirstDts
  <2>3. /\ (frames["video"] + 1) * frame = frames["video"] * frame + frame
        /\ frames["video"] * frame \in Int
    BY <1>0
  <2>4. CASE FirstDts(NoPts) = NoPts
    BY <1>0, <1>2, <2>1, <2>4
  <2>5. CASE FirstDts(NoPts) # NoPts
    <3>1. p.dts = last_dts + frame
      BY <2>1, <2>2, <2>3, <2>5
    <3> QED
      BY <1>0, <1>2, <3>1
  <2> QED
    BY <2>4, <2>5
<1> QED
  BY <1>1, <1>2

\* Reading keeps the bounds of the demuxer's state.
LEMMA ReadFileInv ==
  ASSUME Inv, Inv', FileInv, NEW s \in Streams, NEW step \in Steps, NEW cts \in 0..1,
         ReadLocal(s, step, cts)
  PROVE  FileInv'
<1>0. DemuxerInv /\ DemuxerInv'
  BY DEF Inv
<1>00. UNCHANGED input /\ local
  BY DEF ReadLocal
<1> SUFFICES ASSUME HasStamps("video") PROVE FileInv'
  BY <1>00 DEF FileInv, HasStamps, input
<1>1. /\ local /\ step \in Nat \ {0} /\ pos + step \in Places
      /\ dts_offset' = Offset /\ last_speed' = speed
      /\ frames' = [frames EXCEPT ![s] = @ + 1]
      /\ pos' = pos + step
      /\ raw' = IF s = "video" THEN pos + step ELSE raw
      /\ count' = count + 1
      /\ UNCHANGED <<input, elapsed>>
  BY ReadFile
<1>2. PICK base \in Int, p \in Stamped :
        /\ FilePacket(s, pos + step, base, p)
        /\ first_dts' = FirstDts(base)
        /\ last_dts' = IF s = "video" THEN p.dts ELSE last_dts
        /\ lf' = IF s = "video"
                 THEN [last_dts |-> Micros(p.dts), seeked |-> FALSE,
                       seek_dts |-> IF lf.seeked THEN Micros(p.dts) ELSE lf.seek_dts]
                 ELSE lf
  BY ReadFile
<1>3. /\ Low <= pos /\ raw <= pos /\ pos \in Int /\ raw \in Int /\ Low \in Int
      /\ 0 <= dts_offset /\ dts_offset <= last_dts
      /\ last_dts \in Int /\ dts_offset \in Int
      /\ 0 <= lf.seek_dts /\ lf.seek_dts \in Int
  BY <1>0, <1>1, TimestampsAssumption DEF FileInv, DemuxerInv, Low
<1>4. Low <= pos' /\ raw' <= pos'
  BY <1>1, <1>3
<1>6. last_dts <= last_dts' /\ last_dts' \in Int
  <2>1. CASE s = "video"
    <3>1. last_dts < p.dts
      BY <1>0, <1>1, <1>2, <2>1, FileAdvances
    <3> QED
      BY <1>2, <1>3, <2>1, <3>1 DEF Stamped
  <2> QED
    BY <1>2, <1>3, <2>1
<1>7. 0 <= dts_offset' /\ dts_offset' <= last_dts'
  BY <1>1, <1>3, <1>6 DEF Offset
<1>9. 0 <= lf'.seek_dts
  <2>1. CASE s = "video"
    <3>1. p.dts \in Nat
      BY <1>2, <2>1 DEF FilePacket, Stamped
    <3>2. Micros(p.dts) \in Nat
      BY <3>1, MicrosSum
    <3> QED
      BY <1>2, <1>3, <2>1, <3>2
  <2> QED
    BY <1>2, <1>3, <2>1
<1>10. timed' => first_dts' \in -Span..Span
  BY <1>1, <1>2 DEF input, FileInv, FilePacket, FirstDts
<1>11. ASSUME ~timed', first_dts' # NoPts PROVE last_dts' = frames'["video"] * frame'
  <2>0. frame' = frame
    BY <1>00 DEF input
  <2>1. ~timed /\ base = NoPts /\ FirstDts(NoPts) # NoPts
    BY <1>1, <1>2, <1>11 DEF input, FilePacket
  <2>2. CASE s = "video"
    <3>1. p.dts = (frames["video"] + 1) * frame
      BY <1>2, <2>1, <2>2 DEF FilePacket
    <3>2. frames'["video"] = frames["video"] + 1
      BY <1>0, <1>1, <2>2 DEF DemuxerInv
    <3> QED
      BY <1>2, <2>0, <2>2, <3>1, <3>2
  <2>3. CASE s # "video"
    <3>1. first_dts # NoPts
      BY <2>1 DEF FirstDts
    <3>2. frames'["video"] = frames["video"]
      BY <1>0, <1>1, <2>3 DEF DemuxerInv, Streams
    <3> QED
      BY <1>1, <1>2, <2>0, <2>1, <2>3, <3>1, <3>2 DEF FileInv
  <2> QED
    BY <2>2, <2>3
<1> QED
  BY <1>4, <1>7, <1>9, <1>10, <1>11 DEF FileInv

-----------------------------------------------------------------------------
(* Files: the video goes on from where it was, and not ahead of the clock. *)

\* At normal speed stamps are as far apart as they say.
LEMMA NormalDistance ==
  ASSUME NEW x \in Int
  PROVE  Trunc(x * Normal[2], Normal[1]) = x /\ Distance(x, 0, Normal) = x
<1>1. ASSUME NEW b \in Nat \ {0}, b = 1 PROVE Trunc(x, b) = x
  <2>1. /\ Trunc(x, b) \in Int
        /\ x >= 0 => b * Trunc(x, b) <= x /\ x < b * Trunc(x, b) + b
        /\ x <= 0 => x <= b * Trunc(x, b) /\ b * Trunc(x, b) < x + b
    BY TruncBounds
  <2> DEFINE y == Trunc(x, b)
  <2>2. y \in Int
    BY <2>1
  <2> HIDE DEF y
  <2>3. b * y = y
    BY <1>1, <2>2
  <2> QED
    BY <1>1, <2>1, <2>2, <2>3 DEF y
<1>2. Normal[1] = 1 /\ Normal[2] = 1 /\ x * 1 = x /\ x - 0 = x
  BY DEF Normal
<1> QED
  BY <1>1, <1>2 DEF Distance

\* The video of a file goes on from where it was: the next packet is as far from
\* the last as their positions say, whoever meets a change of speed first.
ContinuesInv ==
  local /\ timed /\ FineAudio /\ ~lf.seeked =>
    /\ 0 < frames["video"] =>
         /\ lf.last_dts = Micros(last_dts)
         /\ dts_offset + Distance(raw, first_dts, last_speed) <= last_dts
    /\ 0 = frames["video"] =>
         /\ last_dts = 0 /\ raw = Start
         /\ raw <= first_dts \/ (first_dts = 0 /\ last_speed = Normal)

\* The next video packet of a file with stamps: what its dts is at least and at
\* most, over a change of speed (first_dts and dts_offset are set anew) or not.
LEMMA VideoContinues ==
  ASSUME DemuxerInv, FileInv, ContinuesInv, local, timed, HasStamps("video"),
         NEW t \in Int, NEW base \in Int, NEW p \in Stamped,
         raw < t, t <= raw + Interleave, FilePacket("video", t, base, p)
  PROVE  /\ Offset + Distance(t, FirstDts(base), speed) <= p.dts
         /\ FineAudio /\ ~lf.seeked /\ 0 < frames["video"] =>
              p.dts - last_dts <= Stretched(t - raw, speed)
         /\ FineAudio /\ ~lf.seeked /\ 0 = frames["video"] =>
              \/ p.dts <= Beginning + Stretched(Interleave, speed)
              \/ p.dts <= Beginning + Stretched(Interleave, Normal)
<1> DEFINE f == FirstDts(base)
           q == Offset + Distance(base, f, speed)
<1>1. /\ last_dts \in Int /\ dts_offset \in Int /\ first_dts \in Int /\ raw \in Int
      /\ 0 <= dts_offset /\ dts_offset <= last_dts
      /\ speed \in Speeds \cup {Normal} /\ Normal \in Speeds \cup {Normal}
      /\ Offset \in Int /\ f \in Int /\ Interleave \in Nat \ {0} /\ Start \in Int
      /\ p.dts \in Int
  BY TimestampsAssumption DEF DemuxerInv, FileInv, Offset, FirstDts, Stamped
<1>2. t <= base /\ base <= t + 1 /\ p.dts = IF q <= last_dts THEN last_dts + 1 ELSE q
  BY DEF FilePacket, Ticks
<1>3. Distance(t, f, speed) <= Distance(base, f, speed)
      /\ Distance(t, f, speed) \in Int /\ Distance(base, f, speed) \in Int
      /\ Distance(base, f, speed) <= Distance(t + 1, f, speed)
      /\ Distance(t + 1, f, speed) \in Int
  <2>1. t + 1 \in Int
    OBVIOUS
  <2> QED
    BY <1>1, <1>2, <2>1, DistanceMonotone
<1>4. Offset + Distance(t, f, speed) <= p.dts
  BY <1>1, <1>2, <1>3
<1>5. SpeedChanged => p.dts = last_dts + 1
  <2> SUFFICES ASSUME SpeedChanged PROVE p.dts = last_dts + 1
    OBVIOUS
  <2>1. f = base /\ Offset = last_dts
    BY DEF FirstDts, Offset
  <2>2. Distance(base, base, speed) = 0
    BY <1>1, DistanceMonotone
  <2> QED
    BY <1>1, <1>2, <2>1, <2>2
<1>6. ~SpeedChanged => f = first_dts /\ Offset = dts_offset /\ speed = last_speed
  BY DEF FirstDts, Offset, SpeedChanged
<1>7. /\ Stretched(t - raw, speed) \in Int /\ Stretched(t - raw, speed) >= 1
      /\ Stretched(t - raw, speed) = Distance(t + 1, raw, speed) + 1
      /\ Stretched(t - raw, speed) <= Stretched(Interleave, speed)
      /\ Stretched(Interleave, speed) \in Int
  <2>1. t - raw \in Nat /\ Interleave \in Nat /\ t - raw <= Interleave
    BY <1>1
  <2>2. raw + (t - raw) + 1 = t + 1
    BY <1>1
  <2>3. /\ Stretched(t - raw, speed) = Distance(raw + (t - raw) + 1, raw, speed) + 1
        /\ Stretched(t - raw, speed) \in Int /\ Stretched(t - raw, speed) >= 1
        /\ Stretched(t - raw, speed) <= Stretched(Interleave, speed)
        /\ Stretched(Interleave, speed) \in Int
    BY <1>1, <2>1, StretchedDistance
  <2> QED
    BY <2>2, <2>3
<1> HIDE DEF f, q
<1>8. ASSUME FineAudio, ~lf.seeked, 0 < frames["video"]
      PROVE  p.dts - last_dts <= Stretched(t - raw, speed)
  <2>1. CASE SpeedChanged
    BY <1>1, <1>5, <1>7, <2>1
  <2>2. CASE ~SpeedChanged
    <3>1. dts_offset + Distance(raw, first_dts, speed) <= last_dts
      BY <1>6, <1>8, <2>2 DEF ContinuesInv
    <3>2. /\ Distance(t + 1, first_dts, speed)
               <= Distance(raw, first_dts, speed) + Distance(t + 1, raw, speed) + 1
          /\ Distance(raw, first_dts, speed) \in Int /\ Distance(t + 1, raw, speed) \in Int
      <4>1. t + 1 \in Int /\ raw <= t + 1
        BY <1>1
      <4> QED
        BY <1>1, <4>1, DistanceSum, DistanceMonotone
    <3>3. q <= last_dts + Stretched(t - raw, speed) /\ q \in Int
      BY <1>1, <1>3, <1>6, <1>7, <2>2, <3>1, <3>2 DEF q
    <3> QED
      BY <1>1, <1>2, <1>7, <3>3
  <2> QED
    BY <2>1, <2>2
<1>9. ASSUME FineAudio, ~lf.seeked, 0 = frames["video"]
      PROVE  \/ p.dts <= Beginning + Stretched(Interleave, speed)
             \/ p.dts <= Beginning + Stretched(Interleave, Normal)
  <2>1. /\ last_dts = 0 /\ raw = Start
        /\ raw <= first_dts \/ (first_dts = 0 /\ last_speed = Normal)
    BY <1>9 DEF ContinuesInv
  <2>2. Beginning \in Nat /\ Start <= Beginning
    BY <1>1 DEF Beginning
  <2>3. Offset = 0
    BY <1>1, <2>1 DEF Offset
  <2>4. CASE SpeedChanged
    BY <1>1, <1>5, <1>7, <2>1, <2>2, <2>4
  <2>5. CASE ~SpeedChanged /\ raw <= first_dts
    <3>1. Distance(t + 1, first_dts, speed) <= Distance(first_dts + (t - raw) + 1, first_dts, speed)
          /\ Distance(first_dts + (t - raw) + 1, first_dts, speed) \in Int
      <4>1. /\ first_dts + (t - raw) + 1 \in Int /\ t + 1 \in Int
            /\ t + 1 <= first_dts + (t - raw) + 1
        BY <1>1, <2>5
      <4> QED
        BY <1>1, <4>1, DistanceMonotone
    <3>2. Stretched(t - raw, speed) = Distance(first_dts + (t - raw) + 1, first_dts, speed) + 1
      <4>1. t - raw \in Nat
        BY <1>1
      <4> QED
        BY <1>1, <4>1, StretchedDistance
    <3>3. q <= Stretched(t - raw, speed) /\ q \in Int
      BY <1>1, <1>3, <1>6, <1>7, <2>3, <2>5, <3>1, <3>2 DEF q
    <3> QED
      BY <1>1, <1>2, <1>7, <2>1, <2>2, <3>3
  <2>6. CASE ~SpeedChanged /\ first_dts = 0 /\ last_speed = Normal
    <3>1. \A x \in Int : Distance(x, 0, Normal) = x
      BY NormalDistance
    <3>2. q = base
      <4>1. f = 0 /\ speed = Normal
        BY <1>6, <2>6
      <4> QED
        BY <1>1, <2>3, <3>1, <4>1 DEF q
    <3>3. Stretched(Interleave, Normal) = Interleave + 2
      <4>1. Trunc((Interleave + 1) * Normal[2], Normal[1]) = Interleave + 1
        BY <1>1, NormalDistance
      <4> QED
        BY <1>1, <4>1 DEF Stretched
    <3>4. base <= Beginning + Interleave + 1
      BY <1>1, <1>2, <2>1, <2>2
    <3> QED
      BY <1>1, <1>2, <2>1, <2>2, <3>2, <3>3, <3>4
  <2> QED
    BY <2>1, <2>4, <2>5, <2>6
<1> QED
  BY <1>4, <1>8, <1>9 DEF f

\* Reading keeps the video going on.
LEMMA ReadContinues ==
  ASSUME Inv, FileInv, ContinuesInv, NEW s \in Streams, NEW step \in Steps, NEW cts \in 0..1,
         ReadLocal(s, step, cts)
  PROVE  ContinuesInv'
<1>0. DemuxerInv
  BY DEF Inv
<1>00. UNCHANGED input /\ local
  BY DEF ReadLocal
<1> SUFFICES ASSUME timed, HasStamps("video") PROVE ContinuesInv'
  BY <1>00 DEF ContinuesInv, HasStamps, input
<1>1. /\ local /\ step \in Nat \ {0} /\ pos + step \in Places /\ pos + step - raw <= Interleave
      /\ dts_offset' = Offset /\ last_speed' = speed
      /\ frames' = [frames EXCEPT ![s] = @ + 1]
      /\ raw' = IF s = "video" THEN pos + step ELSE raw
      /\ UNCHANGED <<input, elapsed>>
  BY ReadFile
<1>2. PICK base \in Int, p \in Stamped :
        /\ FilePacket(s, pos + step, base, p)
        /\ first_dts' = FirstDts(base)
        /\ last_dts' = IF s = "video" THEN p.dts ELSE last_dts
        /\ lf' = IF s = "video"
                 THEN [last_dts |-> Micros(p.dts), seeked |-> FALSE,
                       seek_dts |-> IF lf.seeked THEN Micros(p.dts) ELSE lf.seek_dts]
                 ELSE lf
  BY ReadFile
<1>3. /\ raw \in Int /\ pos \in Int /\ raw <= pos /\ Interleave \in Nat
      /\ pos + step \in Int /\ raw < pos + step /\ pos + step <= raw + Interleave
      /\ last_dts \in Int /\ speed \in Speeds \cup {Normal}
      /\ frames["video"] \in Nat
  BY <1>0, <1>1, TimestampsAssumption DEF FileInv, DemuxerInv, Streams
<1> SUFFICES ASSUME timed, FineAudio, ~lf'.seeked
             PROVE  /\ 0 < frames'["video"] =>
                         /\ lf'.last_dts = Micros(last_dts')
                         /\ dts_offset' + Distance(raw', first_dts', last_speed') <= last_dts'
                    /\ 0 = frames'["video"] =>
                         /\ last_dts' = 0 /\ raw' = Start
                         /\ raw' <= first_dts' \/ (first_dts' = 0 /\ last_speed' = Normal)
  BY <1>1 DEF ContinuesInv, FineAudio, Ticks, input, Distance, Micros, Nearest
<1>4. CASE s = "video"
  <2>1. frames'["video"] = frames["video"] + 1
    BY <1>0, <1>1, <1>4 DEF DemuxerInv
  <2>2. Offset + Distance(pos + step, FirstDts(base), speed) <= p.dts
    BY <1>0, <1>1, <1>2, <1>3, <1>4, VideoContinues
  <2>3. lf'.last_dts = Micros(p.dts)
    BY <1>2, <1>4
  <2> QED
    BY <1>1, <1>2, <1>3, <1>4, <2>1, <2>2, <2>3
<1>5. CASE s = "audio"
  <2>1. /\ frames'["video"] = frames["video"] /\ lf' = lf /\ last_dts' = last_dts
        /\ raw' = raw /\ ~lf.seeked
    BY <1>0, <1>1, <1>2, <1>5 DEF DemuxerInv, Streams
  <2>2. CASE ~SpeedChanged
    <3>1. first_dts' = first_dts /\ dts_offset' = dts_offset /\ last_speed' = last_speed
      BY <1>1, <1>2, <2>2 DEF FirstDts, Offset, SpeedChanged
    <3> QED
      BY <1>1, <2>1, <3>1 DEF ContinuesInv
  <2>3. CASE SpeedChanged
    <3>1. first_dts' = base /\ dts_offset' = last_dts
      BY <1>1, <1>2, <2>3 DEF FirstDts, Offset
    <3>2. raw <= base
      <4>1. pos + step <= Ticks("audio", pos + step) /\ Ticks("audio", pos + step) <= base
        BY <1>1, <1>2, <1>5 DEF FineAudio, FilePacket
      <4>2. Ticks("audio", pos + step) \in Int
        <5>1. ratio[1] \in Nat \ {0} /\ ratio[2] \in Nat \ {0}
          BY <1>0, Fractions DEF DemuxerInv
        <5> QED
          BY <1>3, <5>1 DEF Ticks
      <4> QED
        BY <1>3, <4>1, <4>2
    <3>3. Distance(raw, base, speed) <= 0 /\ Distance(raw, base, speed) \in Int
      BY <1>3, <3>2, DistanceMonotone
    <3> QED
      BY <1>1, <1>3, <2>1, <3>1, <3>2, <3>3 DEF ContinuesInv
  <2> QED
    BY <2>2, <2>3
<1> QED
  BY <1>4, <1>5 DEF Streams

\* A stretched distance is a positive number of ticks.
LEMMA StretchedType ==
  ASSUME NEW d \in Nat, NEW v \in Speeds \cup {Normal}
  PROVE  Stretched(d, v) \in Int /\ 1 <= Stretched(d, v)
<1>1. d <= d /\ 0 \in Int
  OBVIOUS
<1> QED
  BY <1>1, StretchedDistance

\* What reading may do: the video does not leap, and stays within the clock.
LEMMA ReadPaces ==
  ASSUME Inv, FileInv, ContinuesInv, HasStamps("video"),
         NEW s \in Streams, NEW step \in Steps, NEW cts \in 0..1,
         ReadLocal(s, step, cts)
  PROVE  /\ FineAudio /\ ~lf.seeked
              /\ 0 < frames["video"] /\ frames["video"] < frames'["video"]
            => last_dts' - last_dts <=
                 IF timed THEN Stretched(pos' - raw, speed) ELSE frame + 1
         /\ PlayedWithinClock => PlayedWithinClock'
<1>0. DemuxerInv
  BY DEF Inv
<1>1. /\ local /\ step \in Nat \ {0} /\ pos + step \in Places /\ pos + step - raw <= Interleave
      /\ ~ShouldWait
      /\ frames' = [frames EXCEPT ![s] = @ + 1]
      /\ pos' = pos + step
      /\ UNCHANGED <<input, elapsed>>
  BY ReadFile
<1>2. PICK base \in Int, p \in Stamped :
        /\ FilePacket(s, pos + step, base, p)
        /\ last_dts' = IF s = "video" THEN p.dts ELSE last_dts
        /\ lf' = IF s = "video"
                 THEN [last_dts |-> Micros(p.dts), seeked |-> FALSE,
                       seek_dts |-> IF lf.seeked THEN Micros(p.dts) ELSE lf.seek_dts]
                 ELSE lf
  BY ReadFile
<1>3. /\ raw \in Int /\ pos \in Int /\ raw <= pos /\ Interleave \in Nat \ {0}
      /\ pos + step \in Int /\ raw < pos + step /\ pos + step <= raw + Interleave
      /\ step \in Int /\ last_dts \in Nat /\ p.dts \in Int /\ frame \in Nat
      /\ speed \in Speeds \cup {Normal} /\ Normal \in Speeds \cup {Normal}
      /\ frames["video"] \in Nat /\ elapsed \in Nat
      /\ 0 <= lf.seek_dts /\ lf.seek_dts \in Int /\ lf.last_dts \in Int
      /\ Beginning \in Nat
  BY <1>0, <1>1, <1>2, TimestampsAssumption
  DEF FileInv, DemuxerInv, Streams, Stamped, Beginning
<1>4. CASE s = "video"
  <2>1. /\ last_dts' = p.dts /\ lf'.last_dts = Micros(p.dts) /\ pos' = pos + step
        /\ lf'.seek_dts = IF lf.seeked THEN Micros(p.dts) ELSE lf.seek_dts
    BY <1>1, <1>2, <1>4
  <2>2. last_dts < p.dts /\ (~timed => p.dts <= last_dts + frame + 1)
    BY <1>0, <1>1, <1>2, <1>4, FileAdvances
  <2>3. timed =>
         /\ FineAudio /\ ~lf.seeked /\ 0 < frames["video"] =>
              p.dts - last_dts <= Stretched(pos + step - raw, speed)
         /\ FineAudio /\ ~lf.seeked /\ 0 = frames["video"] =>
              \/ p.dts <= Beginning + Stretched(Interleave, speed)
              \/ p.dts <= Beginning + Stretched(Interleave, Normal)
    BY <1>0, <1>1, <1>2, <1>3, <1>4, VideoContinues
  <2>4. ASSUME timed, FineAudio
        PROVE  \E v \in Speeds \cup {Normal} :
                 lf'.last_dts - lf'.seek_dts
                   <= elapsed + Micros(Beginning + Stretched(Interleave, v)) + 1
    <3>1. \A v \in Speeds \cup {Normal} :
            /\ Stretched(Interleave, v) \in Nat
            /\ Beginning + Stretched(Interleave, v) \in Nat
            /\ Micros(Beginning + Stretched(Interleave, v)) \in Nat
      <4> SUFFICES ASSUME NEW v \in Speeds \cup {Normal}
                   PROVE  /\ Stretched(Interleave, v) \in Nat
                          /\ Beginning + Stretched(Interleave, v) \in Nat
                          /\ Micros(Beginning + Stretched(Interleave, v)) \in Nat
        OBVIOUS
      <4>1. Stretched(Interleave, v) \in Int /\ 1 <= Stretched(Interleave, v)
        BY <1>3, StretchedType
      <4>2. Beginning + Stretched(Interleave, v) \in Nat
        BY <1>3, <4>1
      <4> QED
        BY <4>1, <4>2, MicrosSum
    <3>2. CASE lf.seeked
      <4>1. lf'.last_dts - lf'.seek_dts = 0
        <5>1. p.dts \in Nat
          BY <1>3, <2>2
        <5>2. Micros(p.dts) \in Nat
          BY <5>1, MicrosSum
        <5> QED
          BY <2>1, <3>2, <5>2
      <4> QED
        BY <1>3, <3>1, <4>1
    <3>3. CASE ~lf.seeked /\ 0 < frames["video"]
      <4> DEFINE room == Stretched(Interleave, speed)
      <4>0. room \in Nat /\ Beginning + room \in Nat /\ Micros(Beginning + room) \in Nat
        BY <1>3, <3>1
      <4>1. p.dts - last_dts <= Stretched(pos + step - raw, speed)
        BY <2>3, <2>4, <3>3
      <4>2. Stretched(pos + step - raw, speed) <= room /\ Stretched(pos + step - raw, speed) \in Int
        <5>1. pos + step - raw \in Nat /\ pos + step - raw <= Interleave /\ Interleave \in Nat
          BY <1>3
        <5> QED
          BY <1>3, <5>1, StretchedDistance
      <4> HIDE DEF room
      <4>3. lf.last_dts = Micros(last_dts) /\ lf.last_dts - lf.seek_dts <= elapsed
        BY <1>1, <1>3, <2>4, <3>3 DEF ContinuesInv, ShouldWait
      <4>4. PICK rest \in Nat : p.dts + rest = last_dts + room
        <5>1. last_dts + room - p.dts \in Nat
          BY <1>3, <4>0, <4>1, <4>2
        <5> QED
          BY <1>3, <4>0, <5>1
      <4>5. /\ Micros(p.dts) \in Nat /\ Micros(last_dts) \in Nat /\ Micros(room) \in Nat
            /\ Micros(p.dts) <= Micros(last_dts + room)
            /\ Micros(last_dts + room) \in Nat
            /\ Micros(last_dts + room) <= Micros(last_dts) + Micros(room) + 1
        <5>1. p.dts \in Nat
          BY <1>3, <2>2
        <5>2. Micros(p.dts) \in Nat /\ Micros(p.dts) <= Micros(p.dts + rest)
          BY <4>4, <5>1, MicrosSum
        <5>3. /\ Micros(last_dts) \in Nat /\ Micros(room) \in Nat
              /\ Micros(last_dts + room) \in Nat
              /\ Micros(last_dts + room) <= Micros(last_dts) + Micros(room) + 1
          BY <1>3, <4>0, MicrosSum
        <5>4. Micros(p.dts + rest) = Micros(last_dts + room)
          BY <4>4
        <5> QED
          BY <5>2, <5>3, <5>4
      <4>6. Micros(room) <= Micros(Beginning + room)
        <5>1. room + Beginning = Beginning + room
          BY <1>3, <4>0
        <5>2. Micros(room) <= Micros(room + Beginning)
          BY <1>3, <4>0, MicrosSum
        <5> QED
          BY <5>1, <5>2
      <4>7. lf'.last_dts - lf'.seek_dts = Micros(p.dts) - lf.seek_dts
        BY <2>1, <3>3
      <4>8. lf'.last_dts - lf'.seek_dts <= elapsed + Micros(Beginning + room) + 1
        BY <1>3, <4>0, <4>3, <4>5, <4>6, <4>7
      <4> QED
        BY <1>3, <4>8 DEF room
    <3>4. CASE ~lf.seeked /\ 0 = frames["video"]
      <4>1. \E v \in {speed, Normal} : p.dts <= Beginning + Stretched(Interleave, v)
        BY <2>3, <2>4, <3>4
      <4>2. PICK v \in Speeds \cup {Normal} : p.dts <= Beginning + Stretched(Interleave, v)
        BY <1>3, <4>1
      <4> DEFINE room == Beginning + Stretched(Interleave, v)
      <4>3. room \in Nat /\ Micros(room) \in Nat
        BY <3>1, <4>2
      <4>4. p.dts <= room
        BY <4>2
      <4> HIDE DEF room
      <4>5. PICK rest \in Nat : p.dts + rest = room
        <5>1. room - p.dts \in Nat
          BY <1>3, <4>3, <4>4
        <5> QED
          BY <1>3, <4>3, <5>1
      <4>6. Micros(p.dts) \in Nat /\ Micros(p.dts) <= Micros(room)
        <5>1. p.dts \in Nat
          BY <1>3, <2>2
        <5>2. Micros(p.dts) \in Nat /\ Micros(p.dts) <= Micros(p.dts + rest)
          BY <4>5, <5>1, MicrosSum
        <5> QED
          BY <4>5, <5>2
      <4>7. lf'.last_dts - lf'.seek_dts <= elapsed + Micros(room) + 1
        BY <1>3, <2>1, <3>4, <4>3, <4>6
      <4> QED
        BY <4>2, <4>7 DEF room
    <3> QED
      BY <1>3, <3>2, <3>3, <3>4
  <2>5. PlayedWithinClock'
    BY <1>1, <2>4
    DEF PlayedWithinClock, FineAudio, Ticks, input, Beginning, Stretched, Trunc, Micros, Nearest
  <2>6. ASSUME FineAudio, ~lf.seeked, 0 < frames["video"]
        PROVE  last_dts' - last_dts <=
                 IF timed THEN Stretched(pos' - raw, speed) ELSE frame + 1
    <3>1. CASE timed
      <4>1. p.dts - last_dts <= Stretched(pos + step - raw, speed)
        BY <2>3, <2>6, <3>1
      <4>2. pos' = pos + step /\ last_dts' = p.dts
        BY <2>1
      <4>3. pos' - raw = pos + step - raw
        BY <1>3, <4>2
      <4>4. Stretched(pos' - raw, speed) = Stretched(pos + step - raw, speed)
        BY <4>3
      <4>5. last_dts' - last_dts <= Stretched(pos' - raw, speed)
        BY <4>1, <4>2, <4>4
      <4>6. (IF timed THEN Stretched(pos' - raw, speed) ELSE frame + 1)
              = Stretched(pos' - raw, speed)
        BY <3>1, Zenon
      <4> QED
        BY <4>5, <4>6, Zenon
    <3>2. CASE ~timed
      BY <1>3, <2>1, <2>2, <3>2
    <3> QED
      BY <3>1, <3>2
  <2> QED
    BY <2>5, <2>6
<1>5. CASE s = "audio"
  <2>1. frames'["video"] = frames["video"] /\ lf' = lf
    BY <1>0, <1>1, <1>2, <1>5 DEF DemuxerInv, Streams
  <2>2. PlayedWithinClock => PlayedWithinClock'
    BY <1>1, <2>1
    DEF PlayedWithinClock, FineAudio, Ticks, input, Beginning, Stretched, Trunc, Micros, Nearest
  <2> QED
    BY <1>3, <2>1, <2>2
<1> QED
  BY <1>4, <1>5 DEF Streams

\* The rest of the application and the demuxer leave the invariants alone.
LEMMA FileStep ==
  ASSUME Inv, Inv', FileInv, [Next]_vars PROVE FileInv'
<1>1. CASE UNCHANGED <<local, timed, frame, pos, raw, frames, last_dts, first_dts, dts_offset, lf>>
  BY <1>1 DEF FileInv, HasStamps
<1>2. CASE RequestSeek \/ SetSpeed \/ Tick \/ NewFile \/ ClearSeek \/ UNCHANGED vars
  BY <1>1, <1>2 DEF RequestSeek, SetSpeed, Tick, NewFile, ClearSeek, vars, input, video
<1>3. CASE Seek
  <2> SUFFICES ASSUME HasStamps("video") PROVE FileInv'
    BY <1>3 DEF Seek, FileInv, HasStamps, input
  <2>1. pos' \in Int /\ Low <= pos' /\ raw' = pos'
    <3>1. pos \in Int /\ seek_time \in Int /\ local
      BY <1>3, TimestampsAssumption DEF Seek, Inv, DemuxerInv
    <3>2. Low <= pos /\ Low <= 0 /\ Low \in Int
      BY <3>1, TimestampsAssumption DEF FileInv, Low
    <3> QED
      BY <1>3, <3>1, <3>2 DEF Seek
  <2>2. lf'.seek_dts = lf.seek_dts
    BY <1>3 DEF Seek, Inv, DemuxerInv
  <2>3. UNCHANGED <<local, timed, frame, frames, last_dts, first_dts, dts_offset>> /\ local
    BY <1>3 DEF Seek, input, video
  <2> QED
    BY <2>1, <2>2, <2>3 DEF FileInv
<1>4. CASE Reopen
  <2>1. /\ pos' = Start /\ raw' = Start /\ last_dts' = 0 /\ first_dts' = 0 /\ dts_offset' = 0
        /\ frames'["video"] = 0 /\ UNCHANGED <<local, timed, frame, lf>>
    BY <1>4 DEF Reopen, NoFrames, Streams, input
  <2>2. Low <= Start /\ Start \in Int /\ Span \in Nat
    BY Room, TimestampsAssumption DEF Low
  <2>3. frame \in Nat /\ 0 * frame = 0
    BY TimestampsAssumption DEF Inv, DemuxerInv
  <2> QED
    BY <2>1, <2>2, <2>3 DEF FileInv, HasStamps
<1>5. ASSUME NEW s \in Streams, NEW step \in Steps, NEW cts \in 0..1, ReadLocal(s, step, cts)
      PROVE  FileInv'
  BY <1>5, ReadFileInv
<1>6. ASSUME NEW p \in [pts : Stamps, dts : Stamps, duration : 0..1], ReadLive(p)
      PROVE  FileInv'
  BY <1>6 DEF ReadLive, FileInv, input
<1> QED
  BY <1>2, <1>3, <1>4, <1>5, <1>6 DEF Next, Read

\* The same of the continuity of the video.
LEMMA ContinuesStep ==
  ASSUME Inv, FileInv, ContinuesInv, [Next]_vars PROVE ContinuesInv'
<1>1. CASE UNCHANGED <<local, timed, ratio, raw, frames, last_dts, first_dts, dts_offset,
                       last_speed, lf>>
  BY <1>1 DEF ContinuesInv, FineAudio, Ticks, Distance, Micros, Nearest
<1>2. CASE RequestSeek \/ SetSpeed \/ Tick \/ NewFile \/ ClearSeek \/ UNCHANGED vars
  BY <1>1, <1>2 DEF RequestSeek, SetSpeed, Tick, NewFile, ClearSeek, vars, input, video
<1>3. CASE Seek
  <2>1. lf'.seeked
    BY <1>3 DEF Seek, SeekedNow, Inv, DemuxerInv
  <2> QED
    BY <2>1 DEF ContinuesInv
<1>4. CASE Reopen
  <2>1. /\ raw' = Start /\ last_dts' = 0 /\ first_dts' = 0 /\ last_speed' = Normal
        /\ frames'["video"] = 0
    BY <1>4 DEF Reopen, NoFrames, Streams
  <2> QED
    BY <2>1 DEF ContinuesInv
<1>5. ASSUME NEW s \in Streams, NEW step \in Steps, NEW cts \in 0..1, ReadLocal(s, step, cts)
      PROVE  ContinuesInv'
  BY <1>5, ReadContinues
<1>6. ASSUME NEW p \in [pts : Stamps, dts : Stamps, duration : 0..1], ReadLive(p)
      PROVE  ContinuesInv'
  BY <1>6 DEF ReadLive, ContinuesInv, input
<1> QED
  BY <1>2, <1>3, <1>4, <1>5, <1>6 DEF Next, Read

\* One step of the video's property.
Leapless ==
  /\ local /\ HasStamps("video") /\ FineAudio /\ ~lf.seeked
  /\ 0 < frames["video"] /\ frames["video"] < frames'["video"]
  => last_dts' - last_dts <= IF timed THEN Stretched(pos' - raw, speed) ELSE frame + 1

\* Every step has the file's properties.
LEMMA PacedStep ==
  ASSUME Inv, FileInv, ContinuesInv, [Next]_vars
  PROVE  Leapless /\ (PlayedWithinClock => PlayedWithinClock')
<1>0. frames["video"] \in Nat /\ elapsed \in Nat
  BY DEF Inv, DemuxerInv, Streams
<1>1. CASE UNCHANGED <<input, frames>> /\ lf'.last_dts = lf.last_dts
           /\ lf'.seek_dts = lf.seek_dts /\ elapsed' \in Nat /\ elapsed <= elapsed'
  <2>1. Leapless
    BY <1>0, <1>1 DEF Leapless
  <2>2. ASSUME PlayedWithinClock, local', timed', FineAudio'
        PROVE  \E v \in Speeds \cup {Normal} :
                 lf'.last_dts - lf'.seek_dts
                   <= elapsed' + Micros(Beginning + Stretched(Interleave, v)) + 1
    <3>1. local /\ timed /\ FineAudio
      BY <1>1, <2>2 DEF input, FineAudio, Ticks
    <3>2. PICK v \in Speeds \cup {Normal} :
            lf.last_dts - lf.seek_dts
              <= elapsed + Micros(Beginning + Stretched(Interleave, v)) + 1
      BY <2>2, <3>1 DEF PlayedWithinClock
    <3>3. /\ Micros(Beginning + Stretched(Interleave, v)) \in Int
          /\ lf.last_dts \in Int /\ lf.seek_dts \in Int
      <4>1. Interleave \in Nat /\ Start \in Int
        BY TimestampsAssumption
      <4>2. Stretched(Interleave, v) \in Int
        BY <4>1, StretchedType
      <4>2b. Beginning + Stretched(Interleave, v) \in Int
        BY <4>1, <4>2 DEF Beginning
      <4>3. lf.last_dts \in Int /\ lf.seek_dts \in Int
        BY DEF Inv, DemuxerInv
      <4> QED
        BY <4>2b, <4>3, MicrosType
    <3> QED
      BY <1>0, <1>1, <3>2, <3>3
  <2>3. PlayedWithinClock => PlayedWithinClock'
    BY <2>2 DEF PlayedWithinClock, Beginning, Stretched, Trunc, Micros, Nearest
  <2> QED
    BY <2>1, <2>3
<1>2. CASE RequestSeek \/ SetSpeed \/ NewFile \/ ClearSeek \/ UNCHANGED vars
  BY <1>0, <1>1, <1>2 DEF RequestSeek, SetSpeed, NewFile, ClearSeek, vars, input
<1>3. CASE Tick
  BY <1>0, <1>1, <1>3 DEF Tick
<1>4. CASE Seek
  <2>1. lf'.last_dts = lf.last_dts /\ lf'.seek_dts = lf.seek_dts
    BY <1>4 DEF Seek, Inv, DemuxerInv
  <2> QED
    BY <1>0, <1>1, <1>4, <2>1 DEF Seek
<1>5. CASE Reopen
  <2>1. frames'["video"] = 0 /\ UNCHANGED <<input, lf, elapsed>>
    BY <1>5 DEF Reopen, NoFrames, Streams
  <2>2. PlayedWithinClock => PlayedWithinClock'
    BY <2>1 DEF PlayedWithinClock, FineAudio, Ticks, input, Beginning, Stretched, Trunc,
                Micros, Nearest
  <2> QED
    BY <1>0, <2>1, <2>2 DEF Leapless
<1>6. ASSUME NEW s \in Streams, NEW step \in Steps, NEW cts \in 0..1, ReadLocal(s, step, cts)
      PROVE  Leapless /\ (PlayedWithinClock => PlayedWithinClock')
  <2>1. CASE HasStamps("video")
    BY <1>6, <2>1, ReadPaces DEF Leapless
  <2>2. CASE ~HasStamps("video")
    <3>1. ~timed /\ ~timed'
      BY <1>6, <2>2 DEF ReadLocal, input, HasStamps
    <3> QED
      BY <2>2, <3>1 DEF Leapless, PlayedWithinClock
  <2> QED
    BY <2>1, <2>2
<1>7. ASSUME NEW p \in [pts : Stamps, dts : Stamps, duration : 0..1], ReadLive(p)
      PROVE  Leapless /\ (PlayedWithinClock => PlayedWithinClock')
  BY <1>7 DEF ReadLive, Leapless, PlayedWithinClock, input
<1> QED
  BY <1>2, <1>3, <1>4, <1>5, <1>6, <1>7 DEF Next, Read

\* The inductive invariant of both.
PacedInv == Inv /\ FileInv /\ ContinuesInv /\ PlayedWithinClock

\* Every state of every behaviour satisfies it.
LEMMA Pacing == Spec => []PacedInv
<1>1. Init => FileInv /\ ContinuesInv /\ PlayedWithinClock
  <2> SUFFICES ASSUME Init PROVE FileInv /\ ContinuesInv /\ PlayedWithinClock
    OBVIOUS
  <2>1. FileInv
    BY TimestampsAssumption, RoomAssumption DEF Init, FileInv, Low, Streams, HasStamps
  <2>2. ContinuesInv
    BY DEF Init, ContinuesInv, Streams
  <2>3. PlayedWithinClock
    <3>1. Interleave \in Nat /\ Start \in Int /\ 0 \in Int /\ Normal \in Speeds \cup {Normal}
      BY TimestampsAssumption
    <3>2. Stretched(Interleave, Normal) \in Int /\ 1 <= Stretched(Interleave, Normal)
      BY <3>1, StretchedType
    <3>3. Beginning + Stretched(Interleave, Normal) \in Nat
      BY <3>1, <3>2 DEF Beginning
    <3>4. Micros(Beginning + Stretched(Interleave, Normal)) \in Nat
      BY <3>3, MicrosSum
    <3> QED
      BY <3>1, <3>4 DEF Init, PlayedWithinClock
  <2> QED
    BY <2>1, <2>2, <2>3
<1>2. Inv /\ Inv' /\ FileInv /\ ContinuesInv /\ PlayedWithinClock /\ [Next]_vars
        => FileInv' /\ ContinuesInv' /\ PlayedWithinClock'
  BY FileStep, ContinuesStep, PacedStep
<1> QED
  BY <1>1, <1>2, Invariance, PTL DEF Spec, PacedInv

-----------------------------------------------------------------------------
(* Recordings.                                                             *)

\* What the recorder makes of a packet with stamps (write_packet): the first pts
\* becomes first_pts, and every pts its distance from it.
LEMMA RecordResult ==
  ASSUME NEW s \in Streams, NEW p \in Stamped, p.dts # NoPts
  PROVE  LET r == Recorded(s, p) IN
         /\ r.packet.src = Rescaled(p.pts)
         /\ r.state.first_pts = IF w["record"][s].first_pts = -1 THEN r.packet.src
                                                                 ELSE w["record"][s].first_pts
         /\ r.packet.pts = Clamped(r.packet.src - r.state.first_pts)
<1>1. ~Untouched(p)
  BY DEF Untouched
<1> QED
  BY <1>1 DEF Recorded, FirstPts

\* Every packet of a recording stands as far from the first as it came.
RecordInv ==
  \A s \in Streams : HasStamps(s) =>
    /\ out["record"][s] = {} => w["record"][s].first_pts = -1
    /\ \A o \in out["record"][s] :
         /\ o.pts = Clamped(o.src - w["record"][s].first_pts)
         /\ w["record"][s].first_pts = -1 => o.src = -1

\* One step of the recording's property.
Advanced(s) ==
  \A new \in out'["record"][s] :
    /\ new.pts >= 0
    /\ out["record"][s] = {} => new.pts = 0
    /\ \A old \in out["record"][s] : new.src >= old.src =>
         /\ new.pts >= old.pts
         /\ old.pts > 0 => new.pts - old.pts = new.src - old.src

\* Writing a packet keeps the recording's time line.
LEMMA RecordWrite ==
  ASSUME WritersInv, RecordInv, UNCHANGED input,
         NEW s \in Streams, NEW p \in Stamped,
         HasStamps(s) => p.dts # NoPts /\ p.pts # NoPts, Write(s, p)
  PROVE  RecordInv' /\ (HasStamps(s) => Advanced(s))
<1>0. "view" \in Writers /\ "record" \in Writers /\ "view" # "record"
  BY DEF Writers
<1>1. PICK t \in Dates :
        /\ w' = [w EXCEPT !["view"][s] = Viewed(s, p).state,
                          !["record"][s] = Recorded(s, Dated(t, p)).state]
        /\ out' = [out EXCEPT !["view"][s] = {Viewed(s, p).packet},
                              !["record"][s] = {Recorded(s, Dated(t, p)).packet}]
  BY DEF Write
<1> DEFINE v == Viewed(s, p)
           r == Recorded(s, Dated(t, p))
<1>2. /\ r.state \in WriterState /\ r.packet \in Packet
      /\ w["record"][s] \in WriterState /\ out["record"][s] \subseteq Packet
  BY <1>0, DatedType, RecordedType DEF WritersInv
<1>3. HasStamps(s) =>
        /\ r.state.first_pts = IF w["record"][s].first_pts = -1 THEN r.packet.src
                                                                ELSE w["record"][s].first_pts
        /\ r.packet.pts = Clamped(r.packet.src - r.state.first_pts)
  <2> SUFFICES ASSUME HasStamps(s)
               PROVE  /\ r.state.first_pts = IF w["record"][s].first_pts = -1 THEN r.packet.src
                                                                ELSE w["record"][s].first_pts
                      /\ r.packet.pts = Clamped(r.packet.src - r.state.first_pts)
    OBVIOUS
  <2>1. Dated(t, p) = p /\ p.dts # NoPts
    BY DatedType
  <2> QED
    BY <2>1, RecordResult
<1> HIDE DEF v, r
<1>4. /\ w' = [w EXCEPT !["view"][s] = v.state, !["record"][s] = r.state]
      /\ out' = [out EXCEPT !["view"][s] = {v.packet}, !["record"][s] = {r.packet}]
  BY <1>1 DEF v, r
<1>5. /\ w'["record"] = [w["record"] EXCEPT ![s] = r.state]
      /\ out'["record"] = [out["record"] EXCEPT ![s] = {r.packet}]
  BY <1>0, <1>4 DEF WritersInv
<1>6. /\ w'["record"][s] = r.state /\ out'["record"][s] = {r.packet}
      /\ \A z \in Streams : z # s => /\ w'["record"][z] = w["record"][z]
                                     /\ out'["record"][z] = out["record"][z]
  BY <1>0, <1>5 DEF WritersInv
<1> DEFINE first == w["record"][s].first_pts
           q == r.packet.src
           new == r.state.first_pts
<1>7. q \in Int /\ new \in Int /\ first \in Int
  BY <1>2 DEF WriterState, Packet
<1>8. ASSUME NEW z \in Streams, HasStamps(z)
      PROVE  /\ out'["record"][z] = {} => w'["record"][z].first_pts = -1
             /\ \A o \in out'["record"][z] :
                  /\ o.pts = Clamped(o.src - w'["record"][z].first_pts)
                  /\ w'["record"][z].first_pts = -1 => o.src = -1
  <2>1. CASE z = s
    BY <1>3, <1>6, <1>8, <2>1
  <2>2. CASE z # s
    BY <1>6, <1>8, <2>2 DEF RecordInv
  <2> QED
    BY <2>1, <2>2
<1>9. RecordInv'
  BY <1>8 DEF RecordInv, HasStamps, Clamped, input
<1>10. ASSUME HasStamps(s) PROVE Advanced(s)
  <2>1. r.packet.pts = Clamped(q - new) /\ new = IF first = -1 THEN q ELSE first
    BY <1>3, <1>10
  <2>2. r.packet.pts >= 0
    BY <1>7, <2>1 DEF Clamped
  <2>3. ASSUME out["record"][s] = {} PROVE r.packet.pts = 0
    <3>1. first = -1
      BY <1>10, <2>3 DEF RecordInv
    <3> QED
      BY <1>7, <2>1, <3>1 DEF Clamped
  <2>4. ASSUME NEW old \in out["record"][s], q >= old.src
        PROVE  /\ r.packet.pts >= old.pts
               /\ old.pts > 0 => r.packet.pts - old.pts = q - old.src
    <3>1. /\ old.src \in Int /\ old.pts = Clamped(old.src - first)
          /\ first = -1 => old.src = -1
      BY <1>2, <1>10 DEF RecordInv, Packet
    <3>2. CASE first = -1
      BY <1>7, <2>2, <3>1, <3>2 DEF Clamped
    <3>3. CASE first # -1
      BY <1>7, <2>1, <2>4, <3>1, <3>3 DEF Clamped
    <3> QED
      BY <3>2, <3>3
  <2> QED
    BY <1>6, <2>2, <2>3, <2>4 DEF Advanced
<1> QED
  BY <1>9, <1>10

\* So does every step.
LEMMA RecordStep ==
  ASSUME Inv, FileInv, RecordInv, [Next]_vars
  PROVE  RecordInv' /\ \A s \in Streams : HasStamps(s) => (frames'[s] > frames[s] => Advanced(s))
<1>0. DemuxerInv /\ WritersInv /\ frames \in [Streams -> Nat] /\ "video" \in Streams
  BY DEF Inv, DemuxerInv, Streams
<1>1. CASE UNCHANGED <<input, w, out, frames>>
  BY <1>0, <1>1 DEF RecordInv, HasStamps, Clamped, input
<1>2. CASE RequestSeek \/ SetSpeed \/ Tick \/ Seek \/ ClearSeek \/ UNCHANGED vars
  BY <1>1, <1>2 DEF RequestSeek, SetSpeed, Tick, Seek, ClearSeek, vars, written
<1>3. CASE NewFile \/ Reopen
  <2>1. w'["record"] = Fresh /\ out'["record"] = Empty
    BY <1>0, <1>3 DEF NewFile, Reopen, Writers, WritersInv
  <2>2. RecordInv'
    BY <2>1 DEF RecordInv, Fresh, Empty
  <2>3. \A s \in Streams : ~(frames'[s] > frames[s])
    BY <1>0, <1>3 DEF NewFile, Reopen, NoFrames
  <2> QED
    BY <2>2, <2>3
<1>4. ASSUME NEW s \in Streams, NEW step \in Steps, NEW cts \in 0..1, ReadLocal(s, step, cts)
      PROVE  RecordInv' /\ \A z \in Streams : HasStamps(z) => (frames'[z] > frames[z] => Advanced(z))
  <2>1. frames' = [frames EXCEPT ![s] = @ + 1] /\ UNCHANGED input /\ local
    BY <1>4 DEF ReadLocal
  <2>2. RecordInv' /\ (HasStamps(s) => Advanced(s))
    <3>1. CASE HasStamps("video")
      <4>1. PICK base \in Int, p \in Stamped : FilePacket(s, pos + step, base, p) /\ Write(s, p)
        BY <1>4, <3>1, ReadFile
      <4>2. HasStamps(s) => p.dts # NoPts /\ p.pts # NoPts
        BY <4>1, Room DEF FilePacket, Stamped
      <4> QED
        BY <1>0, <2>1, <4>1, <4>2, RecordWrite
    <3>2. CASE ~HasStamps("video")
      <4>1. ~HasStamps(s)
        BY <3>2 DEF HasStamps
      <4>2. \E p \in Stamped : Write(s, p)
        BY <1>4, ReadLocalPacket, <1>0 DEF Inv
      <4> QED
        BY <1>0, <2>1, <4>1, <4>2, RecordWrite
    <3> QED
      BY <3>1, <3>2
  <2>3. \A z \in Streams : frames'[z] > frames[z] => z = s
    BY <1>0, <2>1
  <2> QED
    BY <2>2, <2>3
<1>5. ASSUME NEW p \in [pts : Stamps, dts : Stamps, duration : 0..1], ReadLive(p)
      PROVE  RecordInv' /\ \A z \in Streams : HasStamps(z) => (frames'[z] > frames[z] => Advanced(z))
  <2>1. /\ ~local /\ frames' = [frames EXCEPT !["video"] = @ + 1] /\ UNCHANGED input
        /\ timed => p.pts # NoPts /\ p.dts # NoPts
        /\ Write("video", Analyzed("video", p))
    BY <1>5 DEF ReadLive
  <2>2. p \in Stamped
    BY TimestampsAssumption DEF Stamps, Stamped, NoPts
  <2>3. Analyzed("video", p) \in Stamped /\ (timed => Analyzed("video", p) = p)
    BY <1>0, <2>1, <2>2, AnalyzedType DEF Analyzed
  <2>4. HasStamps("video") => timed
    BY <2>1 DEF HasStamps
  <2>5. RecordInv' /\ (HasStamps("video") => Advanced("video"))
    BY <1>0, <2>1, <2>3, <2>4, RecordWrite
  <2>6. \A z \in Streams : frames'[z] > frames[z] => z = "video"
    BY <1>0, <2>1
  <2> QED
    BY <2>5, <2>6
<1> QED
  BY <1>2, <1>3, <1>4, <1>5 DEF Next, Read

-----------------------------------------------------------------------------
(* The theorems.                                                           *)

\* The stamps of every packet, writer and stream are integers, whatever is
\* read, sought and set.
THEOREM TypeCorrect == Spec => []TypeOK
  BY Invariance, InvTypes, PTL

\* A viewer's muxer is given increasing dts, over all seeks, changes of speed,
\* files without stamps and live inputs with arbitrary ones.
THEOREM ViewersAdvance == Spec => ViewAdvances
<1>1. Inv /\ [Next]_vars =>
        [\A s \in Streams : frames'[s] > frames[s] =>
           \A new \in out'["view"][s] : new.dts # NoPts =>
             /\ new.pts >= new.dts
             /\ \A old \in out["view"][s] :
                  old.dts # NoPts => new.dts > old.dts]_vars
  BY Step DEF Advances
<1> QED
  BY <1>1, Invariance, PTL DEF Spec, ViewAdvances

\* Changes of speed, met by audio or by video first, make no leap: a video packet
\* is as far from the last as their positions in the file, stretched.  Where the
\* packets have stamps and audio ticks are at least as fine (FineAudio).
THEOREM FilesDoNotLeap == Spec => NoLeap
<1>1. PacedInv /\ [Next]_vars =>
        [/\ local /\ HasStamps("video") /\ FineAudio /\ ~lf.seeked
         /\ 0 < frames["video"] /\ frames["video"] < frames'["video"]
         => last_dts' - last_dts <=
              IF timed THEN Stretched(pos' - raw, speed) ELSE frame + 1]_vars
  BY PacedStep DEF PacedInv, Leapless
<1> QED
  BY <1>1, Pacing, PTL DEF Spec, NoLeap

\* A file has been played for no longer, since the last seek, than its source
\* exists, but for the packet under way; with stamps and FineAudio.
THEOREM FilesWithinClock == Spec => []PlayedWithinClock
  BY Pacing, PTL DEF PacedInv

\* The recording of packets with stamps begins at 0 and keeps their distances.
THEOREM RecordingsKeepTime == Spec => RecordedTimeline
<1>1. Init => RecordInv
  BY DEF Init, RecordInv, Fresh, Empty, Writers
<1>2. PacedInv /\ RecordInv /\ [Next]_vars => RecordInv'
  BY RecordStep DEF PacedInv
<1>3. PacedInv /\ RecordInv /\ [Next]_vars =>
        [\A s \in Streams : HasStamps(s) /\ frames'[s] > frames[s] =>
           \A new \in out'["record"][s] :
             /\ new.pts >= 0
             /\ out["record"][s] = {} => new.pts = 0
             /\ \A old \in out["record"][s] : new.src >= old.src =>
                  /\ new.pts >= old.pts
                  /\ old.pts > 0 => new.pts - old.pts = new.src - old.src]_vars
  BY RecordStep DEF PacedInv, Advanced
<1> QED
  BY <1>1, <1>2, <1>3, Pacing, PTL DEF Spec, RecordedTimeline
=============================================================================
