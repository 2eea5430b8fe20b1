------------------------- MODULE TranscodingProofs -------------------------
(***************************************************************************)
(* The agreement of viewers on a container and an encoding, for any number *)
(* of viewers, any codecs and any source.                                  *)
(***************************************************************************)
EXTENDS Transcoding, WellFoundedInduction, TLAPS

\* The codec that every set-up in the preferred container comes to.
Common == IF input.preferred # "matroska" THEN Alternate(input.preferred) ELSE None

\* Nobody has overlapped with anybody as long as the history says so.
AloneInv == ~overlapped => ~Overlap

\* A set-up that nobody disturbs finds the encoder that it has made.
EncoderInv ==
    /\ ~disused => \A c \in Names : encoders[c] # "idle"
    /\ ~overlapped /\ ~disused /\ ~reopened => \A v \in Viewers :
         /\ pc[v] = "streams" /\ audio # None => encoders[audio] # "none"
         /\ pc[v] = "context" => audio # None /\ encoders[audio] # "none"

\* While no attempt fails and on_open meets nobody, everybody has the preferred
\* container, and the codec is the common one unless a viewer has just reset it.
Decided == {"initialize", "streams", "context", "header", "rotate", "served"}

AgreeInv ==
    ~moved /\ ~reopened =>
      /\ container \in {None, input.preferred}
      /\ \A v \in Viewers :
           /\ pc[v] \in {"reset", "choose"} \cup Decided => fmt[v] = input.preferred
           /\ pc[v] \in {"choose"} \cup Decided => audio \in {None, Common}
           /\ pc[v] \in {"header", "served"} =>
                said[v] \in {Common} \cup (IF overlapped THEN {None} ELSE {})
           /\ pc[v] \in Decided /\ (\A u \in Viewers : pc[u] # "choose") =>
                audio = Common

Inv == TypeOK /\ AloneInv /\ EncoderInv /\ CrashNeedsCompany /\ AgreeInv

USE TranscodingAssumption DEF vars, shared, viewer, history, Audio

\* Numbers that are not none have a least one.
LEMMA LeastNumber ==
    ASSUME NEW S, S \subseteq Nat, S # {}
    PROVE  Min(S) \in S
<1>1. PICK x \in S : \A y \in S : ~(<<y, x>> \in OpToRel(<, Nat))
      BY NatLessThanWellFounded, WFMin
<1>2. \A y \in S : x =< y
  <2> SUFFICES ASSUME NEW y \in S PROVE x =< y
        OBVIOUS
  <2>1. ~(y < x)
        BY <1>1 DEF OpToRel
  <2> QED
        BY <2>1
<1> QED
      BY <1>2 DEF Min

\* A container is given one of the codecs or none; and one that takes the
\* source's own audio none.
LEMMA AlternateType ==
    ASSUME NEW f \in Containers
    PROVE  Alternate(f) \in Audio /\ (f \in input.raw => Alternate(f) = None)
<1>1. CASE f \in input.raw \/ Search(f) = {}
      BY <1>1 DEF Alternate
<1>2. CASE ~(f \in input.raw \/ Search(f) = {})
  <2>1. Search(f) \subseteq DOMAIN Codecs /\ DOMAIN Codecs \subseteq Nat
        BY DEF Search
  <2>2. Min(Search(f)) \in Search(f)
        BY <1>2, <2>1, LeastNumber
  <2>3. Codecs[Min(Search(f))] \in Names
        BY <2>1, <2>2 DEF Names, Range
  <2> QED
        BY <1>2, <2>3 DEF Alternate
<1> QED
      BY <1>1, <1>2

\* The order of the containers is a cycle through all of them.
LEMMA AfterType ==
    ASSUME NEW c \in Containers, input \in Inputs
    PROVE  After(c) \in Containers
<1>1. input.preferred \in {"matroska", "mpegts", "flv"}
  <2>1. input \in [preferred : Containers, custom : Audio, raw : SUBSET Containers,
                   own : SUBSET Containers, video : SUBSET Containers,
                   broken : SUBSET Names, lacking : SUBSET Names]
        BY TranscodingAssumption
  <2> QED
        BY <2>1 DEF Containers
<1>2. \A i \in 1..3 : Formats[i] \in Containers
      BY <1>1 DEF Formats, Containers
<1>3. CASE c = Formats[3]
      BY <1>2, <1>3 DEF After
<1>4. CASE c # Formats[3]
  <2> DEFINE n == CHOOSE i \in 1..2 : Formats[i] = c
  <2>1. \E i \in 1..2 : Formats[i] = c
        BY <1>1, <1>4 DEF Formats, Containers
  <2>2. n \in 1..2
        BY <2>1
  <2>3. After(c) = Formats[1 + n]
        BY <1>4 DEF After
  <2> HIDE DEF n
  <2>4. 1 + n \in 1..3
        BY <2>2
  <2> QED
        BY <1>2, <2>3, <2>4
<1> QED
      BY <1>3, <1>4

-----------------------------------------------------------------------------

LEMMA InitInv == Init => Inv
<1> SUFFICES ASSUME Init PROVE Inv
      OBVIOUS
<1>1. TypeOK
  <2>1. {moved, overlapped, disused, reopened} \subseteq BOOLEAN
        BY Zenon DEF Init
  <2>2. audio \in Audio
        BY DEF Init
  <2> QED
        BY <2>1, <2>2 DEF Init, TypeOK
<1>2. AloneInv /\ EncoderInv /\ CrashNeedsCompany /\ AgreeInv
      BY DEF Init, AloneInv, Overlap, SettingUp, EncoderInv, CrashNeedsCompany, AgreeInv,
             Decided
<1> QED
      BY <1>1, <1>2 DEF Inv

\* The types: what is chosen is a codec, what follows a container is another.
LEMMA TypesKept == TypeOK /\ [Next]_vars => TypeOK'
<1> SUFFICES ASSUME TypeOK, [Next]_vars PROVE TypeOK'
      OBVIOUS
<1> USE DEF TypeOK, Step
<1>1. ASSUME NEW v \in Viewers, Add(v) PROVE TypeOK'
  <2>1. overlapped' \in BOOLEAN
        BY <1>1, Zenon DEF Add
  <2> QED
        BY <1>1, <2>1 DEF Add
<1>2. ASSUME NEW v \in Viewers, Leave(v) PROVE TypeOK'
      BY <1>2 DEF Leave
<1>3. ASSUME NEW v \in Viewers, Begin(v) PROVE TypeOK'
      BY <1>3 DEF Begin
<1>4. ASSUME NEW v \in Viewers, Unset(v) PROVE TypeOK'
      BY <1>4 DEF Unset
<1>5. ASSUME NEW v \in Viewers, Set(v) PROVE TypeOK'
  <2>1. input.preferred \in Containers
        OBVIOUS
  <2>2. input.preferred # None
        BY <2>1 DEF Containers, None
  <2> QED
        BY <1>5, <2>1, <2>2 DEF Set
<1>6. ASSUME NEW v \in Viewers, Alloc(v) PROVE TypeOK'
      BY <1>6 DEF Alloc, Start
<1>7. ASSUME NEW v \in Viewers, ResetCodec(v) PROVE TypeOK'
      BY <1>7 DEF ResetCodec
<1>8. ASSUME NEW v \in Viewers, Choose(v) PROVE TypeOK'
  <2>1. fmt[v] \in Containers
        BY <1>8 DEF Choose
  <2>2. audio' \in Audio
        BY <1>8, <2>1, AlternateType DEF Choose
  <2> QED
        BY <1>8, <2>2 DEF Choose
<1>9. ASSUME NEW v \in Viewers, Initialize(v) PROVE TypeOK'
      BY <1>9 DEF Initialize, Ensured
<1>10. ASSUME NEW v \in Viewers, Streams(v) PROVE TypeOK'
      BY <1>10 DEF Streams
<1>11. ASSUME NEW v \in Viewers, Context(v) PROVE TypeOK'
      BY <1>11 DEF Context
<1>12. ASSUME NEW v \in Viewers, WriteHeader(v) PROVE TypeOK'
      BY <1>12 DEF WriteHeader
<1>13. ASSUME NEW v \in Viewers, Rotate(v) PROVE TypeOK'
  <2>1. container \in Containers
        BY <1>13 DEF Rotate
  <2>2. After(container) \in Containers
        BY <2>1, AfterType
  <2>3. After(container) # None
        BY <2>2 DEF Containers, None
  <2> QED
        BY <1>13, <2>2, <2>3 DEF Rotate
<1>14. ASSUME NEW v \in Viewers, Move(v) PROVE TypeOK'
      BY <1>14 DEF Move, Over
<1>15. ASSUME NEW v \in Viewers, End(v) PROVE TypeOK'
      BY <1>15 DEF End, Over
<1>16. ASSUME NEW v \in Viewers, Erase(v) PROVE TypeOK'
      BY <1>16 DEF Erase
<1>17. CASE Open
      BY <1>17 DEF Open
<1>18. CASE Configure
  <2>1. reopened' \in BOOLEAN
        BY <1>18, Zenon DEF Configure
  <2> QED
        BY <1>18, <2>1 DEF Configure
<1>19. CASE StartListed
  <2>1. overlapped' \in BOOLEAN
        BY <1>19, Zenon DEF StartListed
  <2> QED
        BY <1>19, <2>1 DEF StartListed
<1>20. CASE Clear
      BY <1>20 DEF Clear
<1>21. CASE Reset
      BY <1>21 DEF Reset
<1>22. CASE Encode
      BY <1>22 DEF Encode
<1>23. CASE Prune
      BY <1>23 DEF Prune
<1>24. ASSUME NEW c \in Names, Disuse(c) PROVE TypeOK'
      BY <1>24 DEF Disuse
<1>25. CASE UNCHANGED vars
      BY <1>25
<1> QED
      BY <1>1, <1>2, <1>3, <1>4, <1>5, <1>6, <1>7, <1>8, <1>9, <1>10, <1>11, <1>12, <1>13,
         <1>14, <1>15, <1>16, <1>17, <1>18, <1>19, <1>20, <1>21, <1>22, <1>23, <1>24, <1>25
      DEF Next, SetUp, Worker

\* Set-ups that have not overlapped are one at most.
LEMMA AloneKept == TypeOK /\ AloneInv /\ [Next]_vars => AloneInv'
<1> SUFFICES ASSUME TypeOK, AloneInv, [Next]_vars PROVE AloneInv'
      OBVIOUS
<1> USE DEF AloneInv
<1>1. ASSUME overlapped' = (overlapped \/ Overlap') PROVE AloneInv'
      BY <1>1
<1>2. ASSUME SettingUp' \subseteq SettingUp, overlapped' = overlapped PROVE AloneInv'
      BY <1>2 DEF Overlap
<1>3. ASSUME NEW v \in Viewers, SetUp(v) \/ End(v) \/ Erase(v) PROVE AloneInv'
  <2>1. SettingUp' \subseteq SettingUp /\ overlapped' = overlapped
        BY <1>3 DEF TypeOK, SettingUp, SetUp, Begin, Unset, Set, Alloc, ResetCodec, Choose,
                    Initialize, Streams, Context, WriteHeader, Rotate, Move, End, Erase, Step
  <2> QED
        BY <1>2, <2>1
<1>4. CASE Clear
  <2>1. SettingUp' \subseteq SettingUp /\ overlapped' = overlapped
        BY <1>4 DEF Clear, SettingUp
  <2> QED
        BY <1>2, <2>1
<1>5. CASE UNCHANGED <<pc, overlapped>>
  <2>1. SettingUp' = SettingUp
        BY <1>5 DEF SettingUp
  <2> QED
        BY <1>2, <1>5, <2>1
<1> QED
      BY <1>1, <1>3, <1>4, <1>5
      DEF Next, Worker, Add, StartListed, Leave, Open, Configure, Reset, Encode, Prune, Disuse

\* An encoder that was made for a set-up stays until it is taken, and what is
\* taken is there.
LEMMA EncoderKept ==
    TypeOK /\ AloneInv /\ EncoderInv /\ CrashNeedsCompany /\ [Next]_vars
      => EncoderInv' /\ CrashNeedsCompany'
<1> DEFINE Goal == EncoderInv /\ CrashNeedsCompany
<1> SUFFICES ASSUME TypeOK, AloneInv, EncoderInv, CrashNeedsCompany, [Next]_vars
             PROVE  Goal'
      OBVIOUS
<1> USE DEF TypeOK, EncoderInv, CrashNeedsCompany, Step
<1>1. ASSUME NEW v \in Viewers, Add(v) PROVE Goal'
      BY <1>1 DEF Add
<1>2. ASSUME NEW v \in Viewers, Leave(v) PROVE Goal'
      BY <1>2 DEF Leave
<1>3. ASSUME NEW v \in Viewers, Begin(v) PROVE Goal'
      BY <1>3 DEF Begin
<1>4. ASSUME NEW v \in Viewers, Unset(v) PROVE Goal'
      BY <1>4 DEF Unset
<1>5. ASSUME NEW v \in Viewers, Set(v) PROVE Goal'
      BY <1>5 DEF Set
<1>6. ASSUME NEW v \in Viewers, Alloc(v) PROVE Goal'
      BY <1>6 DEF Alloc
<1>7. ASSUME NEW v \in Viewers, ResetCodec(v) PROVE Goal'
      BY <1>7 DEF ResetCodec, AloneInv, Overlap, SettingUp
<1>8. ASSUME NEW v \in Viewers, Choose(v) PROVE Goal'
      BY <1>8 DEF Choose, AloneInv, Overlap, SettingUp
<1>9. ASSUME NEW v \in Viewers, Initialize(v) PROVE Goal'
  <2>1. CASE audio = None /\ encoders' = encoders
        BY <1>9, <2>1 DEF Initialize, AloneInv, Overlap, SettingUp
  <2>2. CASE audio # None /\ encoders' = Ensured(audio)
        BY <1>9, <2>2 DEF Initialize, Ensured, AloneInv, Overlap, SettingUp
  <2>3. CASE encoders' = encoders /\ pc' = [pc EXCEPT ![v] = "rotate"]
        BY <1>9, <2>3 DEF Initialize, AloneInv, Overlap, SettingUp
  <2> QED
        BY <1>9, <2>1, <2>2, <2>3 DEF Initialize
<1>10. ASSUME NEW v \in Viewers, Streams(v) PROVE Goal'
      BY <1>10 DEF Streams
<1>11. ASSUME NEW v \in Viewers, Context(v) PROVE Goal'
      BY <1>11 DEF Context
<1>12. ASSUME NEW v \in Viewers, WriteHeader(v) PROVE Goal'
      BY <1>12 DEF WriteHeader
<1>13. ASSUME NEW v \in Viewers, Rotate(v) PROVE Goal'
      BY <1>13 DEF Rotate
<1>14. ASSUME NEW v \in Viewers, Move(v) PROVE Goal'
      BY <1>14 DEF Move, Over
<1>15. ASSUME NEW v \in Viewers, End(v) PROVE Goal'
      BY <1>15 DEF End, Over
<1>16. ASSUME NEW v \in Viewers, Erase(v) PROVE Goal'
      BY <1>16 DEF Erase
<1>17. CASE Open
      BY <1>17 DEF Open
<1>18. CASE Configure
      BY <1>18 DEF Configure
<1>19. CASE StartListed
      BY <1>19 DEF StartListed
<1>20. CASE Clear
      BY <1>20 DEF Clear
<1>21. CASE Reset
      BY <1>21 DEF Reset
<1>22. CASE Encode
      BY <1>22 DEF Encode
<1>23. CASE Prune
  <2>1. disused
        BY <1>23 DEF Prune
  <2> QED
        BY <1>23, <2>1 DEF Prune
<1>24. ASSUME NEW c \in Names, Disuse(c) PROVE Goal'
      BY <1>24 DEF Disuse
<1>25. CASE UNCHANGED vars
      BY <1>25
<1> QED
      BY <1>1, <1>2, <1>3, <1>4, <1>5, <1>6, <1>7, <1>8, <1>9, <1>10, <1>11, <1>12, <1>13,
         <1>14, <1>15, <1>16, <1>17, <1>18, <1>19, <1>20, <1>21, <1>22, <1>23, <1>24, <1>25
      DEF Next, SetUp, Worker

\* The common codec is a codec, and none if the source's own audio fits.
LEMMA CommonType ==
    ASSUME TypeOK
    PROVE  /\ Common \in Audio
           /\ input.preferred \in Containers /\ input.preferred # None
           /\ input.preferred \in input.raw => Common = None
<1>1. input.preferred \in Containers
      BY DEF TypeOK
<1>2. input.preferred # None
      BY <1>1 DEF Containers, None
<1> QED
      BY <1>1, <1>2, AlternateType DEF Common

\* Until an attempt fails, a set-up resets the codec and then makes it common.
LEMMA AgreeKept == TypeOK /\ AloneInv /\ AgreeInv /\ [Next]_vars => AgreeInv'
<1> SUFFICES ASSUME TypeOK, AloneInv, AgreeInv, [Next]_vars, ~moved', ~reopened'
             PROVE  AgreeInv'
      BY DEF AgreeInv
<1> USE DEF AgreeInv, Decided, Step
<1>a. input' = input /\ Common' = Common
      BY DEF Next, SetUp, Worker, Add, Leave, Begin, Unset, Set, Alloc, ResetCodec, Choose,
             Initialize, Streams, Context, WriteHeader, Rotate, Move, End, Erase, Open,
             Configure, StartListed, Clear, Reset, Encode, Disuse, Prune, Common, Alternate,
             Search
<1>b. /\ Common \in Audio
      /\ input.preferred \in Containers /\ input.preferred # None
      /\ input.preferred \in input.raw => Common = None
      BY CommonType
<1> USE <1>a, <1>b
<1> HIDE DEF Audio
<1>1. ASSUME NEW v \in Viewers, Add(v) PROVE AgreeInv'
      BY <1>1 DEF Add, TypeOK
<1>2. ASSUME NEW v \in Viewers, Leave(v) PROVE AgreeInv'
      BY <1>2 DEF Leave, TypeOK
<1>3. ASSUME NEW v \in Viewers, Begin(v) PROVE AgreeInv'
      BY <1>3 DEF Begin, TypeOK
<1>4. ASSUME NEW v \in Viewers, Unset(v) PROVE AgreeInv'
      BY <1>4 DEF Unset, TypeOK
<1>5. ASSUME NEW v \in Viewers, Set(v) PROVE AgreeInv'
      BY <1>5 DEF Set, TypeOK
<1>6. ASSUME NEW v \in Viewers, Alloc(v) PROVE AgreeInv'
      BY <1>6 DEF Alloc, Start, TypeOK
<1>7. ASSUME NEW v \in Viewers, ResetCodec(v) PROVE AgreeInv'
      BY <1>7 DEF ResetCodec, TypeOK
<1>8. ASSUME NEW v \in Viewers, Choose(v) PROVE AgreeInv'
  <2>1. fmt[v] = input.preferred /\ container = input.preferred
        BY <1>8 DEF Choose, TypeOK
  <2>2. CASE container # "matroska" /\ Alternate(fmt[v]) \in input.lacking
        BY <1>8, <2>2 DEF Choose, TypeOK
  <2>3. CASE ~(container # "matroska" /\ Alternate(fmt[v]) \in input.lacking)
    <3>1. audio' = Common
          BY <1>8, <2>1, <2>3 DEF Choose, Common
    <3> QED
          BY <1>8, <2>3, <3>1 DEF Choose, TypeOK
  <2> QED
        BY <2>2, <2>3
<1>9. ASSUME NEW v \in Viewers, Initialize(v) PROVE AgreeInv'
      BY <1>9 DEF Initialize, TypeOK
<1>10. ASSUME NEW v \in Viewers, Streams(v) PROVE AgreeInv'
  <2>1. ~overlapped => audio = Common
        BY <1>10 DEF Streams, AloneInv, Overlap, SettingUp
  <2> QED
        BY <1>10, <2>1 DEF Streams, TypeOK
<1>11. ASSUME NEW v \in Viewers, Context(v) PROVE AgreeInv'
  <2>1. ~overlapped => audio = Common
        BY <1>11 DEF Context, AloneInv, Overlap, SettingUp
  <2> QED
        BY <1>11, <2>1 DEF Context, TypeOK
<1>12. ASSUME NEW v \in Viewers, WriteHeader(v) PROVE AgreeInv'
      BY <1>12 DEF WriteHeader, TypeOK
<1>13. ASSUME NEW v \in Viewers, Rotate(v) PROVE AgreeInv'
      BY <1>13 DEF Rotate, TypeOK
<1>14. ASSUME NEW v \in Viewers, Move(v) PROVE AgreeInv'
      BY <1>14 DEF Move, Over, TypeOK
<1>15. ASSUME NEW v \in Viewers, End(v) PROVE AgreeInv'
      BY <1>15 DEF End, Over, TypeOK
<1>16. ASSUME NEW v \in Viewers, Erase(v) PROVE AgreeInv'
      BY <1>16 DEF Erase, TypeOK
<1>17. CASE Open
      BY <1>17 DEF Open, TypeOK
<1>18. CASE Configure
  <2>1. \A v \in Viewers : pc[v] \in {"away", "waiting"}
        BY <1>18 DEF Configure
  <2> QED
        BY <1>18, <2>1 DEF Configure, TypeOK
<1>19. CASE StartListed
      BY <1>19 DEF StartListed, TypeOK
<1>20. CASE Clear
      BY <1>20 DEF Clear, TypeOK
<1>21. CASE Reset
      BY <1>21 DEF Reset, TypeOK
<1>22. CASE Encode
      BY <1>22 DEF Encode, TypeOK
<1>23. CASE Prune
      BY <1>23 DEF Prune, TypeOK
<1>24. ASSUME NEW c \in Names, Disuse(c) PROVE AgreeInv'
      BY <1>24 DEF Disuse, TypeOK
<1>25. CASE UNCHANGED vars
      BY <1>25 DEF TypeOK
<1> QED
      BY <1>1, <1>2, <1>3, <1>4, <1>5, <1>6, <1>7, <1>8, <1>9, <1>10, <1>11, <1>12, <1>13,
         <1>14, <1>15, <1>16, <1>17, <1>18, <1>19, <1>20, <1>21, <1>22, <1>23, <1>24, <1>25
      DEF Next, SetUp, Worker

-----------------------------------------------------------------------------

LEMMA NextInv == Inv /\ [Next]_vars => Inv'
      BY TypesKept, AloneKept, EncoderKept, AgreeKept DEF Inv

LEMMA InvIsInvariant == Spec => []Inv
<1>1. Init => Inv
      BY InitInv
<1> QED
      BY <1>1, NextInv, PTL DEF Spec

\* What is shared by the threads of the viewers and the worker, and where each
\* of them is, stays of its type.
THEOREM TypeCorrect == Spec => []TypeOK
<1>1. Inv => TypeOK
      BY DEF Inv
<1> QED
      BY InvIsInvariant, <1>1, PTL

\* A set-up finds the encoder it made, unless it overlapped with another or with
\* on_open, or the encoder was out of use for ten seconds and pruned in between.
THEOREM NoCrashAlone == Spec => []CrashNeedsCompany
<1>1. Inv => CrashNeedsCompany
      BY DEF Inv
<1> QED
      BY InvIsInvariant, <1>1, PTL

\* Until an attempt fails, or on_open meets a viewer, whoever is served has the
\* source's container and gets what its header announced; or the header announced
\* the source's own codec, if set-ups have overlapped.
THEOREM ServedAsAnnounced == Spec => []Understood
<1>1. Inv => Understood
  <2> SUFFICES ASSUME Inv, ~moved, ~reopened, SettingUp = {}, NEW v \in Viewers,
                      pc[v] = "served"
               PROVE  /\ fmt[v] = container
                      /\ said[v] = audio \/ (overlapped /\ said[v] = None)
        BY DEF Understood
  <2>1. \A u \in Viewers : pc[u] # "choose"
        BY DEF SettingUp
  <2>2. audio = Common
        BY <2>1 DEF Inv, AgreeInv, Decided
  <2>3. said[v] = Common \/ (overlapped /\ said[v] = None)
        BY DEF Inv, AgreeInv, Decided
  <2>4. container # None
        BY DEF Inv, TypeOK
  <2>5. fmt[v] = container
        BY <2>4 DEF Inv, AgreeInv, Decided
  <2> QED
        BY <2>2, <2>3, <2>5
<1> QED
      BY InvIsInvariant, <1>1, PTL
=============================================================================
