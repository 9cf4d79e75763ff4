----------------------------- MODULE DabTables ------------------------------
(***************************************************************************)
(* How a DAB sub-channel is protected: the puncturing vectors, the UEP     *)
(* table, the EEP formulas, and what the two sides of the convolutional    *)
(* code make of them.  Only lengths and positions are kept of the bits.    *)
(***************************************************************************)
EXTENDS Integers, Sequences, FiniteSets, Functions

NoProfile == [regions |-> <<>>]

-----------------------------------------------------------------------------
(* Puncturing.                                                             *)

\* PI n keeps every fourth bit of 32, and n more in a fixed order.
PunctureOrder == <<1, 17, 9, 25, 5, 21, 13, 29, 2, 18, 10, 26,
                   6, 22, 14, 30, 3, 19, 11, 27, 7, 23, 15, 31>>
P_CODES(pi) == {b \in 0..31 : b % 4 = 0} \cup {PunctureOrder[i] : i \in 1..pi}

\* V_T: of the last 24 bits, two of every four.
PI_TAIL == {b \in 0..23 : b % 4 \in {0, 1}}

pi_ones(pi) == 8 + pi

\* A region is <<blocks of 128 bits, PI>>; an empty one is skipped.
MotherOf(region) == region[1] * 128
KeptOf(region) == IF region[1] = 0 THEN 0 ELSE region[1] * 4 * pi_ones(region[2])

mother_bits(regions) == SumFunction([i \in DOMAIN regions |-> MotherOf(regions[i])]) + 24
punctured_bits(regions) == SumFunction([i \in DOMAIN regions |-> KeptOf(regions[i])]) + 12

\* What depuncture_regions takes from the channel, vector by vector.
ReadOf(region) == IF region[1] = 0 THEN 0 ELSE region[1] * 4 * Cardinality(P_CODES(region[2]))
ReadBits(regions) == SumFunction([i \in DOMAIN regions |-> ReadOf(regions[i])]) + Cardinality(PI_TAIL)

\* The FIC's own regions: three FIBs in one codeword.
FicRegions == <<<<21, 16>>, <<3, 15>>>>

-----------------------------------------------------------------------------
(* Profiles: the regions, the bit rate, the size in capacity units and the *)
(* padding.                                                                *)

Profile(kbps, size, regions, padding) ==
    [kbps |-> kbps, size |-> size, regions |-> regions, padding |-> padding]

\* One row of tables 8 and 15.
Uep(kbps, level, size, l, pi, padding) ==
    [level |-> level, profile |-> Profile(kbps, size, [i \in 1..4 |-> <<l[i], pi[i]>>], padding)]

\* 32 to 56 kbit/s.
UepSlow == <<
    Uep(32, 5, 16, <<3, 4, 17, 0>>, <<5, 3, 2, 0>>, 0),
    Uep(32, 4, 21, <<3, 3, 18, 0>>, <<11, 6, 5, 0>>, 0),
    Uep(32, 3, 24, <<3, 4, 14, 3>>, <<15, 9, 6, 8>>, 0),
    Uep(32, 2, 29, <<3, 4, 14, 3>>, <<22, 13, 8, 13>>, 0),
    Uep(32, 1, 35, <<3, 5, 13, 3>>, <<24, 17, 12, 17>>, 4),
    Uep(48, 5, 24, <<4, 3, 26, 3>>, <<5, 4, 2, 3>>, 0),
    Uep(48, 4, 29, <<3, 4, 26, 3>>, <<9, 6, 4, 6>>, 0),
    Uep(48, 3, 35, <<3, 4, 26, 3>>, <<15, 10, 6, 9>>, 4),
    Uep(48, 2, 42, <<3, 4, 26, 3>>, <<24, 14, 8, 15>>, 0),
    Uep(48, 1, 52, <<3, 5, 25, 3>>, <<24, 18, 13, 18>>, 0),
    Uep(56, 5, 29, <<6, 10, 23, 3>>, <<5, 4, 2, 3>>, 0),
    Uep(56, 4, 35, <<6, 10, 23, 3>>, <<9, 6, 4, 5>>, 0),
    Uep(56, 3, 42, <<6, 12, 21, 3>>, <<16, 7, 6, 9>>, 0),
    Uep(56, 2, 52, <<6, 10, 23, 3>>, <<23, 13, 8, 13>>, 8) >>
\* 64 to 96 kbit/s.
UepLow == <<
    Uep(64, 5, 32, <<6, 9, 31, 2>>, <<5, 3, 2, 3>>, 0),
    Uep(64, 4, 42, <<6, 9, 33, 0>>, <<11, 6, 5, 0>>, 0),
    Uep(64, 3, 48, <<6, 12, 27, 3>>, <<16, 8, 6, 9>>, 0),
    Uep(64, 2, 58, <<6, 10, 29, 3>>, <<23, 13, 8, 13>>, 8),
    Uep(64, 1, 70, <<6, 11, 28, 3>>, <<24, 18, 12, 18>>, 4),
    Uep(80, 5, 40, <<6, 10, 41, 3>>, <<6, 3, 2, 3>>, 0),
    Uep(80, 4, 52, <<6, 10, 41, 3>>, <<11, 6, 5, 6>>, 0),
    Uep(80, 3, 58, <<6, 11, 40, 3>>, <<16, 8, 6, 7>>, 0),
    Uep(80, 2, 70, <<6, 10, 41, 3>>, <<23, 13, 8, 13>>, 8),
    Uep(80, 1, 84, <<6, 10, 41, 3>>, <<24, 17, 12, 18>>, 4),
    Uep(96, 5, 48, <<7, 9, 53, 3>>, <<5, 4, 2, 4>>, 0),
    Uep(96, 4, 58, <<7, 10, 52, 3>>, <<9, 6, 4, 6>>, 0),
    Uep(96, 3, 70, <<6, 12, 51, 3>>, <<16, 9, 6, 10>>, 4),
    Uep(96, 2, 84, <<6, 10, 53, 3>>, <<22, 12, 9, 12>>, 0),
    Uep(96, 1, 104, <<6, 13, 50, 3>>, <<24, 18, 13, 19>>, 0) >>
\* 112 to 160 kbit/s.
UepMiddle == <<
    Uep(112, 5, 58, <<14, 17, 50, 3>>, <<5, 4, 2, 5>>, 0),
    Uep(112, 4, 70, <<11, 21, 49, 3>>, <<9, 6, 4, 8>>, 0),
    Uep(112, 3, 84, <<11, 23, 47, 3>>, <<16, 8, 6, 9>>, 0),
    Uep(112, 2, 104, <<11, 21, 49, 3>>, <<23, 12, 9, 14>>, 4),
    Uep(128, 5, 64, <<12, 19, 62, 3>>, <<5, 3, 2, 4>>, 0),
    Uep(128, 4, 84, <<11, 21, 61, 3>>, <<11, 6, 5, 7>>, 0),
    Uep(128, 3, 96, <<11, 22, 60, 3>>, <<16, 9, 6, 10>>, 4),
    Uep(128, 2, 116, <<11, 21, 61, 3>>, <<22, 12, 9, 14>>, 0),
    Uep(128, 1, 140, <<11, 20, 62, 3>>, <<24, 17, 13, 19>>, 8),
    Uep(160, 5, 80, <<11, 19, 87, 3>>, <<5, 4, 2, 4>>, 0),
    Uep(160, 4, 104, <<11, 23, 83, 3>>, <<11, 6, 5, 9>>, 0),
    Uep(160, 3, 116, <<11, 24, 82, 3>>, <<16, 8, 6, 11>>, 0),
    Uep(160, 2, 140, <<11, 21, 85, 3>>, <<22, 11, 9, 13>>, 0),
    Uep(160, 1, 168, <<11, 22, 84, 3>>, <<24, 18, 12, 19>>, 0) >>
\* 192 to 256 kbit/s.
UepHigh == <<
    Uep(192, 5, 96, <<11, 20, 110, 3>>, <<6, 4, 2, 5>>, 0),
    Uep(192, 4, 116, <<11, 22, 108, 3>>, <<10, 6, 4, 9>>, 0),
    Uep(192, 3, 140, <<11, 24, 106, 3>>, <<16, 10, 6, 11>>, 0),
    Uep(192, 2, 168, <<11, 20, 110, 3>>, <<22, 13, 9, 13>>, 8),
    Uep(192, 1, 208, <<11, 21, 109, 3>>, <<24, 20, 13, 24>>, 0),
    Uep(224, 5, 116, <<12, 22, 131, 3>>, <<8, 6, 2, 6>>, 4),
    Uep(224, 4, 140, <<12, 26, 127, 3>>, <<12, 8, 4, 11>>, 0),
    Uep(224, 3, 168, <<11, 20, 134, 3>>, <<16, 10, 7, 9>>, 0),
    Uep(224, 2, 208, <<11, 22, 132, 3>>, <<24, 16, 10, 15>>, 0),
    Uep(224, 1, 232, <<11, 24, 130, 3>>, <<24, 20, 12, 20>>, 4),
    Uep(256, 5, 128, <<11, 24, 154, 3>>, <<6, 5, 2, 5>>, 0),
    Uep(256, 4, 168, <<11, 24, 154, 3>>, <<12, 9, 5, 10>>, 4),
    Uep(256, 3, 192, <<11, 27, 151, 3>>, <<16, 10, 7, 10>>, 0),
    Uep(256, 2, 232, <<11, 22, 156, 3>>, <<24, 14, 10, 13>>, 8),
    Uep(256, 1, 280, <<11, 26, 152, 3>>, <<24, 19, 14, 18>>, 4) >>
\* 320 and 384 kbit/s, where a level may have no profile.
UepTop == <<
    Uep(320, 5, 160, <<11, 26, 200, 3>>, <<8, 5, 2, 6>>, 4),
    Uep(320, 4, 208, <<11, 25, 201, 3>>, <<13, 9, 5, 10>>, 8),
    Uep(320, 2, 280, <<11, 26, 200, 3>>, <<24, 17, 9, 17>>, 0),
    Uep(384, 5, 192, <<11, 27, 247, 3>>, <<8, 6, 2, 7>>, 0),
    Uep(384, 3, 280, <<11, 24, 250, 3>>, <<16, 9, 7, 10>>, 4),
    Uep(384, 1, 416, <<12, 28, 245, 3>>, <<24, 20, 14, 23>>, 8) >>

\* Table 8's index is the place in this sequence, from 0.
UEP_PROFILES == UepSlow \o UepLow \o UepMiddle \o UepHigh \o UepTop

uep_profile(index) ==
    IF index < Len(UEP_PROFILES) THEN UEP_PROFILES[index + 1].profile ELSE NoProfile

\* Tables 18 and 20.
SetA(n, level) ==
    CASE level = 0            -> <<<<6 * n - 3, 24>>, <<3, 23>>>>
      [] level = 1 /\ n = 1   -> <<<<5, 13>>, <<1, 12>>>>
      [] level = 1 /\ n # 1   -> <<<<2 * n - 3, 14>>, <<4 * n + 3, 13>>>>
      [] level = 2            -> <<<<6 * n - 3, 8>>, <<3, 7>>>>
      [] OTHER                -> <<<<4 * n - 3, 3>>, <<2 * n + 3, 2>>>>
SetB(n, level) ==
    LET pi == CASE level = 0 -> 10 [] level = 1 -> 6 [] level = 2 -> 4 [] OTHER -> 2
    IN <<<<24 * n - 3, pi>>, <<3, pi - 1>>>>

\* The bit rates of a set are the multiples of its step.
Step(option) == IF option = 0 THEN 8 ELSE 32

eep_profile(kbps, level, option) ==
    LET n == kbps \div Step(option)
        regions == IF option = 0 THEN SetA(n, level) ELSE SetB(n, level)
    IN IF \/ level > 3 \/ option > 1 \/ kbps < Step(option) \/ kbps % Step(option) # 0
          \/ \E i \in 1..2 : regions[i][1] < 0
       THEN NoProfile
       ELSE Profile(kbps, punctured_bits(regions) \div 64, regions, 0)

\* EepProfile::for_size: the size is a multiple that the level fixes.
SizeStep(level, option) ==
    IF option = 0 THEN <<12, 8, 6, 4>>[level + 1] ELSE <<27, 21, 18, 15>>[level + 1]

for_size(size, level, option) ==
    IF level > 3 \/ option > 1 THEN NoProfile
    ELSE LET step == SizeStep(level, option)
             profile == eep_profile((size \div step) * Step(option), level, option)
         IN IF size % step = 0 /\ profile # NoProfile /\ profile.size = size
            THEN profile ELSE NoProfile

-----------------------------------------------------------------------------
(* Both sides agree, for every profile there is.                           *)

EepRates(option) == {Step(option) * n : n \in 1..(384 \div Step(option))}
EepProfiles ==
    {eep_profile(kbps, level, option) :
        kbps \in EepRates(0) \cup EepRates(1), level \in 0..3, option \in 0..1} \ {NoProfile}
Profiles == {UEP_PROFILES[i].profile : i \in DOMAIN UEP_PROFILES} \cup EepProfiles

\* The encoder's codeword is the one the decoder expects: 24 ms of bits and
\* six of tail, four times; what is sent fills the sub-channel; what is read
\* is what was sent.
Fits(p) ==
    /\ mother_bits(p.regions) = 4 * (24 * p.kbps + 6)
    /\ punctured_bits(p.regions) + p.padding = 64 * p.size
    /\ ReadBits(p.regions) = punctured_bits(p.regions)

\* A size leads back to the profile it came from.
SizeTells ==
    \A option \in 0..1, level \in 0..3 : \A kbps \in EepRates(option) :
        LET p == eep_profile(kbps, level, option)
        IN p # NoProfile /\ for_size(p.size, level, option) = p

TablesAssumption ==
    /\ \A p \in Profiles : Fits(p)
    /\ SizeTells
    /\ mother_bits(FicRegions) = 4 * (768 + 6) /\ ReadBits(FicRegions) = 2304
=============================================================================
