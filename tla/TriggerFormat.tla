---------------------------- MODULE TriggerFormat ----------------------------
(***************************************************************************)
(* The trigger packets of ssdaq/data/_dataimpl/trigger_format.py: what     *)
(* pack puts in the bytes of a packet and what unpack makes of them, for   *)
(* the versions V1 (nominal and busy), V2 and V3 (zero suppressed).        *)
(*                                                                         *)
(* A packet has trigger patterns, the set of superpixels (SPs) that        *)
(* triggered at each sample, in order of time; the sequence of bits packed *)
(* from them has all samples of the first SP first.  The time stamp, the   *)
(* counters, the flags and the source have fields of fixed width, which    *)
(* pack and unpack move between packet and bytes: they are one value.      *)
(***************************************************************************)
EXTENDS Integers, Sequences, FiniteSets

CONSTANTS
  NSP,   \* the number of superpixels: 512
  Byte   \* the number of bits of a byte: 8

ASSUME TriggerAssumption ==
  /\ Byte \in Nat \ {0}
  /\ NSP \in Nat \ {0}
  /\ NSP % Byte = 0

SPs == [i \in 1 .. NSP |-> i]
V1Length == 2 * Byte  \* readout_length of V1

NominalV1 == 0
BusyV1 == 1
V2 == 2
V3 == 3
MessageTypes == {NominalV1, BusyV1, V2, V3}

\* A packet of V1 brings its union, the later ones compute it.
PacketV1(mtype, phase, patterns, union, fields) ==
  [mtype |-> mtype, phase |-> phase, patterns |-> patterns, union |-> union,
   fields |-> fields]
PacketV2(mtype, phase, patterns, fields) ==
  PacketV1(mtype, phase, patterns, UNION {patterns[t] : t \in DOMAIN patterns}, fields)

\* 2 ^ i
Power[i \in 0 .. Byte + 1] == IF i = 0 THEN 1 ELSE 2 * Power[i - 1]

\* The phase is one of the powers of two, stored with its bits reversed: the dictionary
\* _reverse_bits.
Phases == {Power[i] : i \in 0 .. Byte - 1}
ReverseBits(phase) == Power[Byte - 1 - CHOOSE i \in 0 .. Byte - 1 : Power[i] = phase]

\* int(log2(phase + 1)): phases 1 and 2 have the same index
PhaseIndex(phase) == CHOOSE i \in 0 .. Byte : Power[i] <= phase + 1 /\ phase + 1 < Power[i + 1]

\* The pattern at the trigger phase
Trigg(p) == p.patterns[PhaseIndex(p.phase) + 1]

-----------------------------------------------------------------------------
(* pack *)

Bit(b) == IF b THEN 1 ELSE 0

\* packbits fills the last byte with zeros.
PackBits(bits) ==
  bits \o [i \in 1 .. (Byte - (Len(bits) % Byte)) % Byte |-> 0]

SetBits(set) == PackBits([i \in 1 .. NSP |-> Bit(SPs[i] \in set)])

\* The bits of the patterns of some of the SPs
PatternBits(sps, patterns) ==
  LET n == Len(patterns)
  IN  PackBits([i \in 1 .. Len(sps) * n |->
        Bit(sps[(i - 1) \div n + 1] \in patterns[((i - 1) % n) + 1])])

\* The SPs that triggered, in order: before the i-th there are i - 1 others.
Triggered(p) ==
  [i \in 1 .. Cardinality(p.union) |->
     CHOOSE s \in p.union : Cardinality({r \in p.union : r < s}) = i - 1]

\* pack looks the phase up, which raises for a phase of 0, the default of a busy V1.
CanPack(p) == p.phase \in Phases

\* Patterns have one sample at least; the union of V1 is any, that of V2 and V3 computed.
IsPacket(p) ==
  /\ p = PacketV1(p.mtype, p.phase, p.patterns, p.union, p.fields)
  /\ p.mtype \in MessageTypes
  /\ p.patterns \in Seq(SUBSET (1 .. NSP)) /\ p.patterns # <<>>
  /\ p.union \subseteq 1 .. NSP
  /\ p.mtype \in {V2, V3} => p.union = UNION {p.patterns[t] : t \in DOMAIN p.patterns}

PackV1(p) ==
  [marked |-> TRUE, mtype |-> p.mtype, phase |-> ReverseBits(p.phase), blocks |-> 0,
   bits |-> PatternBits(SPs, p.patterns) \o SetBits(p.union), fields |-> p.fields]

\* Mutant: the phase is packed as it is.
PackV2Phase(p) ==
  [marked |-> TRUE, mtype |-> p.mtype, phase |-> p.phase,
   blocks |-> Len(p.patterns) \div Byte,
   bits |-> SetBits(p.union) \o PatternBits(IF p.mtype = V3 THEN Triggered(p) ELSE SPs, p.patterns),
   fields |-> p.fields]

\* V3 leaves out the SPs that did not trigger.
PackV2(p) ==
  [marked |-> TRUE, mtype |-> p.mtype, phase |-> ReverseBits(p.phase),
   blocks |-> Len(p.patterns) \div Byte,
   bits |-> SetBits(p.union) \o PatternBits(IF p.mtype = V3 THEN Triggered(p) ELSE SPs, p.patterns),
   fields |-> p.fields]

Pack(p) == IF p.mtype \in {NominalV1, BusyV1} THEN PackV1(p) ELSE PackV2(p)

-----------------------------------------------------------------------------
(* unpack *)

Raised == [kind |-> "raised"]
Nothing == [kind |-> "none"]
Got(x) == [kind |-> "object", object |-> x]

\* reshape to rows and columns, then the transpose: the set at each column
Reshape(bits, sps, n) ==
  [t \in 1 .. n |-> {sps[r] : r \in {r \in DOMAIN sps : bits[(r - 1) * n + t] = 1}}]

BitSet(bits) == {SPs[i] : i \in {i \in 1 .. NSP : bits[i] = 1}}

UnpackV1(raw) ==
  LET n == Len(raw.bits) - NSP
      union == SubSeq(raw.bits, V1Length * NSP + 1, Len(raw.bits))
  IN  IF n # NSP * V1Length \/ raw.phase \notin Phases THEN Raised
      ELSE Got(PacketV1(raw.mtype, ReverseBits(raw.phase),
                        Reshape(SubSeq(raw.bits, 1, n), SPs, V1Length),
                        BitSet(union), raw.fields))

\* Both versions reshape to all SPs, which fails if the readout length is not a number of
\* bytes; V3 then assigns all columns to those of the union, which must be all.
UnpackV2(raw) ==
  LET body == SubSeq(raw.bits, NSP + 1, Len(raw.bits))
      n == raw.blocks * Byte
  IN  IF \/ Len(body) # NSP * n
         \/ raw.phase \notin Phases
         \/ raw.mtype = V3 /\ BitSet(raw.bits) # {SPs[i] : i \in 1 .. NSP}
      THEN Raised
      ELSE Got(PacketV2(raw.mtype, ReverseBits(raw.phase), Reshape(body, SPs, n), raw.fields))

\* A wrong marker gives None, an unknown message type raises.
Unpack(raw) ==
  IF ~ raw.marked THEN Nothing
  ELSE CASE raw.mtype \in {NominalV1, BusyV1} -> UnpackV1(raw)
         [] raw.mtype \in {V2, V3}            -> UnpackV2(raw)
         [] OTHER                             -> Raised

\* The packets that unpack makes of what pack made of them: all of V1, those of V2 with
\* a readout length in whole bytes, and those of V3 in which every SP triggered as well.
Readable(p) ==
  CASE p.mtype \in {NominalV1, BusyV1} -> Len(p.patterns) = V1Length
    [] p.mtype = V2                    -> Len(p.patterns) % Byte = 0
    [] p.mtype = V3                    -> Len(p.patterns) % Byte = 0 /\ Triggered(p) = SPs

-----------------------------------------------------------------------------
(* The maps between SPs and backplane triggers, in blocks of sixteen *)

fMask2SP == << <<6, 7, 14, 12, 4, 5, 15, 13, 3, 2, 8, 11, 1, 0, 10, 9>>,
               <<9, 10, 0, 1, 11, 8, 2, 3, 13, 15, 5, 4, 12, 14, 7, 6>> >>
fSP2Mask == << <<13, 12, 9, 8, 4, 5, 0, 1, 10, 15, 14, 11, 3, 7, 2, 6>>,
               <<2, 3, 6, 7, 11, 10, 15, 14, 5, 0, 1, 4, 12, 8, 13, 9>> >>

\* Which of the two masks block i has
Sel(i) == IF i < 4 \/ i >= 28 THEN (i % 2) + 1 ELSE 2 - (i % 2)

Mapping(masks) ==
  [n \in 0 .. 511 |-> masks[Sel(n \div 16)][(n % 16) + 1] + n - (n % 16)]

SP2bptrigg == Mapping(fMask2SP)
bptrigg2SP == Mapping(fSP2Mask)
=============================================================================
