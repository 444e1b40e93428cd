-------------------------- MODULE SlowSignalFormat --------------------------
(***************************************************************************)
(* A readout of slow signals, SSReadout of                                 *)
(* ssdaq/data/_dataimpl/slowsignal_format.py: its fields, its bytes, and   *)
(* the orders of the pixels of a module.                                   *)
(***************************************************************************)
EXTENDS Integers, Sequences, SequencesExt

CONSTANTS
  N_TM,     \* target modules
  N_TM_PIX  \* pixels of a module

ASSUME SlowSignalAssumption ==
  /\ N_TM \in Nat \ {0}
  /\ N_TM_PIX \in Nat \ {0}

\* The two fields of the processor's clock are one value.
SSReadout(iro, time, cpu, data) == [iro |-> iro, time |-> time, cpu |-> cpu, data |-> data]

IsReadout(r) ==
  /\ r = SSReadout(r.iro, r.time, r.cpu, r.data)
  /\ {r.iro, r.time, r.cpu} \subseteq Nat
  /\ r.data = [tm \in 1 .. N_TM |-> [pix \in 1 .. N_TM_PIX |-> r.data[tm][pix]]]

\* The numbers, then the data in C order
PackReadout(r) ==
  <<r.iro, r.time, r.cpu>> \o
    [i \in 1 .. N_TM * N_TM_PIX |->
       r.data[(i - 1) \div N_TM_PIX + 1][((i - 1) % N_TM_PIX) + 1]]

UnpackReadout(bytes) ==
  LET at(tm, pix) == bytes[3 + (tm - 1) * N_TM_PIX + pix]
  IN  SSReadout(bytes[1], bytes[2], bytes[3],
                [tm \in 1 .. N_TM |-> [pix \in 1 .. N_TM_PIX |-> at(tm, pix)]])

\* The pixels of each module in the order of a map, whose pixels count from zero
MapPixels(data, map) ==
  [tm \in DOMAIN data |-> [place \in DOMAIN map |-> data[tm][map[place] + 1]]]

ssl2colrow ==
  <<8, 1, 5, 6, 41, 43, 51, 47, 11, 14, 13, 7, 44, 36, 42, 46, 12, 2, 4, 15, 38,
    37, 33, 45, 10, 16, 9, 19, 40, 39, 34, 48, 26, 28, 20, 31, 56, 54, 35, 63,
    17, 3, 18, 25, 62, 53, 32, 61, 27, 30, 21, 22, 58, 52, 59, 55, 24, 0, 29,
    23, 49, 57, 50, 60>>

ssl2asic_ch ==
  <<29, 23, 21, 22, 30, 27, 24, 0, 25, 31, 20, 18, 28, 26, 17, 3, 2, 16, 10, 12,
    19, 4, 15, 9, 1, 8, 11, 14, 6, 7, 5, 13, 62, 56, 54, 53, 59, 60, 55, 50, 57,
    58, 52, 49, 61, 63, 32, 35, 51, 47, 42, 46, 33, 34, 45, 48, 44, 36, 41, 43,
    40, 38, 39, 37>>
=============================================================================
