----------------------------- MODULE MCDataFiles -----------------------------
(* Three superpixels, bytes of three bits; a packet of each version, with patterns that *)
(* tell the samples and the superpixels apart, readable and not.                        *)
EXTENDS Displays

Patterns(n, all) ==
  [t \in 1 .. n |-> {s \in 1 .. 3 : (t + s) % 3 = 0 /\ (all \/ s # 2)} \union (IF t = 2 THEN {3} ELSE {})]

MCPackets ==
  {PacketV1(m, ph, Patterns(6, TRUE), u, "f") : m \in {NominalV1, BusyV1}, ph \in {1, 4}, u \in {{1, 3}}}
  \union {PacketV2(m, ph, Patterns(n, all), "f") :
            m \in {V2, V3}, ph \in {1, 2}, n \in {3, 4, 6}, all \in BOOLEAN}

MCObjects == {[cls |-> c, val |-> 1] : c \in {"SSReadout", "SSReadoutFrame", "Foreign", "Gone"}}
               \union {[cls |-> "SSReadout", val |-> 2], [cls |-> "bytes", val |-> 1]}
MCLogs == {[sender |-> x, message |-> x] : x \in {"a", "b"}}
MCLogFields == <<"sender", "message">>

\* Readout triggers have type 1, busy ones type 2.
MCStamps == [type : {1, 2}, time : {{0}, {1}, {2}}] \union {[type |-> 1, time |-> {}]}

MCReadouts == {SSReadout(7, 3, 5, <<<<1, 2>>, <<0, 4>>>>), SSReadout(8, 4, 6, <<<<4, 3>>, <<6, 5>>>>)}
MCMap == <<1, 0>>

\* Both orders of a module's pixels have every pixel once.
ASSUME MapsArePermutations ==
  \A map \in {ssl2colrow, ssl2asic_ch} : Len(map) = 64 /\ Range(map) = 0 .. 63

\* The two maps of superpixels are inverse of each other.
ASSUME MapsAreInverse ==
  /\ \A n \in 0 .. 511 : bptrigg2SP[SP2bptrigg[n]] = n /\ SP2bptrigg[bptrigg2SP[n]] = n
=============================================================================
