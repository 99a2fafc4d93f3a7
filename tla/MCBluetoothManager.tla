------------------------- MODULE MCBluetoothManager -------------------------
(* Small instances of BluetoothManager. *)
EXTENDS BluetoothManager, TLC

CONSTANTS hci0, h1, h2, i1, i2, t1, t2, m1, m2

\* i2 is a second headset's object, or the next object of the only headset.
MCAddrOf == [i \in Inst |-> IF i = i2 /\ h2 \in Addr THEN h2 ELSE h1]

Symmetry == Permutations(Task) \cup Permutations(Mon)
            \cup (IF h2 \in Addr THEN {} ELSE Permutations(Inst))
=============================================================================
