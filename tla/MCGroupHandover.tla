--------------------------- MODULE MCGroupHandover ---------------------------
(* Two systems behind one circuit that cannot carry both at their limit.   *)
EXTENDS GroupHandover

CONSTANTS A, B, main

MCRank == [d \in Devices |-> IF d = A THEN 1 ELSE 2]
MCParent == [c \in Circuits |-> NoCircuit]
MCCap == [c \in Circuits |-> 5]
MCCircuitsOf == [d \in Devices |-> {main}]
MCMaxPower == [d \in Devices |-> 4]
MCCapacity == [d \in Devices |-> 1]
MCGroups == {{A, B}, {}}
MCGoals == {-6, 3}
=============================================================================
