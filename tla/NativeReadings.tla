---------------------------- MODULE NativeReadings ----------------------------
(***************************************************************************)
(* What the source fusion makes of the reports of several transports        *)
(* (native_source_fusion.py): the packs of a device and the value of a      *)
(* property.  They meet the same reports, but neither reads what the other  *)
(* keeps: a behaviour follows one of them.                                  *)
(***************************************************************************)
EXTENDS PackInventory, SourceFusion

VARIABLE part   \* the one of the two this behaviour follows

readingVars == <<part, packVars, fusionVars>>

Init ==
  /\ part \in {"packs", "fusion"}
  /\ PackInit /\ FusionInit
  /\ part # "packs" => stable
  /\ part # "fusion" => critical /\ offline = {} /\ actual = 0

Next ==
  /\ UNCHANGED part
  /\ IF part = "packs" THEN PackNext ELSE UNCHANGED packVars
  /\ IF part = "fusion" THEN FusionNext ELSE UNCHANGED fusionVars

\* The fairness of each component, while it is followed.
Fairness ==
  /\ \A r \in Routes :
       /\ WF_packVars(part = "packs" /\ CompleteReport(r))
       /\ WF_packVars(part = "packs" /\ CatchUp(r))
  /\ \A t \in Sources : WF_fusionVars(part = "fusion" /\ PropertiesReport(t))
  /\ WF_fusionVars(part = "fusion" /\ FusionTick)

Spec == Init /\ [][Next]_readingVars /\ Fairness

(***************************************************************************)
(* Properties                                                              *)
(***************************************************************************)
\* What is shown settles on what is true: the packs, where they are followed, on
\* those that are mounted (InventoryFollows), the value on that of the device.
ReadingsSettle == <>[](part = "packs" => Followed) /\ ShownRecovers
=============================================================================
