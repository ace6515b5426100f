---------------------------- MODULE PackInventory ----------------------------
(***************************************************************************)
(* Which battery packs a device is shown to have.  Every transport keeps    *)
(* its own inventory (normalizer.py _apply_packs with pack_inventory.py      *)
(* PackMembershipStabilizer); the fusion (native_source_fusion.py) keeps     *)
(* one more, of the reports of all of them, and shows what both allow.      *)
(*                                                                         *)
(* Packs are mounted and removed while the device reports over several      *)
(* transports, of which each may lag behind.  A complete report lists every *)
(* pack and their number; a grouped report only some of them, with or       *)
(* without the number.  Measurements and the order of packs are left out.   *)
(***************************************************************************)
EXTENDS Integers, FiniteSets

CONSTANTS Mountings,        \* the sets of packs the device may have
          FirstMounting,    \* the one it begins with
          Routes,           \* the transports that report them
          Unknown,          \* Python's None
          MaxPackChanges    \* bound on changes of the packs and of the routes

ASSUME MountingsAssumption == {} \notin Mountings /\ FirstMounting \in Mountings
ASSUME PackChangesAssumption == MaxPackChanges \in Nat

Packs == UNION Mountings

ASSUME UnknownAssumption == \A ids \in SUBSET Packs : ids # Unknown

Confirmations == 2   \* _PACK_MEMBERSHIP_CONFIRMATIONS

VARIABLES stable,      \* requires_stable_pack_membership(model)
          mounted,     \* the packs in the device
          mountedOnce, \* the sets of packs it ever had
          open,        \* routes whose reports arrive
          told,        \* route -> the set of packs its reports speak of
          inventory,   \* route -> what its normalizer keeps
          fused,       \* _pack_memberships, _reported_pack_counts of the fusion
          failed,      \* the runtime stopped because a report raised
          packChanges

packVars == <<stable, mounted, mountedOnce, open, told, inventory, fused, failed,
              packChanges>>

Nothing == [current |-> Unknown, candidate |-> Unknown, votes |-> 0,
            expected |-> Unknown]

PackInit ==
  /\ stable \in BOOLEAN
  /\ mounted = FirstMounting
  /\ mountedOnce = {mounted}
  /\ open = Routes
  /\ told = [r \in Routes |-> mounted]
  /\ inventory = [r \in Routes |-> [stab |-> Nothing, known |-> {}]]
  /\ fused = Nothing
  /\ failed = FALSE /\ packChanges = 0

(***************************************************************************)
(* PackMembershipStabilizer.observe                                        *)
(***************************************************************************)
Accept(m, ids) == [m EXCEPT !.current = ids, !.candidate = Unknown, !.votes = 0]

ObservePacks(m, ids) ==
  LET votes == IF ids = m.candidate THEN m.votes + 1 ELSE 1
  IN IF m.expected # Unknown /\ Cardinality(ids) # m.expected
     THEN m
     ELSE IF m.current \in {Unknown, ids} \/ ~stable \/ votes >= Confirmations
     THEN Accept(m, ids)
     ELSE [m EXCEPT !.candidate = ids, !.votes = votes]

\* packNum, when the report carries it, is kept before the list is looked at
Counted(m, count) == IF count = Unknown THEN m ELSE [m EXCEPT !.expected = count]

(***************************************************************************)
(* A report: first the normalizer of its route, then the fusion.  A list    *)
(* that raises in the normalizer ends the runtime (_async_run).             *)
(***************************************************************************)
PackReport(r, ids, full, count) ==
  /\ ~failed /\ r \in open
  /\ LET stab == IF full THEN ObservePacks(Counted(inventory[r].stab, count), ids)
                         ELSE Counted(inventory[r].stab, count)
         known == inventory[r].known
     IN IF full /\ stab.current = Unknown /\ known # {}
        THEN /\ failed' = TRUE
             /\ UNCHANGED <<inventory, fused>>
        ELSE /\ inventory' = [inventory EXCEPT ![r] =
                  [stab |-> stab,
                   known |-> ids \cup (IF full /\ known # {} THEN known \cap stab.current
                                                             ELSE known)]]
             /\ fused' = IF full THEN ObservePacks(Counted(fused, count), ids)
                                 ELSE Counted(fused, count)
             /\ UNCHANGED failed
  /\ UNCHANGED <<stable, mounted, mountedOnce, open, told, packChanges>>

CompleteReport(r) == PackReport(r, told[r], TRUE, Cardinality(told[r]))

\* properties/report or state with the packs whose properties were refreshed
Grouped(r) ==
  \E ids \in (SUBSET told[r]) \ {{}, told[r]}, full \in BOOLEAN,
     count \in {Unknown, Cardinality(told[r])} : PackReport(r, ids, full, count)

(***************************************************************************)
(* What is shown (normalizer.py snapshot; fusion snapshot and _fuse_packs)  *)
(***************************************************************************)
ShownBy(r) ==
  LET i == inventory[r]
  IN IF ~stable THEN i.known
     ELSE IF i.stab.current = Unknown THEN {} ELSE i.known \cap i.stab.current

\* defect: the packs of all routes are shown together
ShownByAny == UNION {ShownBy(r) : r \in Routes}

Shown ==
  LET all == UNION {ShownBy(r) : r \in Routes}
  IN IF fused.current # Unknown THEN all \cap fused.current
     ELSE IF stable /\ fused.expected # Unknown THEN {} ELSE all

(***************************************************************************)
(* The device and its connections                                          *)
(***************************************************************************)
Change == ~failed /\ packChanges < MaxPackChanges /\ packChanges' = packChanges + 1

Mount ==
  /\ Change
  /\ mounted' \in Mountings \ {mounted}
  /\ mountedOnce' = mountedOnce \cup {mounted'}
  /\ UNCHANGED <<stable, open, told, inventory, fused, failed>>

CatchUp(r) ==
  /\ ~failed
  /\ told' = [told EXCEPT ![r] = mounted]
  /\ UNCHANGED <<stable, mounted, mountedOnce, open, inventory, fused, failed, packChanges>>

\* A transport is lost, or another one serves the device from now on
FallSilent(r) ==
  /\ Change
  /\ open' = open \ {r}
  /\ UNCHANGED <<stable, mounted, mountedOnce, told, inventory, fused, failed>>

PackNext ==
  \/ Mount
  \/ \E r \in Routes : CompleteReport(r) \/ Grouped(r) \/ CatchUp(r) \/ FallSilent(r)

\* Devices report completely from time to time, and delayed reports run out.
PackFair ==
  \A r \in Routes : /\ WF_packVars(CompleteReport(r))
                    /\ WF_packVars(CatchUp(r))

PackSpec == PackInit /\ [][PackNext]_packVars /\ PackFair

(***************************************************************************)
(* Properties                                                              *)
(***************************************************************************)
PackTypeOK ==
  /\ stable \in BOOLEAN /\ failed \in BOOLEAN
  /\ mounted \in mountedOnce /\ mountedOnce \subseteq Mountings
  /\ open \subseteq Routes /\ told \in [Routes -> mountedOnce]
  /\ \A r \in Routes : inventory[r].known \subseteq Packs
  /\ \A m \in {fused} \cup {inventory[r].stab : r \in Routes} :
       /\ m.current \in (SUBSET Packs) \cup {Unknown}
       /\ m.votes \in 0..Confirmations - 1
       /\ m.candidate = Unknown <=> m.votes = 0

\* "Applying confirmed membership at fusion level also retires an old ID cached
\* by another native transport" (native_source_fusion.py
\* _record_complete_pack_membership): packs of before and after a change are
\* never shown together, although the routes lag behind one another, send
\* grouped reports and fall silent with what they knew.
PacksNeverMixed ==
  PackTypeOK /\ (stable => \E set \in mountedOnce : Shown \subseteq set)

\* The packs that are mounted are shown, exactly them, if a route is left.
Followed == failed \/ open = {} \/ Shown = mounted

\* The packs that are mounted come to be shown and stay so, while one route
\* reports them completely now and then: neither grouped reports in between nor
\* another route that fell silent with an older set prevents it.
InventoryFollows == <>[]Followed

\* "Such updates do not establish or alter membership" (pack_inventory.py
\* PackMembershipStabilizer): a grouped report is tolerated at any time.
SparseReportsTolerated == ~failed
=============================================================================
