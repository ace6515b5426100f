------------------------ MODULE FullChargeMaintenance -----------------------
(***************************************************************************)
(* core/full_charge_maintenance.py: when one device is charged to the top  *)
(* for maintenance, and when the full charge counts as confirmed.  Days    *)
(* since the last confirmed full charge are counted in steps up to Overdue *)
(* (the interval plus the longest postponement); Never is a device that    *)
(* was never confirmed full.                                               *)
(***************************************************************************)
EXTENDS Integers, FiniteSetsExt

CONSTANTS
    Never,       \* last_confirmed_full_at is None
    NoTime,      \* full_candidate_since is None
    Due,         \* days after which a full charge is due
    Overdue,     \* days after which it is no longer postponed
    Confirm      \* ticks the device has to stay full

ASSUME MaintenanceAssumption ==
    Due \in Nat /\ Overdue \in Nat /\ Due <= Overdue /\ Confirm \in Nat \ {0}

Days == {Never} \cup 0..Overdue

\* .since: ticks since the device was first seen full; .held: the full charge
\* that began then is already confirmed.
Records == [active : BOOLEAN, since : {NoTime} \cup 0..Confirm, held : BOOLEAN]
NewRecord == [active |-> FALSE, since |-> NoTime, held |-> FALSE]

Waited(record) ==
    IF record.since = NoTime THEN record
    ELSE [record EXCEPT !.since = Min({@ + 1, Confirm})]

\* _select_window
Window(pv, price, strategic) ==
    CASE pv        -> "pv"
      [] price     -> "price"
      [] strategic -> "strategic"
      [] OTHER     -> "none"

IsDue(days) == days = Never \/ days >= Due
IsOverdue(days) == days # Never /\ days >= Overdue

\* The window that carries a charge below full: a favourable one, or the end
\* of the postponement.
ChargeWindow(days, window) ==
    IF window = "none" /\ IsOverdue(days) THEN "overdue" ELSE window

Answer(record, window, completed) ==
    [record |-> record, window |-> window, completed |-> completed]
Quiet(record) == Answer(record, "none", FALSE)

\* FullChargeMaintenancePlanner.evaluate.  o.free: nothing blocks the device,
\* o.full: it reports 100 %, o.settled: its charge power has dropped.  The
\* answer requests a full charge when its window is not "none".
Evaluate(old, days, o) ==
    LET record == [old EXCEPT !.active = @ /\ o.enabled]
        counted == [record EXCEPT !.since = IF @ = NoTime THEN 0 ELSE @, !.held = FALSE]
        below == [record EXCEPT !.since = NoTime, !.held = FALSE]
        window == ChargeWindow(days, o.window)
    IN  IF ~o.free THEN Quiet(below)
        ELSE IF o.full THEN
            IF record.held THEN Quiet(record)
            ELSE IF counted.since = Confirm /\ o.settled
                 THEN Answer([counted EXCEPT !.active = FALSE, !.held = TRUE], "none", TRUE)
            ELSE Answer(counted, IF counted.active THEN o.window ELSE "none", FALSE)
        ELSE IF ~o.enabled \/ (~below.active /\ ~IsDue(days)) \/ window = "none"
             THEN Quiet(below)
        ELSE Answer([below EXCEPT !.active = TRUE], window, FALSE)
=============================================================================
