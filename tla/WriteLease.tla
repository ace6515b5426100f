----------------------------- MODULE WriteLease -----------------------------
(***************************************************************************)
(* What a single-writer lease promises, independently of how the router    *)
(* tracks devices, transports and readiness: at most one holder at a time, *)
(* an epoch that ends with the holder, and writes by the holder only.      *)
(***************************************************************************)
EXTENDS Integers

CONSTANTS Writers,   \* what a lease can be granted to
          Nobody

VARIABLES holder,    \* the writer holding the lease, or Nobody
          epoch,     \* the current epoch
          written    \* <<epoch, writer>> of every write so far

leaseVars == <<holder, epoch, written>>

LeaseInit == holder = Nobody /\ epoch = 0 /\ written = {}

Grant(w) == /\ holder = Nobody
            /\ holder' = w
            /\ UNCHANGED <<epoch, written>>

\* The holder, or the prospect of one, is given up together with the epoch.
Revoke == /\ holder' = Nobody
          /\ epoch' = epoch + 1
          /\ UNCHANGED written

HolderWrites == /\ holder # Nobody
                /\ written' = written \cup {<<epoch, holder>>}
                /\ UNCHANGED <<holder, epoch>>

LeaseNext == (\E w \in Writers : Grant(w)) \/ Revoke \/ HolderWrites

LeaseSpec == LeaseInit /\ [][LeaseNext]_leaseVars

\* An epoch authorises one writer: two writes of one epoch are by one writer.
OneWriterPerEpoch ==
  \A a, b \in written : a[1] = b[1] => a[2] = b[2]
=============================================================================
