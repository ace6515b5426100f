-------------------------- MODULE TransportRouter --------------------------
(***************************************************************************)
(* NativeTransportRouter (native_transport_router.py): the generation-bound *)
(* write authority shared by all native control transports.                *)
(*                                                                         *)
(* Tasks are concurrent users of the router.  A task captures the current   *)
(* generation for a device and a transport of its choice and later asks    *)
(* the router to execute under it; meanwhile others select another target  *)
(* or readiness is lost and regained.  Reasons and timestamps of the       *)
(* snapshot are left out: only the authority itself is modelled.           *)
(***************************************************************************)
EXTENDS Integers, FiniteSets

CONSTANTS Devices, Transports, Tasks,
          None,            \* no device, no transport, no authorization
          MaxGeneration    \* bound on the generations explored

ASSUME NoneAssumption ==
  /\ None \notin Devices /\ None \notin Transports
  /\ None \notin (Devices \cup {None}) \X Transports
ASSUME GenerationAssumption == MaxGeneration \in Nat

VARIABLES lease,     \* _snapshot
          auth,      \* task -> what it captured, None before
          revoked,   \* tasks whose captured authority has ended since
          sent       \* authorizations the router let through to a sender

routerVars == <<lease, auth, revoked, sent>>

Leases == [device : Devices \cup {None}, transport : Transports \cup {None},
           generation : Nat, synchronized : BOOLEAN]

Authorizations == [device : Devices, transport : Transports, generation : Nat]

RouterInit ==
  /\ lease = [device |-> None, transport |-> None, generation |-> 0,
              synchronized |-> FALSE]
  /\ auth = [t \in Tasks |-> None]
  /\ revoked = {}
  /\ sent = {}

\* Every authority captured so far ends when the lease changes hands.
RevokeCaptured == revoked' = {t \in Tasks : auth[t] # None}

\* defect: the lease is handed over within its generation
SelectQuietly(d, tr) ==
  /\ <<d, tr>> # <<lease.device, lease.transport>>
  /\ lease' = [device |-> d, transport |-> tr,
               generation |-> lease.generation, synchronized |-> FALSE]
  /\ RevokeCaptured
  /\ UNCHANGED <<auth, sent>>

\* defect: the new target inherits the synchronization of the old one
SelectSynchronized(d, tr) ==
  /\ <<d, tr>> # <<lease.device, lease.transport>>
  /\ lease.generation < MaxGeneration
  /\ lease' = [device |-> d, transport |-> tr,
               generation |-> lease.generation + 1,
               synchronized |-> lease.synchronized]
  /\ RevokeCaptured
  /\ UNCHANGED <<auth, sent>>

Select(d, tr) ==
  /\ <<d, tr>> # <<lease.device, lease.transport>>
  /\ lease.generation < MaxGeneration
  /\ lease' = [device |-> d, transport |-> tr,
               generation |-> lease.generation + 1, synchronized |-> FALSE]
  /\ RevokeCaptured
  /\ UNCHANGED <<auth, sent>>

UpdateReadiness(ready) ==
  LET synchronized == ready /\ lease.transport # None
  IN \/ /\ lease.synchronized /\ ~synchronized
        /\ lease.generation < MaxGeneration
        /\ lease' = [device |-> lease.device, transport |-> lease.transport,
                     generation |-> lease.generation + 1, synchronized |-> FALSE]
        /\ RevokeCaptured
        /\ UNCHANGED <<auth, sent>>
     \/ /\ ~lease.synchronized /\ synchronized
        /\ lease' = [lease EXCEPT !.synchronized = TRUE]
        /\ UNCHANGED <<auth, revoked, sent>>

\* A caller reads snapshot.generation for the command it is about to hand over
Capture(t, d, tr) ==
  /\ auth' = [auth EXCEPT ![t] = [device |-> d, transport |-> tr,
                                  generation |-> lease.generation]]
  /\ revoked' = revoked \ {t}
  /\ UNCHANGED <<lease, sent>>

\* defect: the generation is not compared
ExecuteAnyGeneration(t) ==
  /\ auth[t] # None
  /\ lease.synchronized
  /\ auth[t].device = lease.device
  /\ auth[t].transport = lease.transport
  /\ sent' = sent \cup {[auth[t] EXCEPT !.generation = lease.generation]}
  /\ auth' = [auth EXCEPT ![t] = None]
  /\ revoked' = revoked \ {t}
  /\ UNCHANGED lease

\* execute raises unless the exact current lease still matches
Execute(t) ==
  /\ auth[t] # None
  /\ lease.synchronized
  /\ auth[t].device = lease.device
  /\ auth[t].transport = lease.transport
  /\ auth[t].generation = lease.generation
  /\ sent' = sent \cup {auth[t]}
  /\ auth' = [auth EXCEPT ![t] = None]
  /\ revoked' = revoked \ {t}
  /\ UNCHANGED lease

RouterNext ==
  \/ \E d \in Devices \cup {None}, tr \in Transports \cup {None} : Select(d, tr)
  \/ \E ready \in BOOLEAN : UpdateReadiness(ready)
  \/ \E t \in Tasks :
       Execute(t) \/ \E d \in Devices, tr \in Transports : Capture(t, d, tr)

RouterSpec == RouterInit /\ [][RouterNext]_routerVars

(***************************************************************************)
(* The router implements a single-writer lease on <<device, transport>>.   *)
(***************************************************************************)
LeaseWriters == (Devices \cup {None}) \X Transports

Lease == INSTANCE WriteLease WITH
  Writers <- LeaseWriters,
  Nobody  <- None,
  holder  <- IF lease.synchronized THEN <<lease.device, lease.transport>> ELSE None,
  epoch   <- lease.generation,
  written <- {<<a.generation, <<a.device, a.transport>>>> : a \in sent}

(***************************************************************************)
(* Properties                                                              *)
(***************************************************************************)
RouterTypeOK ==
  /\ lease \in Leases
  /\ lease.generation <= MaxGeneration
  /\ lease.synchronized => lease.transport # None
  /\ auth \in [Tasks -> Authorizations \cup {None}]
  /\ revoked \subseteq Tasks
  /\ sent \subseteq Authorizations

\* "A lease is never transferable" (NativeWriteAuthoritySnapshot): the writes
\* let through under one generation all go to one device over one transport.
OneTargetPerGeneration ==
  \A a, b \in sent : a.generation = b.generation => a = b

\* A command authorised before a disconnect, stale data or another selection is
\* never executed afterwards, even when the same device and transport are
\* selected and synchronized again (zendure-local-mqtt-v5.0.0.md, Single-writer
\* authority).
NoReplay == [][\A t \in revoked : sent' # sent => auth'[t] = auth[t]]_routerVars

\* Every step that ends an authority also ends its generation.
RevokedIsOlder ==
  \A t \in revoked : auth[t] # None /\ auth[t].generation < lease.generation

\* The abstract single-writer lease (refinement).
ImplementsLease == Lease!LeaseSpec
=============================================================================
