---------------------------- MODULE FirstWriteTest ----------------------------
(***************************************************************************)
(* The first write test of a device (native_zendure_runtime.py              *)
(* async_run_first_write_test, first_write.py async_verify_reversible_write *)
(* and zensdk.py async_write_zensdk_property): one changed output limit is  *)
(* written, read back and restored.  Nobody else writes meanwhile: the test *)
(* holds the write lock that every command takes.                          *)
(*                                                                         *)
(* A write that is accepted is applied later, in order, or never; a write   *)
(* without an answer may have been delivered.  The gate asks HEMS before    *)
(* each of the two writes; its other conditions are those captured at the   *)
(* beginning.  A read is one step: nobody changes the limit during it.      *)
(***************************************************************************)
EXTENDS Integers, Sequences, SequencesExt

CONSTANT MaxMishaps   \* bound on lost answers, ignored writes, outages

ASSUME MishapsAssumption == MaxMishaps \in Nat

VARIABLES up,        \* the device can be reached
          hemsActs,  \* HEMS controls the device
          limit,     \* outputLimit in the device
          reported,  \* the limit of the state, at most 15 seconds old
          original,  \* what the test restores
          writes,    \* delivered and not yet applied
          step,      \* where async_verify_reversible_write is
          seen,      \* the requested value was read back
          verdict,   \* NativeWriteVerification.status
          mishaps

testVars == <<up, hemsActs, limit, reported, original, writes, step, seen,
              verdict, mishaps>>

Limits == {"low", "high"}   \* limits of ordinary commands
Requested == "requested"    \* one watt more or less than the original

TestInit ==
  /\ up = TRUE /\ hemsActs = FALSE
  /\ limit \in Limits /\ reported = limit /\ original = limit
  /\ writes = <<>> /\ step = "idle" /\ seen = FALSE
  /\ verdict = "none" /\ mishaps = 0

Mishap == mishaps < MaxMishaps /\ mishaps' = mishaps + 1

(***************************************************************************)
(* Before the test: commands and reports                                   *)
(***************************************************************************)
\* an ordinary command was accepted and has released the write lock
EarlierCommand ==
  /\ step = "idle" /\ writes = <<>> /\ up
  /\ \E v \in Limits : writes' = <<v>>
  /\ UNCHANGED <<up, hemsActs, limit, reported, original, step, seen, verdict, mishaps>>

LimitReported ==
  /\ up /\ step \in {"idle", "done"}
  /\ reported' = limit
  /\ UNCHANGED <<up, hemsActs, limit, original, writes, step, seen, verdict, mishaps>>

Begin ==
  /\ step = "idle"
  /\ original' = reported
  /\ IF hemsActs THEN step' = "done" /\ verdict' = "blocked"
                 ELSE step' = "write" /\ UNCHANGED verdict
  /\ UNCHANGED <<up, hemsActs, limit, reported, writes, seen, mishaps>>

(***************************************************************************)
(* A POST is accepted, or ends in an error with or without delivery         *)
(***************************************************************************)
Accepted(v, next) ==
  /\ up
  /\ writes' = Append(writes, v)
  /\ step' = next
  /\ UNCHANGED mishaps

Erred(v) ==
  /\ \/ ~up /\ UNCHANGED <<writes, mishaps>>
     \/ up /\ Mishap /\ writes' \in {writes, Append(writes, v)}
  /\ step' = "done"

\* any error ends the test: what was delivered all the same is not restored
Write ==
  /\ step = "write"
  /\ \/ Accepted(Requested, "await requested") /\ UNCHANGED verdict
     \/ Erred(Requested) /\ verdict' = "transport_error"
  /\ UNCHANGED <<up, hemsActs, limit, reported, original, seen>>

Confirmed == IF seen THEN "restored" ELSE "not confirmed"
Unconfirmed == IF seen THEN "restore_failed" ELSE "not confirmed"

\* defect: an accepted restore counts as confirmed
RestoreTrusted ==
  /\ step = "gate"
  /\ \/ hemsActs /\ step' = "done" /\ verdict' = Unconfirmed /\ UNCHANGED <<writes, mishaps>>
     \/ ~hemsActs /\ Accepted(original, "done") /\ verdict' = Confirmed
     \/ ~hemsActs /\ Erred(original) /\ verdict' = Unconfirmed
  /\ UNCHANGED <<up, hemsActs, limit, reported, original, seen>>

Restore ==
  /\ step = "gate"
  /\ \/ hemsActs /\ step' = "done" /\ verdict' = Unconfirmed /\ UNCHANGED <<writes, mishaps>>
     \/ ~hemsActs /\ Accepted(original, "await original") /\ UNCHANGED verdict
     \/ ~hemsActs /\ Erred(original) /\ verdict' = Unconfirmed
  /\ UNCHANGED <<up, hemsActs, limit, reported, original, seen>>

(***************************************************************************)
(* _await_readback: reads until the expected value is seen or time is over  *)
(***************************************************************************)
ReadRequested ==
  /\ step = "await requested" /\ up
  /\ reported' = limit
  /\ seen' = (limit = Requested)
  /\ step' = IF seen' THEN "gate" ELSE step
  /\ UNCHANGED <<up, hemsActs, limit, original, writes, verdict, mishaps>>

ReadOriginal ==
  /\ step = "await original" /\ up
  /\ reported' = limit
  /\ IF limit = original THEN step' = "done" /\ verdict' = Confirmed
                         ELSE UNCHANGED <<step, verdict>>
  /\ UNCHANGED <<up, hemsActs, limit, original, writes, seen, mishaps>>

TimeIsOver ==
  /\ \/ step = "await requested" /\ step' = "gate" /\ UNCHANGED verdict
     \/ step = "await original" /\ step' = "done" /\ verdict' = Unconfirmed
  /\ UNCHANGED <<up, hemsActs, limit, reported, original, writes, seen, mishaps>>

(***************************************************************************)
(* The device                                                              *)
(***************************************************************************)
Apply ==
  /\ writes # <<>>
  /\ limit' = Head(writes) /\ writes' = Tail(writes)
  /\ UNCHANGED <<up, hemsActs, reported, original, step, seen, verdict, mishaps>>

Ignore ==
  /\ writes # <<>> /\ Mishap
  /\ writes' = Tail(writes)
  /\ UNCHANGED <<up, hemsActs, limit, reported, original, step, seen, verdict>>

DeviceChanges ==
  /\ Mishap
  /\ \/ up' = ~up /\ UNCHANGED hemsActs
     \/ hemsActs' = ~hemsActs /\ UNCHANGED up
  /\ UNCHANGED <<limit, reported, original, writes, step, seen, verdict>>

TestNext ==
  \/ EarlierCommand \/ LimitReported \/ Begin \/ Write \/ Restore
  \/ ReadRequested \/ ReadOriginal \/ TimeIsOver
  \/ Apply \/ Ignore \/ DeviceChanges

\* Requests end, and the time of a readback is over some time.
TestFair ==
  /\ WF_testVars(Write) /\ WF_testVars(Restore)
  /\ WF_testVars(TimeIsOver)

TestSpec == TestInit /\ [][TestNext]_testVars /\ TestFair

(***************************************************************************)
(* Properties                                                              *)
(***************************************************************************)
TestTypeOK ==
  /\ up \in BOOLEAN /\ hemsActs \in BOOLEAN /\ seen \in BOOLEAN
  /\ {limit, reported} \cup ToSet(writes) \subseteq Limits \cup {Requested}
  /\ original \in Limits
  /\ step \in {"idle", "write", "await requested", "gate", "await original", "done"}
  /\ verdict \in {"none", "blocked", "transport_error", "not confirmed",
                  "restore_failed", "restored"}

\* "Perform exactly one test write and one verified restoration"
\* (first_write.py): a test that is reported as restored left the value it
\* restores in the device, and no write that would undo it is still on its way,
\* although writes are applied late or never and devices and HEMS come and go.
RestoredIsRestored ==
  TestTypeOK /\ (verdict = "restored" => limit = original /\ writes = <<>>)

\* A test that began ends, and gives the write lock back.
TestEnds == []<>(step \in {"idle", "done"})
=============================================================================
