---------------------------- MODULE DevicePolling ----------------------------
(***************************************************************************)
(* Local reading of devices over HTTP (zensdk.py async_read_zensdk_reports) *)
(* and what the runtime makes of it (native_zendure_runtime.py): failures   *)
(* are counted, failing devices are polled less often, and the health of    *)
(* the selected one decides whether commands may be sent.                   *)
(*                                                                         *)
(* Two readers run on the event loop: the poll loop, which asks the devices *)
(* that are due, and the first write test, which asks all of them.  A       *)
(* reader asks its devices concurrently, but records nothing before the     *)
(* last of them answered or timed out; so the results of the two arrive in  *)
(* any order.  A tick stands for eight seconds, in which the two addresses  *)
(* of a silent device time out; an available one is polled once in each.    *)
(***************************************************************************)
EXTENDS Integers, Sequences, FiniteSets, FiniteSetsExt

CONSTANTS Units,        \* devices that can be read locally
          MaxDataAge,   \* ZENSDK_MAX_DATA_AGE
          ReadTime,     \* until the addresses of a silent device timed out
          MaxTestReads, \* bound on the reads of the write test
          MaxOutages    \* bound on changes of reachability and lost requests

ASSUME PollingAssumption ==
  MaxDataAge \in Nat /\ ReadTime \in Nat /\ MaxOutages \in Nat /\ MaxTestReads \in Nat

OfflineAfter == 3   \* ZENSDK_OFFLINE_AFTER_FAILURES
MaxFailures == 4    \* where the exponent of the delay stops
Delays == <<1, 2, 3, 6>>   \* 6, 12, 24 and 48 seconds
Readers == {"poll", "test"}

Missed == -1        \* no success yet, or no answer
Ancient == MaxDataAge + 1
Aged(age) == IF age = Missed THEN Missed ELSE Min({age + 1, Ancient})

VARIABLES reachable,   \* devices that answer
          answered,    \* device -> ticks since it last answered anybody
          success,     \* _zensdk_last_success, as an age
          failures,    \* _zensdk_failures
          wait,        \* ticks to _zensdk_next_poll
          reading,     \* reader -> the devices whose read has not ended
          got,         \* reader -> device -> age of its answer, or Missed
          asked,       \* reader -> the devices of this read, {} when idle
          left,        \* reader -> ticks until every read has timed out
          testReads, outages

bounds == <<testReads, outages>>
pollVars == <<reachable, answered, success, failures, wait, reading, got, asked,
              left, bounds>>

PollingInit ==
  /\ reachable \in SUBSET Units
  /\ answered = [u \in Units |-> Ancient]
  /\ success = [u \in Units |-> Missed]
  /\ failures = [u \in Units |-> 0]
  /\ wait = [u \in Units |-> 0]
  /\ reading = [r \in Readers |-> {}] /\ asked = [r \in Readers |-> {}]
  /\ got = [r \in Readers |-> [u \in Units |-> Missed]]
  /\ left = [r \in Readers |-> 0]
  /\ testReads = 0 /\ outages = 0

(***************************************************************************)
(* A read                                                                  *)
(***************************************************************************)
StartRead(r, units) ==
  /\ asked[r] = {} /\ units # {}
  /\ asked' = [asked EXCEPT ![r] = units]
  /\ reading' = [reading EXCEPT ![r] = units]
  /\ got' = [got EXCEPT ![r] = [u \in Units |-> Missed]]
  /\ left' = [left EXCEPT ![r] = ReadTime]
  /\ UNCHANGED <<reachable, answered, success, failures, wait, outages>>

\* at once, or at the second address after the first one timed out
Answers(r, u) ==
  /\ u \in reading[r] /\ u \in reachable
  /\ reading' = [reading EXCEPT ![r] = @ \ {u}]
  /\ got' = [got EXCEPT ![r][u] = 0]
  /\ answered' = [answered EXCEPT ![u] = 0]
  /\ UNCHANGED <<reachable, success, failures, wait, asked, left, bounds>>

TimesOut(r, u) ==
  /\ u \in reading[r] /\ u \notin reachable
  /\ reading' = [reading EXCEPT ![r] = @ \ {u}]
  /\ UNCHANGED <<reachable, answered, success, failures, wait, got, asked, left, bounds>>

Outage == outages < MaxOutages /\ outages' = outages + 1 /\ UNCHANGED testReads

\* an answer that is lost, or belongs to another serial number
Rejected(r, u) ==
  /\ u \in reading[r] /\ u \in reachable /\ Outage
  /\ reading' = [reading EXCEPT ![r] = @ \ {u}]
  /\ UNCHANGED <<reachable, answered, success, failures, wait, got, asked, left>>

(***************************************************************************)
(* _record_zensdk_cycle, for both readers; _async_poll_zensdk goes on with  *)
(* _schedule_zensdk_poll, from the end of the read                         *)
(***************************************************************************)
Delay(f) == IF f = 0 THEN 1 ELSE Delays[f]

Counts(r, u) == IF got[r][u] # Missed THEN 0 ELSE Min({failures[u] + 1, MaxFailures})

Ready(r) == asked[r] # {} /\ reading[r] = {}

\* defect: an answer counts from the moment it is recorded
RecordNow(r) ==
  /\ Ready(r)
  /\ failures' = [u \in Units |-> IF u \in asked[r] THEN Counts(r, u) ELSE failures[u]]
  /\ success' = [u \in Units |-> IF u \in asked[r] /\ got[r][u] # Missed THEN 0 ELSE success[u]]
  /\ wait' = [u \in Units |-> IF r = "poll" /\ u \in asked[r] THEN Delay(failures'[u]) ELSE wait[u]]
  /\ asked' = [asked EXCEPT ![r] = {}]
  /\ got' = [got EXCEPT ![r] = [u \in Units |-> Missed]]
  /\ left' = [left EXCEPT ![r] = 0]
  /\ UNCHANGED <<reachable, answered, reading, bounds>>

Record(r) ==
  /\ Ready(r)
  /\ failures' = [u \in Units |-> IF u \in asked[r] THEN Counts(r, u) ELSE failures[u]]
  /\ success' = [u \in Units |-> IF u \in asked[r] /\ got[r][u] # Missed THEN got[r][u] ELSE success[u]]
  /\ wait' = [u \in Units |-> IF r = "poll" /\ u \in asked[r] THEN Delay(failures'[u]) ELSE wait[u]]
  /\ asked' = [asked EXCEPT ![r] = {}]
  /\ got' = [got EXCEPT ![r] = [u \in Units |-> Missed]]
  /\ left' = [left EXCEPT ![r] = 0]
  /\ UNCHANGED <<reachable, answered, reading, bounds>>

\* defect: an offline device is not asked any more
DueUnlessOffline == {u \in Units : wait[u] = 0 /\ failures[u] < OfflineAfter}

Due == {u \in Units : wait[u] = 0}

AskDue == StartRead("poll", Due) /\ UNCHANGED testReads

\* read() of the first write test
TestReads ==
  /\ testReads < MaxTestReads /\ testReads' = testReads + 1
  /\ StartRead("test", Units)

(***************************************************************************)
(* Time: the loop turns and reads end before it passes                     *)
(***************************************************************************)
PollingTick ==
  /\ asked["poll"] = {} => Due = {}
  /\ \A r \in Readers : asked[r] # {} => reading[r] # {} /\ left[r] > 0
  /\ left' = [r \in Readers |-> Max({left[r] - 1, 0})]
  /\ wait' = [u \in Units |-> Max({wait[u] - 1, 0})]
  /\ success' = [u \in Units |-> Aged(success[u])]
  /\ answered' = [u \in Units |-> Aged(answered[u])]
  /\ got' = [r \in Readers |-> [u \in Units |-> Aged(got[r][u])]]
  /\ UNCHANGED <<reachable, failures, reading, asked, bounds>>

ReachabilityChanges(u) ==
  /\ Outage
  /\ reachable' = IF u \in reachable THEN reachable \ {u} ELSE reachable \cup {u}
  /\ UNCHANGED <<answered, success, failures, wait, reading, got, asked, left>>

PollingNext ==
  \/ AskDue \/ TestReads
  \/ \E r \in Readers : Record(r)
  \/ \E r \in Readers, u \in Units : Answers(r, u) \/ TimesOut(r, u) \/ Rejected(r, u)
  \/ PollingTick
  \/ \E u \in Units : ReachabilityChanges(u)

\* The loop turns, requests are answered or time out, and time passes.
PollingFair ==
  /\ WF_pollVars(AskDue) /\ WF_pollVars(PollingTick)
  /\ \A r \in Readers :
       /\ WF_pollVars(Record(r))
       /\ \A u \in Units :
            WF_pollVars(Answers(r, u) \/ TimesOut(r, u))

PollingSpec == PollingInit /\ [][PollingNext]_pollVars /\ PollingFair

(***************************************************************************)
(* _zensdk_health                                                          *)
(***************************************************************************)
Availability(u) ==
  CASE failures[u] >= OfflineAfter -> "offline"
    [] success[u] = Missed -> "unknown"
    [] success[u] > MaxDataAge -> "stale"
    [] failures[u] > 0 -> "degraded"
    [] OTHER -> "available"

Available(u) == Availability(u) = "available"

(***************************************************************************)
(* Properties                                                              *)
(***************************************************************************)
PollingTypeOK ==
  /\ reachable \subseteq Units
  /\ answered \in [Units -> 0..Ancient]
  /\ success \in [Units -> {Missed} \cup 0..Ancient]
  /\ failures \in [Units -> 0..MaxFailures]
  /\ wait \in [Units -> 0..Delays[MaxFailures]]
  /\ got \in [Readers -> [Units -> {Missed} \cup 0..Ancient]]
  /\ left \in [Readers -> 0..ReadTime]
  /\ \A r \in Readers : reading[r] \subseteq asked[r] /\ asked[r] \subseteq Units

\* ZENSDK_MAX_DATA_AGE: a device whose health lets commands pass answered
\* somebody within that age, although reads are recorded only when their slowest
\* device is done, an older success of one reader may clear newer failures of the
\* other, and the next poll of a device with failures is far away.
AvailableIsFresh ==
  PollingTypeOK /\ \A u \in Units : Available(u) => answered[u] <= MaxDataAge

\* A device that answers for good becomes available and stays so, whatever was
\* counted before and however long the reads of other devices take.
ReachableRecovers ==
  \A u \in Units : <>[](u \in reachable) => <>[]Available(u)
=============================================================================
