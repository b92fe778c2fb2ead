----------------------------- MODULE Ota_proofs -----------------------------
(***************************************************************************)
(* The invariants of Ota for any number of worker tasks, chunks, attempts  *)
(* and any clock.                                                          *)
(*                                                                         *)
(* OneUpdate counts; its inductive form, ApplyInv, names who will lower    *)
(* the flag.  ClaimInv and ShelterInv follow the claim, the pause and the  *)
(* watchdog through every position of a worker that relies on them.        *)
(* BootInv adds that whoever selected the slot is still there, waiting for *)
(* the restart: a selection that outlived its maker could be overwritten   *)
(* by the next update, and SelectedIsWhole would not be inductive.         *)
(***************************************************************************)
EXTENDS Ota, TLAPS, FiniteSetTheorems

HttpdRec == [pc : {"idle"} \cup ApplyPC \cup PushPC, avail : BOOLEAN, pre : Nat,
             paused : BOOLEAN, n : 0 .. Chunks]
WorkerRec == [pc : {"off"} \cup WorkerPC, dl : 0 .. MaxAttempts - 1, n : 0 .. Chunks,
              ok : BOOLEAN]

(* The types, with what keeps the chunk counters in range.                 *)
SharedType ==
    /\ inProgress \in BOOLEAN /\ claim \in {"none", "ota_pull", "upd_check"}
    /\ inFlight \in BOOLEAN /\ up \in 0 .. MaxUp
    /\ status \in [ok : BOOLEAN, at : Nat, avail : BOOLEAN]
    /\ sp \in [{"httpd", "timer"} -> {"no", "create"}]
    /\ chk \in {"off", "run", "release", "clear"}
    /\ paused \in BOOLEAN /\ wdt \in {"normal", "extended"} /\ boot \in {"running", "slot"}
    /\ overlap \in BOOLEAN /\ crossed \in BOOLEAN /\ leaked \in BOOLEAN
HttpdType ==
    /\ h \in HttpdRec
    /\ h.pc \in {"extend", "begin"} => h.n = 0
    /\ h.pc = "recv" => h.n < Chunks
WorkerType ==
    /\ w \in [Workers -> WorkerRec]
    /\ \A i \in Workers : w[i].pc = "perform" => w[i].n < Chunks
SlotType == slot \in [1 .. Chunks -> Workers \cup {"push", "old", "blank", "spoiled"}]
TypeInv == SharedType /\ HttpdType /\ WorkerType /\ SlotType

(* The flag is up while the one request or the one worker that will lower  *)
(* it is on its way.                                                       *)
WillLower(i) == w[i].pc \in WorkerPC \ {"resume", "release", "exit"}
ApplyInv ==
    /\ h.pc \in ApplyPC => inProgress
    /\ \A i \in Workers : WillLower(i) => inProgress /\ h.pc \notin ApplyPC
    /\ \A i, j \in Workers : WillLower(i) /\ WillLower(j) => i = j
    /\ inProgress => h.pc \in ApplyPC \/ \E i \in Workers : WillLower(i)

(* One check is being started or runs, and has the claim until it gives it *)
(* back.                                                                   *)
CheckInv ==
    /\ \A c \in {"httpd", "timer"} :
           sp[c] = "create" => inFlight /\ chk = "off" /\ claim = "upd_check"
    /\ ~(sp["httpd"] = "create" /\ sp["timer"] = "create")
    /\ chk # "off" => inFlight
    /\ chk = "run" => claim = "upd_check"
    /\ claim = "upd_check" => \/ \E c \in {"httpd", "timer"} : sp[c] = "create"
                              \/ chk \in {"run", "release"} \/ leaked
    /\ leaked => chk = "off"

(* Somebody who will release it stands behind "ota_pull", and has it       *)
(* unless another worker is, or was, beside it.                            *)
WillRelease(i) == w[i].pc \in WorkerPC \ {"exit"}
ClaimInv ==
    /\ claim = "ota_pull" => h.pc = "create" \/ \E i \in Workers : WillRelease(i)
    /\ h.pc = "create" => claim = "ota_pull" \/ overlap
    /\ \A i \in Workers : WillRelease(i) => claim = "ota_pull" \/ overlap

(* A worker that has paused the consumer, or extended the watchdog, finds  *)
(* them so, unless somebody beside it undid them.                          *)
HasPaused(i) == w[i].pc \in {"extend", "begin", "perform", "finish"}
HasExtended(i) == w[i].pc \in {"begin", "perform", "finish"}
ShelterInv ==
    /\ \A i \in Workers : HasPaused(i) => paused \/ overlap \/ crossed
    /\ \A i \in Workers : HasExtended(i) => wdt = "extended" \/ overlap \/ crossed

(* Company is on record: two live workers, a worker beside a request about *)
(* to create one, a worker beside a push.                                  *)
BesideInv ==
    \A i \in Workers : w[i].pc # "off" =>
        /\ h.pc = "create" => overlap
        /\ h.pc \in PushPC => crossed
        /\ \A j \in Workers : w[j].pc # "off" => i = j \/ overlap

(* Whoever selected the slot is still waiting for the restart.             *)
Selects(i) == w[i].pc = "restart" \/ (w[i].pc = "unextend" /\ w[i].ok)
BootInv ==
    boot = "slot" => /\ h.pc = "restart" \/ \E i \in Workers : Selects(i)
                     /\ Verified \/ crossed

IInv == TypeInv /\ ApplyInv /\ CheckInv /\ ClaimInv /\ ShelterInv /\ BesideInv /\ BootInv

(* What History says of a step, worker by worker.                          *)
HistoryFacts ==
    /\ \A i \in Workers : w'[i].pc # "off" =>
           /\ overlap => overlap'
           /\ crossed => crossed'
    /\ BesideInv'
    /\ h'.pc = "create" => (overlap => overlap')
    /\ h'.pc = "create" \/ h'.pc \in PushPC => (crossed => crossed')
    /\ claim' = "upd_check" /\ chk' = "off" =>
           /\ leaked => leaked'
           /\ \A c \in {"httpd", "timer"} : sp[c] = "create" /\ sp'[c] = "no" => leaked'
    /\ leaked' => chk' = "off"
    /\ overlap' \in BOOLEAN /\ crossed' \in BOOLEAN /\ leaked' \in BOOLEAN

-----------------------------------------------------------------------------
(* A finite set with two different members has more than one.              *)
LEMMA TwoMembers ==
    ASSUME NEW S, IsFiniteSet(S), NEW x \in S, NEW y \in S, x # y
    PROVE  Cardinality(S) > 1
<1>1. Cardinality(S) \in Nat
  BY FS_CardinalityType
<1>2. Cardinality(S) # 0
  BY FS_EmptySet
<1>3. Cardinality(S) # 1
  <2> SUFFICES ASSUME Cardinality(S) = 1 PROVE FALSE
    OBVIOUS
  <2>1. PICK z : S = {z}
    BY FS_Singleton
  <2> QED  BY <2>1
<1> QED  BY <1>1, <1>2, <1>3

(* The live workers and requests are finitely many after any step.         *)
LEMMA LiveFinite == IsFiniteSet(Live')
<1>1. IsFiniteSet(Workers \cup {"create"})
  BY OtaAssumption, FS_AddElement
<1>2. Live' \subseteq Workers \cup {"create"}
  BY DEF Live
<1> QED  BY <1>1, <1>2, FS_Subset

(* History establishes those facts: a worker that is not off is live.      *)
LEMMA HistoryRecords == ASSUME SharedType, History PROVE HistoryFacts
<1>1. ASSUME NEW x \in Live', NEW y \in Live', x # y PROVE overlap'
  <2>1. Cardinality(Live') > 1
    BY <1>1, LiveFinite, TwoMembers
  <2> QED  BY <1>1, <2>1 DEF History
<1>2. \A i \in Workers : w'[i].pc # "off" => i \in Live'
  BY DEF Live
<1>3. h'.pc = "create" => "create" \in Live'
  BY DEF Live
<1>4. "create" \notin Workers
  BY OtaAssumption
<1>5. Live' # {} => (overlap => overlap') /\ (crossed => crossed') /\ (Pushing' => crossed')
  BY DEF History
<1>6. Pushing' => (crossed => crossed')
  BY DEF History
<1>7. Pushing' <=> h'.pc \in PushPC
  BY DEF Pushing
<1>8. ASSUME NEW i \in Workers, w'[i].pc # "off"
      PROVE  /\ overlap => overlap'
             /\ crossed => crossed'
             /\ h'.pc = "create" => overlap'
             /\ h'.pc \in PushPC => crossed'
             /\ \A j \in Workers : w'[j].pc # "off" => i = j \/ overlap'
  BY <1>1, <1>2, <1>3, <1>4, <1>5, <1>7, <1>8
<1>9. h'.pc = "create" => (overlap => overlap') /\ (crossed => crossed')
  BY <1>3, <1>5
<1>10. claim' = "upd_check" /\ chk' = "off" =>
           /\ leaked => leaked'
           /\ \A c \in {"httpd", "timer"} : sp[c] = "create" /\ sp'[c] = "no" => leaked'
  BY DEF History, SharedType
<1>11. leaked' => chk' = "off"
  BY DEF History
<1>12. overlap' \in BOOLEAN /\ crossed' \in BOOLEAN /\ leaked' \in BOOLEAN
  BY DEF History
<1> QED  BY <1>6, <1>7, <1>8, <1>9, <1>10, <1>11, <1>12 DEF HistoryFacts, BesideInv

-----------------------------------------------------------------------------
(* What a step must leave alone for a part of the invariant to stand.      *)
(* First the flag and who will lower it.                                   *)
LEMMA ApplyKept ==
    ASSUME ApplyInv, UNCHANGED inProgress, h'.pc \in ApplyPC <=> h.pc \in ApplyPC,
           \A i \in Workers : WillLower(i)' <=> WillLower(i)
    PROVE  ApplyInv'
  BY DEF ApplyInv

(* The check: its own variables, and no change of claim to or from it.     *)
LEMMA CheckKept ==
    ASSUME SharedType, CheckInv, HistoryFacts, UNCHANGED check,
           claim' = claim \/ (claim # "upd_check" /\ claim' # "upd_check")
    PROVE  CheckInv'
<1>1. UNCHANGED <<sp, inFlight, chk>>
  BY DEF check
<1>2. ASSUME claim' = "upd_check"
      PROVE  (\E c \in {"httpd", "timer"} : sp'[c] = "create")
             \/ chk' \in {"run", "release"} \/ leaked'
  BY <1>1, <1>2 DEF SharedType, CheckInv, HistoryFacts
<1>3. leaked' => chk' = "off"
  BY DEF HistoryFacts
<1> QED  BY <1>1, <1>2, <1>3 DEF CheckInv

(* The claim and who will release it.                                      *)
LEMMA ClaimKept ==
    ASSUME SharedType, ClaimInv, HistoryFacts, UNCHANGED claim,
           h'.pc = "create" <=> h.pc = "create",
           \A i \in Workers : WillRelease(i)' <=> WillRelease(i)
    PROVE  ClaimInv'
<1>1. \A i \in Workers : WillRelease(i)' => (overlap => overlap')
  BY DEF HistoryFacts, WillRelease, WorkerPC
<1>2. h'.pc = "create" => (overlap => overlap')
  BY DEF HistoryFacts
<1> QED  BY <1>1, <1>2 DEF ClaimInv, SharedType

(* The pause and the watchdog, with no worker newly relying on them.       *)
LEMMA ShelterKept ==
    ASSUME SharedType, ShelterInv, HistoryFacts, UNCHANGED <<paused, wdt>>,
           \A i \in Workers : HasPaused(i)' => HasPaused(i),
           \A i \in Workers : HasExtended(i)' => HasExtended(i)
    PROVE  ShelterInv'
<1>1. \A i \in Workers : HasPaused(i)' => (overlap => overlap') /\ (crossed => crossed')
  BY DEF HistoryFacts, HasPaused
<1>2. \A i \in Workers : HasExtended(i)' => HasPaused(i)'
  BY DEF HasPaused, HasExtended
<1> QED  BY <1>1, <1>2 DEF ShelterInv, SharedType

(* The selection, the slot and who made the selection.                     *)
LEMMA BootKept ==
    ASSUME SharedType, BootInv, HistoryFacts, UNCHANGED <<boot, slot>>,
           h.pc = "restart" => h'.pc = "restart",
           \A i \in Workers : Selects(i) => Selects(i)'
    PROVE  BootInv'
<1>1. \A i \in Workers : Selects(i)' => (crossed => crossed')
  BY DEF HistoryFacts, Selects
<1>2. h'.pc = "restart" => (crossed => crossed')
  BY DEF HistoryFacts, PushPC
<1>3. Verified' <=> Verified
  BY DEF Verified, Image
<1> QED  BY <1>1, <1>2, <1>3 DEF BootInv, SharedType

(* A worker that leaves the download or tries again: the others stay.      *)
LEMMA LeaveMoves ==
    ASSUME WorkerType, NEW i \in Workers, NEW ok \in BOOLEAN, Leave(i, "unextend", ok)
    PROVE  /\ WorkerType' /\ w'[i].pc = "unextend" /\ w'[i].ok = ok
           /\ \A j \in Workers \ {i} : w'[j] = w[j]
<1>1. PICK r : r = [IdleWorker EXCEPT !.pc = "unextend", !.ok = ok]
  OBVIOUS
<1>2. r = [pc |-> "unextend", dl |-> 0, n |-> 0, ok |-> ok]
  BY <1>1 DEF IdleWorker
<1>3. r \in WorkerRec /\ r.pc = "unextend" /\ r.ok = ok
  BY <1>2, OtaAssumption DEF WorkerRec, WorkerPC
<1>4. w' = [w EXCEPT ![i] = r]
  BY <1>1 DEF Leave
<1> QED  BY <1>3, <1>4 DEF WorkerType

(* So with a failed attempt, whether or not attempts are left.             *)
LEMMA RetryMoves ==
    ASSUME WorkerType, NEW i \in Workers, Retry(i)
    PROVE  /\ WorkerType' /\ w'[i].pc \in {"begin", "unextend"}
           /\ w'[i].pc = "unextend" => ~w'[i].ok
           /\ \A j \in Workers \ {i} : w'[j] = w[j]
<1>1. CASE w[i].dl + 1 < MaxAttempts
  <2>1. w' = [w EXCEPT ![i].pc = "begin", ![i].dl = @ + 1]
    BY <1>1 DEF Retry
  <2> QED  BY <1>1, <2>1, OtaAssumption DEF WorkerType, WorkerRec, WorkerPC
<1>2. CASE ~(w[i].dl + 1 < MaxAttempts)
  BY <1>2, LeaveMoves DEF Retry
<1> QED  BY <1>1, <1>2


-----------------------------------------------------------------------------
(* try_spawn, whoever calls it: it takes the claim only when it is free,   *)
(* so a worker that should have it was overlapped before.                  *)
LEMMA TrySpawnKeeps ==
    ASSUME IInv, HistoryFacts, NEW c \in {"httpd", "timer"}, TrySpawn(c),
           h'.pc = "create" <=> h.pc = "create"
    PROVE  SharedType' /\ CheckInv' /\ ClaimInv'
<1>1. UNCHANGED <<inProgress, status, up, chk, w, paused, wdt, slot, boot>>
  BY DEF TrySpawn, device
<1>2. \/ UNCHANGED <<inFlight, claim, sp>>
      \/ /\ ~inFlight /\ claim \in {"none", "upd_check"} /\ inFlight' = TRUE
         /\ claim' = "upd_check" /\ sp' = [sp EXCEPT ![c] = "create"]
  BY DEF TrySpawn, Acquirable
<1>3. SharedType'
  <2>1. sp' \in [{"httpd", "timer"} -> {"no", "create"}]
    BY <1>2 DEF IInv, TypeInv, SharedType
  <2>2. inFlight' \in BOOLEAN /\ claim' \in {"none", "ota_pull", "upd_check"}
    BY <1>2 DEF IInv, TypeInv, SharedType
  <2> QED  BY <1>1, <2>1, <2>2 DEF IInv, TypeInv, SharedType, HistoryFacts
<1>4. CASE UNCHANGED <<inFlight, claim, sp>>
  <2>1. CheckInv'
    BY <1>1, <1>4, CheckKept DEF IInv, TypeInv, check
  <2>2. ClaimInv'
    BY <1>1, <1>4, ClaimKept DEF IInv, TypeInv, WillRelease
  <2> QED  BY <1>3, <2>1, <2>2
<1>5. CASE /\ ~inFlight /\ claim \in {"none", "upd_check"} /\ inFlight' = TRUE
           /\ claim' = "upd_check" /\ sp' = [sp EXCEPT ![c] = "create"]
  <2>1. CheckInv'
    BY <1>1, <1>5 DEF IInv, TypeInv, SharedType, CheckInv, HistoryFacts
  <2>2. ClaimInv'
    BY <1>1, <1>5 DEF IInv, TypeInv, SharedType, ClaimInv, HistoryFacts, WillRelease, WorkerPC
  <2> QED  BY <1>3, <2>1, <2>2
<1> QED  BY <1>2, <1>4, <1>5


(* The check worker and the timer.                                          *)
LEMMA CheckStep == ASSUME IInv, HistoryFacts, CheckNext PROVE IInv'
<1>1. CASE timer_work_fn
  <2>1. /\ TrySpawn("timer")
        /\ HttpdType'
        /\ h'.pc = "create" <=> h.pc = "create"
        /\ h'.pc \in ApplyPC <=> h.pc \in ApplyPC
        /\ h'.pc = "restart" <=> h.pc = "restart"
    BY <1>1 DEF IInv, TypeInv, timer_work_fn, Httpd, Goto, HttpdType, HttpdRec, ApplyPC, PushPC
  <2>2. UNCHANGED <<inProgress, w, paused, wdt, slot, boot>>
    BY <2>1 DEF TrySpawn, device
  <2>3. SharedType' /\ CheckInv' /\ ClaimInv'
    BY <2>1, TrySpawnKeeps
  <2>4. TypeInv'
    BY <2>1, <2>2, <2>3 DEF IInv, TypeInv, WorkerType, SlotType
  <2>5. ApplyInv'
    BY <2>1, <2>2, ApplyKept DEF IInv, WillLower
  <2>6. ShelterInv'
    BY <2>2, ShelterKept DEF IInv, TypeInv, HasPaused, HasExtended
  <2>7. BootInv'
    BY <2>1, <2>2, BootKept DEF IInv, TypeInv, Selects
  <2> QED  BY <2>3, <2>4, <2>5, <2>6, <2>7 DEF IInv, HistoryFacts
<1>2. ASSUME NEW c \in {"httpd", "timer"}, SpawnCreate(c) PROVE IInv'
  <2>1. /\ sp[c] = "create" /\ sp' = [sp EXCEPT ![c] = "no"]
        /\ \/ chk' = "run" /\ inFlight' = inFlight
           \/ inFlight' = FALSE /\ chk' = chk
        /\ UNCHANGED <<h, w, inProgress, paused, wdt, slot, boot, up>>
        /\ UNCHANGED <<claim, status>>
    BY <1>2, OtaAssumption DEF IInv, TypeInv, SpawnCreate, device, HttpdType, SharedType
  <2>2. TypeInv'
    <3>1. sp' \in [{"httpd", "timer"} -> {"no", "create"}]
      BY <2>1 DEF IInv, TypeInv, SharedType
    <3>2. chk' \in {"off", "run", "release", "clear"} /\ inFlight' \in BOOLEAN
      BY <2>1 DEF IInv, TypeInv, SharedType
    <3> QED  BY <2>1, <3>1, <3>2
      DEF IInv, TypeInv, HistoryFacts, SharedType, HttpdType, WorkerType, SlotType
  <2>3. ApplyInv'
    BY <2>1, ApplyKept DEF IInv, TypeInv, WillLower, ApplyPC, PushPC
  <2>4. CheckInv'
    BY <2>1 DEF IInv, TypeInv, SharedType, CheckInv, HistoryFacts
  <2>5. ClaimInv'
    BY <2>1, ClaimKept DEF IInv, TypeInv, WillRelease
  <2>6. ShelterInv'
    BY <2>1, ShelterKept DEF IInv, TypeInv, HasPaused, HasExtended
  <2>7. BootInv'
    BY <2>1, BootKept DEF IInv, TypeInv, Selects
  <2> QED  BY <2>2, <2>3, <2>4, <2>5, <2>6, <2>7 DEF IInv, HistoryFacts
<1>3. CASE bb_ota_check_run_one
  <2>1. /\ chk = "run" /\ chk' = "release"
        /\ status' \in [ok : BOOLEAN, at : Nat, avail : BOOLEAN]
        /\ UNCHANGED <<h, w, inProgress, paused, wdt, slot, boot, up>>
        /\ UNCHANGED <<claim, inFlight, sp>>
    <3>1. wall \in Nat
      BY OtaAssumption DEF IInv, TypeInv, SharedType, wall
    <3>2. status \in [ok : BOOLEAN, at : Nat, avail : BOOLEAN]
      BY DEF IInv, TypeInv, SharedType
    <3>3. Stamp([status EXCEPT !.ok = FALSE]) \in [ok : BOOLEAN, at : Nat, avail : BOOLEAN]
      BY <3>1, <3>2 DEF Stamp
    <3>4. \A a \in BOOLEAN : Stamp([status EXCEPT !.ok = TRUE, !.avail = a])
                                 \in [ok : BOOLEAN, at : Nat, avail : BOOLEAN]
      BY <3>1, <3>2 DEF Stamp
    <3>5. status' \in [ok : BOOLEAN, at : Nat, avail : BOOLEAN]
      BY <1>3, <3>2, <3>3, <3>4 DEF bb_ota_check_run_one
    <3> QED  BY <1>3, <3>5 DEF bb_ota_check_run_one, device
  <2>2. TypeInv'
    BY <2>1 DEF IInv, TypeInv, HistoryFacts, SharedType, HttpdType, WorkerType, SlotType
  <2>3. ApplyInv'
    BY <2>1, ApplyKept DEF IInv, TypeInv, WillLower, ApplyPC, PushPC
  <2>4. CheckInv'
    BY <2>1 DEF IInv, TypeInv, CheckInv, HistoryFacts
  <2>5. ClaimInv'
    BY <2>1, ClaimKept DEF IInv, TypeInv, WillRelease
  <2>6. ShelterInv'
    BY <2>1, ShelterKept DEF IInv, TypeInv, HasPaused, HasExtended
  <2>7. BootInv'
    BY <2>1, BootKept DEF IInv, TypeInv, Selects
  <2> QED  BY <2>2, <2>3, <2>4, <2>5, <2>6, <2>7 DEF IInv, HistoryFacts
<1>4. CASE CheckRelease
  <2>1. /\ chk = "release" /\ chk' = "clear"
        /\ claim' = IF claim = "upd_check" THEN "none" ELSE claim
        /\ UNCHANGED <<h, w, inProgress, paused, wdt, slot, boot, up>>
        /\ UNCHANGED <<inFlight, status, sp>>
    BY <1>4, OtaAssumption DEF IInv, TypeInv, CheckRelease, bb_claim_release, device,
       HttpdType, SharedType
  <2>2. TypeInv'
    BY <2>1 DEF IInv, TypeInv, HistoryFacts, SharedType, HttpdType, WorkerType, SlotType
  <2>3. ApplyInv'
    BY <2>1, ApplyKept DEF IInv, TypeInv, WillLower, ApplyPC, PushPC
  <2>4. CheckInv'
    BY <2>1 DEF IInv, TypeInv, CheckInv, HistoryFacts
  <2>5. ClaimInv'
    BY <2>1 DEF IInv, TypeInv, ClaimInv, WillRelease, WorkerPC, HistoryFacts, BesideInv,
       SharedType
  <2>6. ShelterInv'
    BY <2>1, ShelterKept DEF IInv, TypeInv, HasPaused, HasExtended
  <2>7. BootInv'
    BY <2>1, BootKept DEF IInv, TypeInv, Selects
  <2> QED  BY <2>2, <2>3, <2>4, <2>5, <2>6, <2>7 DEF IInv, HistoryFacts
<1>5. CASE CheckClear
  <2>1. /\ chk = "clear" /\ chk' = "off" /\ inFlight' = FALSE
        /\ UNCHANGED <<h, w, inProgress, paused, wdt, slot, boot, up>>
        /\ UNCHANGED <<claim, status, sp>>
    BY <1>5, OtaAssumption DEF IInv, TypeInv, CheckClear, device, HttpdType, SharedType
  <2>2. TypeInv'
    <3>1. SharedType'
      BY <2>1 DEF IInv, TypeInv, HistoryFacts, SharedType
    <3>2. HttpdType' /\ SlotType' /\ WorkerType'
      BY <2>1 DEF IInv, TypeInv, HttpdType, SlotType, WorkerType
    <3> QED  BY <3>1, <3>2 DEF TypeInv
  <2>3. ApplyInv'
    BY <2>1, ApplyKept DEF IInv, TypeInv, WillLower, ApplyPC, PushPC
  <2>4. CheckInv'
    BY <2>1 DEF IInv, TypeInv, CheckInv, HistoryFacts
  <2>5. ClaimInv'
    BY <2>1, ClaimKept DEF IInv, TypeInv, WillRelease
  <2>6. ShelterInv'
    BY <2>1, ShelterKept DEF IInv, TypeInv, HasPaused, HasExtended
  <2>7. BootInv'
    BY <2>1, BootKept DEF IInv, TypeInv, Selects
  <2> QED  BY <2>2, <2>3, <2>4, <2>5, <2>6, <2>7 DEF IInv, HistoryFacts
<1> QED  BY <1>1, <1>2, <1>3, <1>4, <1>5 DEF CheckNext

(* The httpd task on /api/update/check and /api/update/apply.              *)
LEMMA ApplyStep == ASSUME IInv, HistoryFacts, ApplyNext PROVE IInv'
<1>1. CASE ota_check_handler
  <2>1. /\ TrySpawn("httpd")
        /\ HttpdType'
        /\ h'.pc = "create" <=> h.pc = "create"
        /\ h'.pc \in ApplyPC <=> h.pc \in ApplyPC
        /\ h'.pc = "restart" <=> h.pc = "restart"
    BY <1>1 DEF IInv, TypeInv, ota_check_handler, Httpd, Goto, HttpdType, HttpdRec, ApplyPC, PushPC
  <2>2. UNCHANGED <<inProgress, w, paused, wdt, slot, boot>>
    BY <2>1 DEF TrySpawn, device
  <2>3. SharedType' /\ CheckInv' /\ ClaimInv'
    BY <2>1, TrySpawnKeeps
  <2>4. TypeInv'
    BY <2>1, <2>2, <2>3 DEF IInv, TypeInv, WorkerType, SlotType
  <2>5. ApplyInv'
    BY <2>1, <2>2, ApplyKept DEF IInv, WillLower
  <2>6. ShelterInv'
    BY <2>2, ShelterKept DEF IInv, TypeInv, HasPaused, HasExtended
  <2>7. BootInv'
    BY <2>1, <2>2, BootKept DEF IInv, TypeInv, Selects
  <2> QED  BY <2>3, <2>4, <2>5, <2>6, <2>7 DEF IInv, HistoryFacts
<1>2. CASE ApplyEnter
  <2>1. /\ h.pc = "idle" /\ h'.pc = "status" /\ HttpdType' /\ ~inProgress /\ inProgress'
        /\ UNCHANGED <<claim, inFlight, status, sp, chk, up, w, paused, wdt, slot, boot>>
    BY <1>2, OtaAssumption DEF IInv, TypeInv, ApplyEnter, Httpd, Goto, HttpdType,
       HttpdRec, ApplyPC, PushPC, check, device
  <2>2. TypeInv'
    BY <2>1 DEF IInv, TypeInv, HistoryFacts, SharedType, WorkerType, SlotType
  <2>3. ApplyInv'
    BY <2>1 DEF IInv, TypeInv, ApplyInv, ApplyPC, WillLower
  <2>4. CheckInv'
    BY <2>1, CheckKept DEF IInv, TypeInv, check
  <2>5. ClaimInv'
    BY <2>1, ClaimKept DEF IInv, TypeInv, WillRelease
  <2>6. ShelterInv'
    BY <2>1, ShelterKept DEF IInv, TypeInv, HasPaused, HasExtended
  <2>7. BootInv'
    BY <2>1, BootKept DEF IInv, TypeInv, Selects
  <2> QED  BY <2>2, <2>3, <2>4, <2>5, <2>6, <2>7 DEF IInv, HistoryFacts
<1>3. CASE ApplyStatus
  <2>1. /\ h.pc = "status" /\ h'.pc \in {"decide", "refresh"} /\ HttpdType'
        /\ UNCHANGED <<inProgress, claim, inFlight, status, sp, chk, up, w, paused, wdt,
           slot, boot>>
    BY <1>3, OtaAssumption DEF IInv, TypeInv, ApplyStatus, Httpd, Goto, HttpdType,
       HttpdRec, ApplyPC, PushPC, SharedType, check, device
  <2>2. TypeInv'
    BY <2>1 DEF IInv, TypeInv, HistoryFacts, SharedType, WorkerType, SlotType
  <2>3. ApplyInv'
    BY <2>1, ApplyKept DEF IInv, TypeInv, WillLower, ApplyPC, PushPC
  <2>4. CheckInv'
    BY <2>1, CheckKept DEF IInv, TypeInv, check
  <2>5. ClaimInv'
    BY <2>1, ClaimKept DEF IInv, TypeInv, WillRelease
  <2>6. ShelterInv'
    BY <2>1, ShelterKept DEF IInv, TypeInv, HasPaused, HasExtended
  <2>7. BootInv'
    BY <2>1, BootKept DEF IInv, TypeInv, Selects
  <2> QED  BY <2>2, <2>3, <2>4, <2>5, <2>6, <2>7 DEF IInv, HistoryFacts
<1>4. CASE RunBlocking
  <2>1. /\ h.pc = "refresh" /\ h'.pc = "kick" /\ HttpdType'
        /\ UNCHANGED <<inProgress, claim, inFlight, status, sp, chk, up, w, paused, wdt,
           slot, boot>>
    BY <1>4, OtaAssumption DEF IInv, TypeInv, RunBlocking, Httpd, Goto, HttpdType,
       HttpdRec, ApplyPC, PushPC, SharedType, check, device
  <2>2. TypeInv'
    BY <2>1 DEF IInv, TypeInv, HistoryFacts, SharedType, WorkerType, SlotType
  <2>3. ApplyInv'
    BY <2>1, ApplyKept DEF IInv, TypeInv, WillLower, ApplyPC, PushPC
  <2>4. CheckInv'
    BY <2>1, CheckKept DEF IInv, TypeInv, check
  <2>5. ClaimInv'
    BY <2>1, ClaimKept DEF IInv, TypeInv, WillRelease
  <2>6. ShelterInv'
    BY <2>1, ShelterKept DEF IInv, TypeInv, HasPaused, HasExtended
  <2>7. BootInv'
    BY <2>1, BootKept DEF IInv, TypeInv, Selects
  <2> QED  BY <2>2, <2>3, <2>4, <2>5, <2>6, <2>7 DEF IInv, HistoryFacts
<1>5. CASE RunBlockingKick
  <2>1. /\ TrySpawn("httpd")
        /\ HttpdType'
        /\ h'.pc = "create" <=> h.pc = "create"
        /\ h'.pc \in ApplyPC <=> h.pc \in ApplyPC
        /\ h'.pc = "restart" <=> h.pc = "restart"
    BY <1>5 DEF IInv, TypeInv, RunBlockingKick, Httpd, Goto, HttpdType, HttpdRec, ApplyPC, PushPC
  <2>2. UNCHANGED <<inProgress, w, paused, wdt, slot, boot>>
    BY <2>1 DEF TrySpawn, device
  <2>3. SharedType' /\ CheckInv' /\ ClaimInv'
    BY <2>1, TrySpawnKeeps
  <2>4. TypeInv'
    BY <2>1, <2>2, <2>3 DEF IInv, TypeInv, WorkerType, SlotType
  <2>5. ApplyInv'
    BY <2>1, <2>2, ApplyKept DEF IInv, WillLower
  <2>6. ShelterInv'
    BY <2>2, ShelterKept DEF IInv, TypeInv, HasPaused, HasExtended
  <2>7. BootInv'
    BY <2>1, <2>2, BootKept DEF IInv, TypeInv, Selects
  <2> QED  BY <2>3, <2>4, <2>5, <2>6, <2>7 DEF IInv, HistoryFacts
<1>6. CASE Poll
  <2>1. /\ h.pc = "poll" /\ h'.pc \in {"reread", "fail"} /\ HttpdType'
        /\ UNCHANGED <<inProgress, claim, inFlight, status, sp, chk, up, w, paused, wdt,
           slot, boot>>
    BY <1>6, OtaAssumption DEF IInv, TypeInv, Poll, Httpd, Goto, HttpdType, HttpdRec,
       ApplyPC, PushPC, check, device
  <2>2. TypeInv'
    BY <2>1 DEF IInv, TypeInv, HistoryFacts, SharedType, WorkerType, SlotType
  <2>3. ApplyInv'
    BY <2>1, ApplyKept DEF IInv, TypeInv, WillLower, ApplyPC, PushPC
  <2>4. CheckInv'
    BY <2>1, CheckKept DEF IInv, TypeInv, check
  <2>5. ClaimInv'
    BY <2>1, ClaimKept DEF IInv, TypeInv, WillRelease
  <2>6. ShelterInv'
    BY <2>1, ShelterKept DEF IInv, TypeInv, HasPaused, HasExtended
  <2>7. BootInv'
    BY <2>1, BootKept DEF IInv, TypeInv, Selects
  <2> QED  BY <2>2, <2>3, <2>4, <2>5, <2>6, <2>7 DEF IInv, HistoryFacts
<1>7. CASE Reread
  <2>1. /\ h.pc = "reread" /\ h'.pc \in {"decide", "fail"} /\ HttpdType'
        /\ UNCHANGED <<inProgress, claim, inFlight, status, sp, chk, up, w, paused, wdt,
           slot, boot>>
    BY <1>7, OtaAssumption DEF IInv, TypeInv, Reread, Httpd, Goto, HttpdType, HttpdRec,
       ApplyPC, PushPC, SharedType, check, device
  <2>2. TypeInv'
    BY <2>1 DEF IInv, TypeInv, HistoryFacts, SharedType, WorkerType, SlotType
  <2>3. ApplyInv'
    BY <2>1, ApplyKept DEF IInv, TypeInv, WillLower, ApplyPC, PushPC
  <2>4. CheckInv'
    BY <2>1, CheckKept DEF IInv, TypeInv, check
  <2>5. ClaimInv'
    BY <2>1, ClaimKept DEF IInv, TypeInv, WillRelease
  <2>6. ShelterInv'
    BY <2>1, ShelterKept DEF IInv, TypeInv, HasPaused, HasExtended
  <2>7. BootInv'
    BY <2>1, BootKept DEF IInv, TypeInv, Selects
  <2> QED  BY <2>2, <2>3, <2>4, <2>5, <2>6, <2>7 DEF IInv, HistoryFacts
<1>8. CASE ApplyDecide
  <2>1. /\ h.pc = "decide" /\ h'.pc \in {"acquire", "fail"} /\ HttpdType'
        /\ UNCHANGED <<inProgress, claim, inFlight, status, sp, chk, up, w, paused, wdt,
           slot, boot>>
    BY <1>8, OtaAssumption DEF IInv, TypeInv, ApplyDecide, Httpd, Goto, HttpdType,
       HttpdRec, ApplyPC, PushPC, check, device
  <2>2. TypeInv'
    BY <2>1 DEF IInv, TypeInv, HistoryFacts, SharedType, WorkerType, SlotType
  <2>3. ApplyInv'
    BY <2>1, ApplyKept DEF IInv, TypeInv, WillLower, ApplyPC, PushPC
  <2>4. CheckInv'
    BY <2>1, CheckKept DEF IInv, TypeInv, check
  <2>5. ClaimInv'
    BY <2>1, ClaimKept DEF IInv, TypeInv, WillRelease
  <2>6. ShelterInv'
    BY <2>1, ShelterKept DEF IInv, TypeInv, HasPaused, HasExtended
  <2>7. BootInv'
    BY <2>1, BootKept DEF IInv, TypeInv, Selects
  <2> QED  BY <2>2, <2>3, <2>4, <2>5, <2>6, <2>7 DEF IInv, HistoryFacts
<1>9. CASE ApplyAcquire
  <2>1. /\ h.pc = "acquire" /\ h'.pc \in {"create", "fail"} /\ HttpdType'
        /\ \/ h'.pc = "create" /\ claim # "upd_check" /\ claim' = "ota_pull"
           \/ h'.pc = "fail" /\ claim' = claim
        /\ UNCHANGED <<inProgress, inFlight, status, sp, chk, up, w, paused, wdt, slot,
           boot>>
    BY <1>9, OtaAssumption DEF IInv, TypeInv, ApplyAcquire, Httpd, Goto, HttpdType,
       HttpdRec, ApplyPC, PushPC, Acquirable, SharedType, check, device
  <2>2. TypeInv'
    BY <2>1 DEF IInv, TypeInv, HistoryFacts, SharedType, WorkerType, SlotType
  <2>3. ApplyInv'
    BY <2>1, ApplyKept DEF IInv, TypeInv, WillLower, ApplyPC, PushPC
  <2>4. CheckInv'
    BY <2>1, CheckKept DEF IInv, TypeInv, check
  <2>5. ClaimInv'
    BY <2>1 DEF IInv, TypeInv, ClaimInv, WillRelease, SharedType, HistoryFacts, BesideInv,
       WorkerPC
  <2>6. ShelterInv'
    BY <2>1, ShelterKept DEF IInv, TypeInv, HasPaused, HasExtended
  <2>7. BootInv'
    BY <2>1, BootKept DEF IInv, TypeInv, Selects
  <2> QED  BY <2>2, <2>3, <2>4, <2>5, <2>6, <2>7 DEF IInv, HistoryFacts
<1>10. CASE ApplyCreate
  <2>1. /\ h.pc = "create"
        /\ UNCHANGED <<inProgress, inFlight, status, sp, chk, up, paused, wdt, slot, boot>>
    BY <1>10 DEF ApplyCreate, Httpd, check, device
  <2>2. CASE /\ \E i \in Workers : w[i].pc = "off" /\ w' = [w EXCEPT ![i].pc = "pause"]
             /\ h' = IdleHttpd /\ UNCHANGED claim
    <3>1. PICK i \in Workers : w[i].pc = "off" /\ w' = [w EXCEPT ![i].pc = "pause"]
      BY <2>2
    <3>2. /\ w'[i].pc = "pause" /\ WorkerType'
          /\ \A j \in Workers \ {i} : w'[j] = w[j]
      BY <3>1 DEF IInv, TypeInv, WorkerType, WorkerRec, WorkerPC
    <3>3. HttpdType' /\ h'.pc = "idle"
      BY <2>2, OtaAssumption DEF IdleHttpd, HttpdType, HttpdRec
    <3>4. TypeInv'
      BY <2>1, <2>2, <3>2, <3>3 DEF IInv, TypeInv, HistoryFacts, SharedType, SlotType
    <3>5. ApplyInv'
      BY <2>1, <3>1, <3>2, <3>3 DEF IInv, ApplyInv, WillLower, ApplyPC, WorkerPC
    <3>6. CheckInv'
      BY <2>1, <2>2, CheckKept DEF IInv, TypeInv, check
    <3>7. ClaimInv'
      BY <2>1, <2>2, <3>1, <3>2, <3>3
      DEF IInv, TypeInv, ClaimInv, WillRelease, WorkerPC, HistoryFacts, SharedType
    <3>8. ShelterInv'
      BY <2>1, <3>1, <3>2, ShelterKept DEF IInv, TypeInv, HasPaused, HasExtended
    <3>9. BootInv'
      BY <2>1, <3>1, <3>2, <3>3, BootKept DEF IInv, TypeInv, Selects
    <3> QED  BY <3>4, <3>5, <3>6, <3>7, <3>8, <3>9 DEF IInv, HistoryFacts
  <2>3. CASE bb_claim_release("ota_pull") /\ Goto("fail") /\ UNCHANGED w
    <3>1. HttpdType' /\ h'.pc = "fail" /\ claim' = IF claim = "ota_pull" THEN "none" ELSE claim
      BY <2>1, <2>3 DEF IInv, TypeInv, Goto, HttpdType, HttpdRec, ApplyPC, bb_claim_release
    <3>2. TypeInv'
      BY <2>1, <2>3, <3>1 DEF IInv, TypeInv, HistoryFacts, SharedType, WorkerType, SlotType
    <3>3. ApplyInv'
      BY <2>1, <2>3, <3>1, ApplyKept DEF IInv, WillLower, ApplyPC
    <3>4. CheckInv'
      BY <2>1, <3>1, CheckKept DEF IInv, TypeInv, check
    <3>5. ClaimInv'
      BY <2>1, <2>3, <3>1
      DEF IInv, TypeInv, ClaimInv, BesideInv, WillRelease, WorkerPC, HistoryFacts, SharedType
    <3>6. ShelterInv'
      BY <2>1, <2>3, ShelterKept DEF IInv, TypeInv, HasPaused, HasExtended
    <3>7. BootInv'
      BY <2>1, <2>3, <3>1, BootKept DEF IInv, TypeInv, Selects
    <3> QED  BY <3>2, <3>3, <3>4, <3>5, <3>6, <3>7 DEF IInv, HistoryFacts
  <2> QED  BY <1>10, <2>2, <2>3 DEF ApplyCreate
<1>11. CASE ApplyFail
  <2>1. /\ h.pc = "fail" /\ h'.pc = "idle" /\ HttpdType' /\ inProgress' = FALSE
        /\ UNCHANGED <<claim, inFlight, status, sp, chk, up, w, paused, wdt, slot, boot>>
    BY <1>11, OtaAssumption DEF IInv, TypeInv, ApplyFail, Httpd, Goto, HttpdType,
       HttpdRec, ApplyPC, PushPC, IdleHttpd, check, device
  <2>2. TypeInv'
    BY <2>1 DEF IInv, TypeInv, HistoryFacts, SharedType, WorkerType, SlotType
  <2>3. ApplyInv'
    BY <2>1 DEF IInv, TypeInv, ApplyInv, ApplyPC, WillLower
  <2>4. CheckInv'
    BY <2>1, CheckKept DEF IInv, TypeInv, check
  <2>5. ClaimInv'
    BY <2>1, ClaimKept DEF IInv, TypeInv, WillRelease
  <2>6. ShelterInv'
    BY <2>1, ShelterKept DEF IInv, TypeInv, HasPaused, HasExtended
  <2>7. BootInv'
    BY <2>1, BootKept DEF IInv, TypeInv, Selects
  <2> QED  BY <2>2, <2>3, <2>4, <2>5, <2>6, <2>7 DEF IInv, HistoryFacts
<1> QED  BY <1>1, <1>2, <1>3, <1>4, <1>5, <1>6, <1>7, <1>8, <1>9, <1>10, <1>11 DEF ApplyNext

(* A pull worker.  What it undoes under another live worker is excused by  *)
(* overlap, which History has raised by then.                              *)
LEMMA PullStep == ASSUME IInv, HistoryFacts, NEW i \in Workers, PullNext(i) PROVE IInv'
<1>1. CASE PullPause(i)
  <2>1. /\ w[i].pc = "pause" /\ w'[i].pc \in {"extend", "release"} /\ WorkerType'
        /\ \A j \in Workers \ {i} : w'[j] = w[j]
        /\ \/ w'[i].pc = "extend" /\ paused' /\ inProgress' = inProgress
           \/ w'[i].pc = "release" /\ ~inProgress' /\ paused' = paused
        /\ paused' \in BOOLEAN /\ inProgress' \in BOOLEAN
        /\ UNCHANGED <<claim, inFlight, status, sp, chk, up, h, wdt, slot, boot>>
    <3>1. WorkerType /\ w[i].pc = "pause"
      BY <1>1 DEF IInv, TypeInv, PullPause, Worker
    <3>2. /\ UNCHANGED <<claim, inFlight, status, sp, chk, up, h, wdt, slot, boot>>
          /\ paused \in BOOLEAN /\ inProgress \in BOOLEAN
      BY <1>1 DEF IInv, TypeInv, SharedType, PullPause, check
    <3>3. ASSUME NEW l \in {"extend", "release"}, Step(i, l)
          PROVE  w'[i].pc = l /\ WorkerType' /\ \A j \in Workers \ {i} : w'[j] = w[j]
      BY <3>1, <3>3 DEF Step, WorkerType, WorkerRec, WorkerPC
    <3>4. CASE paused' = TRUE /\ Step(i, "extend") /\ UNCHANGED inProgress
      BY <3>1, <3>2, <3>3, <3>4
    <3>5. CASE inProgress' = FALSE /\ Step(i, "release") /\ UNCHANGED paused
      BY <3>1, <3>2, <3>3, <3>5
    <3> QED  BY <1>1, <3>4, <3>5 DEF PullPause
  <2>2. TypeInv'
    BY <2>1 DEF IInv, TypeInv, HistoryFacts, SharedType, HttpdType, SlotType
  <2>3. ApplyInv'
    BY <2>1 DEF IInv, TypeInv, ApplyInv, WillLower, WorkerPC
  <2>4. CheckInv'
    BY <2>1, CheckKept DEF IInv, TypeInv, check
  <2>5. ClaimInv'
    BY <2>1, ClaimKept DEF IInv, TypeInv, WillRelease, WorkerPC
  <2>6. ShelterInv'
    BY <2>1 DEF IInv, TypeInv, ShelterInv, HasPaused, HasExtended, HistoryFacts,
       BesideInv, SharedType
  <2>7. BootInv'
    BY <2>1, BootKept DEF IInv, TypeInv, Selects
  <2> QED  BY <2>2, <2>3, <2>4, <2>5, <2>6, <2>7 DEF IInv, HistoryFacts
<1>2. CASE PullExtend(i)
  <2>1. /\ w[i].pc = "extend" /\ w'[i].pc \in {"begin", "unextend"} /\ WorkerType'
        /\ \A j \in Workers \ {i} : w'[j] = w[j]
        /\ wdt' = "extended" /\ w'[i].ok = w[i].ok
        /\ UNCHANGED <<inProgress, claim, inFlight, status, sp, chk, up, h, paused, slot,
           boot>>
    BY <1>2, OtaAssumption DEF IInv, TypeInv, PullExtend, Worker, Step, WorkerType,
       WorkerRec, WorkerPC, check, device
  <2>2. TypeInv'
    BY <2>1 DEF IInv, TypeInv, HistoryFacts, SharedType, HttpdType, SlotType
  <2>3. ApplyInv'
    BY <2>1, ApplyKept DEF IInv, TypeInv, WillLower, WorkerPC
  <2>4. CheckInv'
    BY <2>1, CheckKept DEF IInv, TypeInv, check
  <2>5. ClaimInv'
    BY <2>1, ClaimKept DEF IInv, TypeInv, WillRelease, WorkerPC
  <2>6. ShelterInv'
    BY <2>1 DEF IInv, TypeInv, ShelterInv, HasPaused, HasExtended, HistoryFacts,
       BesideInv, SharedType
  <2>7. BootInv'
    BY <2>1, BootKept DEF IInv, TypeInv, Selects
  <2> QED  BY <2>2, <2>3, <2>4, <2>5, <2>6, <2>7 DEF IInv, HistoryFacts
<1>3. CASE PullBegin(i)
  <2>1. /\ w[i].pc = "begin" /\ w'[i].pc \in {"begin", "perform", "unextend"}
        /\ WorkerType'
        /\ \A j \in Workers \ {i} : w'[j] = w[j]
        /\ w'[i].pc = "unextend" => ~w'[i].ok
        /\ UNCHANGED <<inProgress, claim, inFlight, status, sp, chk, up, h, paused, wdt,
           slot, boot>>
    <3>1. WorkerType /\ w[i].pc = "begin"
      BY <1>3 DEF IInv, TypeInv, PullBegin, Worker
    <3>2. UNCHANGED <<inProgress, claim, inFlight, status, sp, chk, up, h, paused, wdt, slot, boot>>
      BY <1>3 DEF PullBegin, check, device
    <3>3. CASE w' = [w EXCEPT ![i].pc = "perform", ![i].n = 0]
      <4>1. w[i] \in WorkerRec /\ w'[i] = [w[i] EXCEPT !.pc = "perform", !.n = 0]
            /\ \A j \in Workers \ {i} : w'[j] = w[j]
        BY <3>1, <3>3 DEF WorkerType
      <4>2. w'[i] \in WorkerRec /\ w'[i].pc = "perform" /\ w'[i].n = 0
        <5>1. w'[i] = [pc |-> "perform", dl |-> w[i].dl, n |-> 0, ok |-> w[i].ok]
          BY <4>1 DEF WorkerRec
        <5> QED  BY <4>1, <5>1, OtaAssumption DEF WorkerRec, WorkerPC
      <4>3. w' \in [Workers -> WorkerRec]
        BY <3>1, <3>3, <4>1, <4>2 DEF WorkerType
      <4>4. WorkerType'
        <5>1. \A j \in Workers : w'[j].pc = "perform" => w'[j].n < Chunks
          <6>1. \A j \in Workers \ {i} : w[j].pc = "perform" => w[j].n < Chunks
            BY <3>1 DEF WorkerType
          <6>2. \A j \in Workers \ {i} : w'[j] = w[j]
            BY <4>1
          <6>3. w'[i].pc = "perform" => w'[i].n < Chunks
            BY <3>1, <4>2, OtaAssumption
          <6> QED  BY <6>1, <6>2, <6>3
        <5> QED  BY <4>3, <5>1 DEF WorkerType
      <4> QED  BY <3>1, <3>2, <4>1, <4>2, <4>4
    <3>4. CASE Retry(i) \/ Leave(i, "unextend", FALSE)
      BY <3>1, <3>2, <3>4, RetryMoves, LeaveMoves
    <3> QED  BY <1>3, <3>3, <3>4 DEF PullBegin
  <2>2. TypeInv'
    BY <2>1 DEF IInv, TypeInv, HistoryFacts, SharedType, HttpdType, SlotType
  <2>3. ApplyInv'
    BY <2>1, ApplyKept DEF IInv, TypeInv, WillLower, WorkerPC
  <2>4. CheckInv'
    BY <2>1, CheckKept DEF IInv, TypeInv, check
  <2>5. ClaimInv'
    BY <2>1, ClaimKept DEF IInv, TypeInv, WillRelease, WorkerPC
  <2>6. ShelterInv'
    BY <2>1, ShelterKept DEF IInv, TypeInv, HasPaused, HasExtended
  <2>7. BootInv'
    BY <2>1, BootKept DEF IInv, TypeInv, Selects
  <2> QED  BY <2>2, <2>3, <2>4, <2>5, <2>6, <2>7 DEF IInv, HistoryFacts
<1>4. CASE PullPerform(i)
  <2>1. /\ w[i].pc = "perform" /\ w'[i].pc \in {"perform", "finish", "begin", "unextend"}
        /\ WorkerType'
        /\ \A j \in Workers \ {i} : w'[j] = w[j]
        /\ SlotType'
        /\ w'[i].pc = "unextend" => ~w'[i].ok
        /\ UNCHANGED <<inProgress, claim, inFlight, status, sp, chk, up, h, paused, wdt,
           boot>>
    <3>1. WorkerType /\ w[i].pc = "perform" /\ w[i].n \in 0 .. Chunks - 1
      BY <1>4, OtaAssumption DEF IInv, TypeInv, PullPerform, Worker, WorkerType, WorkerRec
    <3>2. UNCHANGED <<inProgress, claim, inFlight, status, sp, chk, up, h, paused, wdt, boot>>
      BY <1>4 DEF PullPerform, check
    <3>3. CASE /\ WriteErased(w[i].n + 1, i)
               /\ w' = [w EXCEPT ![i].n = @ + 1,
                                 ![i].pc = IF w[i].n + 1 = Chunks THEN "finish" ELSE @]
      <4>1. SlotType'
        BY <3>1, <3>3 DEF IInv, TypeInv, SlotType, WriteErased
      <4>2. WorkerType' /\ w'[i].pc \in {"perform", "finish"}
            /\ \A j \in Workers \ {i} : w'[j] = w[j]
        <5>1. w[i] \in WorkerRec
              /\ w'[i] = [w[i] EXCEPT !.n = @ + 1,
                                      !.pc = IF w[i].n + 1 = Chunks THEN "finish" ELSE @]
              /\ \A j \in Workers \ {i} : w'[j] = w[j]
          BY <3>1, <3>3 DEF WorkerType
        <5>2. w'[i] \in WorkerRec /\ w'[i].n = w[i].n + 1
              /\ w'[i].pc = IF w[i].n + 1 = Chunks THEN "finish" ELSE "perform"
          <6>1. w'[i] = [pc |-> IF w[i].n + 1 = Chunks THEN "finish" ELSE "perform",
                         dl |-> w[i].dl, n |-> w[i].n + 1, ok |-> w[i].ok]
            BY <3>1, <5>1 DEF WorkerRec
          <6> QED  BY <3>1, <5>1, <6>1, OtaAssumption DEF WorkerRec, WorkerPC
        <5>3. w' \in [Workers -> WorkerRec]
          BY <3>1, <3>3, <5>1, <5>2 DEF WorkerType
        <5>4. \A j \in Workers : w'[j].pc = "perform" => w'[j].n < Chunks
          <6>1. \A j \in Workers \ {i} : w[j].pc = "perform" => w[j].n < Chunks
            BY <3>1 DEF WorkerType
          <6>2. \A j \in Workers \ {i} : w'[j] = w[j]
            BY <5>1
          <6>3. w'[i].pc = "perform" => w'[i].n < Chunks
            BY <3>1, <5>2, OtaAssumption
          <6> QED  BY <6>1, <6>2, <6>3
        <5> QED  BY <5>1, <5>2, <5>3, <5>4 DEF WorkerType
      <4> QED  BY <3>1, <3>2, <4>1, <4>2
    <3>4. CASE Retry(i) /\ UNCHANGED slot
      <4>1. SlotType'
        BY <3>4 DEF IInv, TypeInv, SlotType
      <4> QED  BY <3>1, <3>2, <3>4, <4>1, RetryMoves
    <3> QED  BY <1>4, <3>3, <3>4 DEF PullPerform
  <2>2. TypeInv'
    BY <2>1 DEF IInv, TypeInv, HistoryFacts, SharedType, HttpdType, SlotType
  <2>3. ApplyInv'
    BY <2>1, ApplyKept DEF IInv, TypeInv, WillLower, WorkerPC
  <2>4. CheckInv'
    BY <2>1, CheckKept DEF IInv, TypeInv, check
  <2>5. ClaimInv'
    BY <2>1, ClaimKept DEF IInv, TypeInv, WillRelease, WorkerPC
  <2>6. ShelterInv'
    BY <2>1, ShelterKept DEF IInv, TypeInv, HasPaused, HasExtended
  <2>7. BootInv'
    BY <2>1 DEF IInv, TypeInv, BootInv, Selects, HistoryFacts, BesideInv, SharedType,
       ApplyInv, WillLower, WorkerPC, PushPC
  <2> QED  BY <2>2, <2>3, <2>4, <2>5, <2>6, <2>7 DEF IInv, HistoryFacts
<1>5. CASE PullFinish(i)
  <2>1. /\ w[i].pc = "finish" /\ w'[i].pc = "unextend" /\ WorkerType'
        /\ \A j \in Workers \ {i} : w'[j] = w[j]
        /\ \/ w'[i].ok /\ Verified /\ boot' = "slot"
           \/ boot' = boot
        /\ UNCHANGED <<inProgress, claim, inFlight, status, sp, chk, up, h, paused, wdt,
           slot>>
    <3>1. /\ WorkerType /\ w[i].pc = "finish"
          /\ UNCHANGED <<inProgress, claim, inFlight, status, sp, chk, up, h, paused, wdt,
             slot>>
      BY <1>5 DEF IInv, TypeInv, PullFinish, Worker, check
    <3>2. PICK ok \in BOOLEAN : /\ Leave(i, "unextend", ok)
                               /\ \/ ok /\ Verified /\ boot' = "slot"
                                  \/ boot' = boot
      BY <1>5 DEF PullFinish
    <3>3. WorkerType' /\ w'[i].pc = "unextend" /\ (w'[i].ok <=> ok)
          /\ \A j \in Workers \ {i} : w'[j] = w[j]
      BY <3>1, <3>2, LeaveMoves
    <3> QED  BY <3>1, <3>2, <3>3
  <2>2. TypeInv'
    BY <2>1 DEF IInv, TypeInv, HistoryFacts, SharedType, HttpdType, SlotType
  <2>3. ApplyInv'
    BY <2>1, ApplyKept DEF IInv, TypeInv, WillLower, WorkerPC
  <2>4. CheckInv'
    BY <2>1, CheckKept DEF IInv, TypeInv, check
  <2>5. ClaimInv'
    BY <2>1, ClaimKept DEF IInv, TypeInv, WillRelease, WorkerPC
  <2>6. ShelterInv'
    BY <2>1, ShelterKept DEF IInv, TypeInv, HasPaused, HasExtended
  <2>7. BootInv'
    BY <2>1 DEF IInv, TypeInv, BootInv, Selects, HistoryFacts, BesideInv, SharedType,
       PushPC, Verified, Image
  <2> QED  BY <2>2, <2>3, <2>4, <2>5, <2>6, <2>7 DEF IInv, HistoryFacts
<1>6. CASE PullUnextend(i)
  <2>1. /\ w[i].pc = "unextend" /\ w'[i].pc \in {"restart", "clear"} /\ WorkerType'
        /\ \A j \in Workers \ {i} : w'[j] = w[j]
        /\ wdt' = "normal"
        /\ w[i].ok => w'[i].pc = "restart"
        /\ UNCHANGED <<inProgress, claim, inFlight, status, sp, chk, up, h, paused, slot,
           boot>>
    BY <1>6, OtaAssumption DEF IInv, TypeInv, PullUnextend, Worker, Step, WorkerType,
       WorkerRec, WorkerPC, check, device
  <2>2. TypeInv'
    BY <2>1 DEF IInv, TypeInv, HistoryFacts, SharedType, HttpdType, SlotType
  <2>3. ApplyInv'
    BY <2>1, ApplyKept DEF IInv, TypeInv, WillLower, WorkerPC
  <2>4. CheckInv'
    BY <2>1, CheckKept DEF IInv, TypeInv, check
  <2>5. ClaimInv'
    BY <2>1, ClaimKept DEF IInv, TypeInv, WillRelease, WorkerPC
  <2>6. ShelterInv'
    BY <2>1 DEF IInv, TypeInv, ShelterInv, HasPaused, HasExtended, HistoryFacts,
       BesideInv, SharedType
  <2>7. BootInv'
    BY <2>1, BootKept DEF IInv, TypeInv, Selects
  <2> QED  BY <2>2, <2>3, <2>4, <2>5, <2>6, <2>7 DEF IInv, HistoryFacts
<1>7. CASE PullClear(i)
  <2>1. /\ w[i].pc = "clear" /\ w'[i].pc = "resume" /\ WorkerType'
        /\ \A j \in Workers \ {i} : w'[j] = w[j]
        /\ inProgress' = FALSE
        /\ UNCHANGED <<claim, inFlight, status, sp, chk, up, h, paused, wdt, slot, boot>>
    BY <1>7, OtaAssumption DEF IInv, TypeInv, PullClear, Worker, Step, WorkerType,
       WorkerRec, WorkerPC, check, device
  <2>2. TypeInv'
    <3>1. SharedType'
      BY <2>1 DEF IInv, TypeInv, HistoryFacts, SharedType
    <3>2. HttpdType' /\ SlotType' /\ WorkerType'
      BY <2>1 DEF IInv, TypeInv, HttpdType, SlotType
    <3> QED  BY <3>1, <3>2 DEF TypeInv
  <2>3. ApplyInv'
    BY <2>1 DEF IInv, TypeInv, ApplyInv, WillLower, WorkerPC
  <2>4. CheckInv'
    BY <2>1, CheckKept DEF IInv, TypeInv, check
  <2>5. ClaimInv'
    BY <2>1, ClaimKept DEF IInv, TypeInv, WillRelease, WorkerPC
  <2>6. ShelterInv'
    BY <2>1, ShelterKept DEF IInv, TypeInv, HasPaused, HasExtended
  <2>7. BootInv'
    BY <2>1, BootKept DEF IInv, TypeInv, Selects
  <2> QED  BY <2>2, <2>3, <2>4, <2>5, <2>6, <2>7 DEF IInv, HistoryFacts
<1>8. CASE PullResume(i)
  <2>1. /\ w[i].pc = "resume" /\ w'[i].pc = "release" /\ WorkerType'
        /\ \A j \in Workers \ {i} : w'[j] = w[j]
        /\ paused' = FALSE
        /\ UNCHANGED <<inProgress, claim, inFlight, status, sp, chk, up, h, wdt, slot,
           boot>>
    BY <1>8, OtaAssumption DEF IInv, TypeInv, PullResume, Worker, Step, WorkerType,
       WorkerRec, WorkerPC, check, device
  <2>2. TypeInv'
    <3>1. SharedType'
      BY <2>1 DEF IInv, TypeInv, HistoryFacts, SharedType
    <3>2. HttpdType' /\ SlotType' /\ WorkerType'
      BY <2>1 DEF IInv, TypeInv, HttpdType, SlotType
    <3> QED  BY <3>1, <3>2 DEF TypeInv
  <2>3. ApplyInv'
    BY <2>1, ApplyKept DEF IInv, TypeInv, WillLower, WorkerPC
  <2>4. CheckInv'
    BY <2>1, CheckKept DEF IInv, TypeInv, check
  <2>5. ClaimInv'
    BY <2>1, ClaimKept DEF IInv, TypeInv, WillRelease, WorkerPC
  <2>6. ShelterInv'
    BY <2>1 DEF IInv, TypeInv, ShelterInv, HasPaused, HasExtended, HistoryFacts,
       BesideInv, SharedType
  <2>7. BootInv'
    BY <2>1, BootKept DEF IInv, TypeInv, Selects
  <2> QED  BY <2>2, <2>3, <2>4, <2>5, <2>6, <2>7 DEF IInv, HistoryFacts
<1>9. CASE PullRelease(i)
  <2>1. /\ w[i].pc = "release" /\ w'[i].pc = "exit" /\ WorkerType'
        /\ \A j \in Workers \ {i} : w'[j] = w[j]
        /\ claim' = IF claim = "ota_pull" THEN "none" ELSE claim
        /\ UNCHANGED <<inProgress, inFlight, status, sp, chk, up, h, paused, wdt, slot,
           boot>>
    BY <1>9, OtaAssumption DEF IInv, TypeInv, PullRelease, Worker, Step, WorkerType,
       WorkerRec, WorkerPC, bb_claim_release, check, device
  <2>2. TypeInv'
    BY <2>1 DEF IInv, TypeInv, HistoryFacts, SharedType, HttpdType, SlotType
  <2>3. ApplyInv'
    BY <2>1, ApplyKept DEF IInv, TypeInv, WillLower, WorkerPC
  <2>4. CheckInv'
    BY <2>1, CheckKept DEF IInv, TypeInv, check
  <2>5. ClaimInv'
    BY <2>1 DEF IInv, TypeInv, ClaimInv, WillRelease, WorkerPC, HistoryFacts, BesideInv,
       SharedType
  <2>6. ShelterInv'
    BY <2>1, ShelterKept DEF IInv, TypeInv, HasPaused, HasExtended
  <2>7. BootInv'
    BY <2>1, BootKept DEF IInv, TypeInv, Selects
  <2> QED  BY <2>2, <2>3, <2>4, <2>5, <2>6, <2>7 DEF IInv, HistoryFacts
<1>10. CASE PullExit(i)
  <2>1. /\ w[i].pc = "exit" /\ w'[i].pc = "off" /\ WorkerType'
        /\ \A j \in Workers \ {i} : w'[j] = w[j]
        /\ wdt' = "normal"
        /\ UNCHANGED <<inProgress, claim, inFlight, status, sp, chk, up, h, paused, slot,
           boot>>
    BY <1>10, OtaAssumption DEF IInv, TypeInv, PullExit, Worker, Step, WorkerType,
       WorkerRec, WorkerPC, IdleWorker, check, device
  <2>2. TypeInv'
    BY <2>1 DEF IInv, TypeInv, HistoryFacts, SharedType, HttpdType, SlotType
  <2>3. ApplyInv'
    BY <2>1, ApplyKept DEF IInv, TypeInv, WillLower, WorkerPC
  <2>4. CheckInv'
    BY <2>1, CheckKept DEF IInv, TypeInv, check
  <2>5. ClaimInv'
    BY <2>1, ClaimKept DEF IInv, TypeInv, WillRelease, WorkerPC
  <2>6. ShelterInv'
    BY <2>1 DEF IInv, TypeInv, ShelterInv, HasPaused, HasExtended, HistoryFacts,
       BesideInv, SharedType
  <2>7. BootInv'
    BY <2>1, BootKept DEF IInv, TypeInv, Selects
  <2> QED  BY <2>2, <2>3, <2>4, <2>5, <2>6, <2>7 DEF IInv, HistoryFacts
<1> QED  BY <1>1, <1>2, <1>3, <1>4, <1>5, <1>6, <1>7, <1>8, <1>9, <1>10 DEF PullNext

(* The push handler.  Beside any live worker it has raised crossed.        *)
LEMMA PushStep == ASSUME IInv, HistoryFacts, PushNext PROVE IInv'
<1>1. CASE PushPause
  <2>1. /\ h.pc = "idle" /\ h'.pc = "extend" /\ HttpdType' /\ paused' \in BOOLEAN
        /\ paused => paused'
        /\ UNCHANGED <<inProgress, claim, inFlight, status, sp, chk, up, w, wdt, slot,
           boot>>
    <3>1. PICK p \in BOOLEAN : /\ paused' = (paused \/ p)
                             /\ h' = [IdleHttpd EXCEPT !.pc = "extend", !.paused = p]
      BY <1>1 DEF PushPause
    <3>2. HttpdType' /\ h'.pc = "extend"
      <4>1. h' \in HttpdRec /\ h'.pc = "extend" /\ h'.n = 0
        <5>1. h' = [pc |-> "extend", avail |-> FALSE, pre |-> 0, paused |-> p, n |-> 0]
          BY <3>1 DEF IdleHttpd
        <5> QED  BY <5>1, OtaAssumption DEF HttpdRec, PushPC
      <4> QED  BY <4>1 DEF HttpdType
    <3>3. paused' \in BOOLEAN /\ (paused => paused')
      BY <3>1
    <3> QED  BY <1>1, <3>2, <3>3 DEF PushPause, Httpd, check
  <2>2. TypeInv'
    BY <2>1 DEF IInv, TypeInv, HistoryFacts, SharedType, WorkerType, SlotType
  <2>3. ApplyInv'
    BY <2>1, ApplyKept DEF IInv, TypeInv, WillLower, ApplyPC, PushPC
  <2>4. CheckInv'
    BY <2>1, CheckKept DEF IInv, TypeInv, check
  <2>5. ClaimInv'
    BY <2>1, ClaimKept DEF IInv, TypeInv, WillRelease
  <2>6. ShelterInv'
    BY <2>1 DEF IInv, TypeInv, ShelterInv, HasPaused, HasExtended, HistoryFacts,
       BesideInv, SharedType
  <2>7. BootInv'
    BY <2>1, BootKept DEF IInv, TypeInv, Selects
  <2> QED  BY <2>2, <2>3, <2>4, <2>5, <2>6, <2>7 DEF IInv, HistoryFacts
<1>2. CASE PushExtend
  <2>1. /\ h.pc = "extend" /\ h'.pc = "begin" /\ HttpdType' /\ wdt' = "extended"
        /\ UNCHANGED <<inProgress, claim, inFlight, status, sp, chk, up, w, paused, slot,
           boot>>
    BY <1>2, OtaAssumption DEF IInv, TypeInv, PushExtend, Httpd, Goto, HttpdType,
       HttpdRec, ApplyPC, PushPC, check, device
  <2>2. TypeInv'
    BY <2>1 DEF IInv, TypeInv, HistoryFacts, SharedType, WorkerType, SlotType
  <2>3. ApplyInv'
    BY <2>1, ApplyKept DEF IInv, TypeInv, WillLower, ApplyPC, PushPC
  <2>4. CheckInv'
    BY <2>1, CheckKept DEF IInv, TypeInv, check
  <2>5. ClaimInv'
    BY <2>1, ClaimKept DEF IInv, TypeInv, WillRelease
  <2>6. ShelterInv'
    BY <2>1 DEF IInv, TypeInv, ShelterInv, HasPaused, HasExtended, HistoryFacts,
       BesideInv, SharedType
  <2>7. BootInv'
    BY <2>1, BootKept DEF IInv, TypeInv, Selects
  <2> QED  BY <2>2, <2>3, <2>4, <2>5, <2>6, <2>7 DEF IInv, HistoryFacts
<1>3. CASE PushBegin
  <2>1. /\ h.pc = "begin" /\ h'.pc \in {"recv", "unextend"} /\ HttpdType' /\ SlotType'
        /\ UNCHANGED <<inProgress, claim, inFlight, status, sp, chk, up, w, paused, wdt,
           boot>>
    BY <1>3, OtaAssumption DEF IInv, TypeInv, PushBegin, Httpd, Goto, HttpdType, HttpdRec,
       ApplyPC, PushPC, SlotType, Blank, check, device
  <2>2. TypeInv'
    BY <2>1 DEF IInv, TypeInv, HistoryFacts, SharedType, WorkerType, SlotType
  <2>3. ApplyInv'
    BY <2>1, ApplyKept DEF IInv, TypeInv, WillLower, ApplyPC, PushPC
  <2>4. CheckInv'
    BY <2>1, CheckKept DEF IInv, TypeInv, check
  <2>5. ClaimInv'
    BY <2>1, ClaimKept DEF IInv, TypeInv, WillRelease
  <2>6. ShelterInv'
    BY <2>1, ShelterKept DEF IInv, TypeInv, HasPaused, HasExtended
  <2>7. BootInv'
    BY <2>1 DEF IInv, TypeInv, BootInv, Selects, HistoryFacts, BesideInv, PushPC
  <2> QED  BY <2>2, <2>3, <2>4, <2>5, <2>6, <2>7 DEF IInv, HistoryFacts
<1>4. CASE PushRecv
  <2>1. /\ h.pc = "recv" /\ h'.pc \in {"recv", "end", "unextend"} /\ HttpdType'
        /\ SlotType'
        /\ UNCHANGED <<inProgress, claim, inFlight, status, sp, chk, up, w, paused, wdt,
           boot>>
    <3>1. HttpdType /\ h.pc = "recv" /\ h.n \in 0 .. Chunks - 1
      BY <1>4, OtaAssumption DEF IInv, TypeInv, PushRecv, Httpd, HttpdType, HttpdRec
    <3>2. UNCHANGED <<inProgress, claim, inFlight, status, sp, chk, up, w, paused, wdt, boot>>
      BY <1>4 DEF PushRecv, check
    <3>3. CASE /\ WriteOver(h.n + 1, "push")
               /\ h' = [h EXCEPT !.n = @ + 1, !.pc = IF h.n + 1 = Chunks THEN "end" ELSE @]
      <4>1. SlotType'
        BY <3>1, <3>3 DEF IInv, TypeInv, SlotType, WriteOver
      <4>2. HttpdType' /\ h'.pc \in {"recv", "end"}
        <5>1. h \in HttpdRec
          BY <3>1 DEF HttpdType
        <5>2. h' \in HttpdRec /\ h'.n = h.n + 1
              /\ h'.pc = IF h.n + 1 = Chunks THEN "end" ELSE "recv"
          <6>1. h' = [pc |-> IF h.n + 1 = Chunks THEN "end" ELSE "recv", avail |-> h.avail,
                      pre |-> h.pre, paused |-> h.paused, n |-> h.n + 1]
            BY <3>1, <3>3, <5>1 DEF HttpdRec
          <6> QED  BY <3>1, <5>1, <6>1, OtaAssumption DEF HttpdRec, PushPC
        <5> QED  BY <3>1, <5>2, OtaAssumption DEF HttpdType
      <4> QED  BY <3>1, <3>2, <4>1, <4>2
    <3>4. CASE Goto("unextend") /\ UNCHANGED slot
      BY <3>1, <3>2, <3>4 DEF IInv, TypeInv, SlotType, Goto, HttpdType, HttpdRec, PushPC
    <3> QED  BY <1>4, <3>3, <3>4 DEF PushRecv
  <2>2. TypeInv'
    BY <2>1 DEF IInv, TypeInv, HistoryFacts, SharedType, WorkerType, SlotType
  <2>3. ApplyInv'
    BY <2>1, ApplyKept DEF IInv, TypeInv, WillLower, ApplyPC, PushPC
  <2>4. CheckInv'
    BY <2>1, CheckKept DEF IInv, TypeInv, check
  <2>5. ClaimInv'
    BY <2>1, ClaimKept DEF IInv, TypeInv, WillRelease
  <2>6. ShelterInv'
    BY <2>1, ShelterKept DEF IInv, TypeInv, HasPaused, HasExtended
  <2>7. BootInv'
    BY <2>1 DEF IInv, TypeInv, BootInv, Selects, HistoryFacts, BesideInv, PushPC
  <2> QED  BY <2>2, <2>3, <2>4, <2>5, <2>6, <2>7 DEF IInv, HistoryFacts
<1>5. CASE PushEnd
  <2>1. /\ h.pc = "end" /\ h'.pc \in {"select", "unextend"} /\ HttpdType'
        /\ UNCHANGED <<inProgress, claim, inFlight, status, sp, chk, up, w, paused, wdt,
           slot, boot>>
    <3>1. /\ h.pc = "end" /\ \E p \in {"select", "unextend"} : h' = [h EXCEPT !.pc = p]
          /\ UNCHANGED <<inProgress, claim, inFlight, status, sp, chk, up, w, paused, wdt,
             slot, boot>>
      BY <1>5 DEF PushEnd, Httpd, Goto, check, device
    <3>2. h \in HttpdRec /\ {"select", "unextend"} \subseteq PushPC
      BY DEF IInv, TypeInv, HttpdType, PushPC
    <3>3. h'.pc \in {"select", "unextend"} /\ HttpdType'
      BY <3>1, <3>2 DEF HttpdType, HttpdRec
    <3> QED  BY <3>1, <3>3
  <2>2. TypeInv'
    BY <2>1 DEF IInv, TypeInv, HistoryFacts, SharedType, WorkerType, SlotType
  <2>3. ApplyInv'
    BY <2>1, ApplyKept DEF IInv, TypeInv, WillLower, ApplyPC, PushPC
  <2>4. CheckInv'
    BY <2>1, CheckKept DEF IInv, TypeInv, check
  <2>5. ClaimInv'
    BY <2>1, ClaimKept DEF IInv, TypeInv, WillRelease
  <2>6. ShelterInv'
    BY <2>1, ShelterKept DEF IInv, TypeInv, HasPaused, HasExtended
  <2>7. BootInv'
    BY <2>1, BootKept DEF IInv, TypeInv, Selects
  <2> QED  BY <2>2, <2>3, <2>4, <2>5, <2>6, <2>7 DEF IInv, HistoryFacts
<1>6. CASE PushSelect
  <2>1. /\ h.pc = "select" /\ h'.pc \in {"restart", "unextend"} /\ HttpdType'
        /\ \/ Verified /\ boot' = "slot" /\ h'.pc = "restart"
           \/ boot' = boot
        /\ UNCHANGED <<inProgress, claim, inFlight, status, sp, chk, up, w, paused, wdt,
           slot>>
    <3>1. /\ h.pc = "select" /\ \E p \in {"restart", "unextend"} : h' = [h EXCEPT !.pc = p]
          /\ UNCHANGED <<inProgress, claim, inFlight, status, sp, chk, up, w, paused, wdt,
             slot>>
      BY <1>6 DEF PushSelect, Httpd, Goto, check
    <3>2. h \in HttpdRec /\ {"restart", "unextend"} \subseteq PushPC
      BY DEF IInv, TypeInv, HttpdType, PushPC
    <3>3. h'.pc \in {"restart", "unextend"} /\ HttpdType'
      BY <3>1, <3>2 DEF HttpdType, HttpdRec
    <3>4. \/ Verified /\ boot' = "slot" /\ h'.pc = "restart"
          \/ boot' = boot
      BY <1>6, <3>2 DEF PushSelect, Goto, HttpdRec
    <3> QED  BY <3>1, <3>3, <3>4
  <2>2. TypeInv'
    BY <2>1 DEF IInv, TypeInv, HistoryFacts, SharedType, WorkerType, SlotType
  <2>3. ApplyInv'
    BY <2>1, ApplyKept DEF IInv, TypeInv, WillLower, ApplyPC, PushPC
  <2>4. CheckInv'
    BY <2>1, CheckKept DEF IInv, TypeInv, check
  <2>5. ClaimInv'
    BY <2>1, ClaimKept DEF IInv, TypeInv, WillRelease
  <2>6. ShelterInv'
    BY <2>1, ShelterKept DEF IInv, TypeInv, HasPaused, HasExtended
  <2>7. BootInv'
    BY <2>1 DEF IInv, TypeInv, BootInv, Selects, HistoryFacts, BesideInv, PushPC,
       Verified, Image, SharedType
  <2> QED  BY <2>2, <2>3, <2>4, <2>5, <2>6, <2>7 DEF IInv, HistoryFacts
<1>7. CASE PushUnextend
  <2>1. /\ h.pc = "unextend" /\ h'.pc = "resume" /\ HttpdType' /\ wdt' = "normal"
        /\ UNCHANGED <<inProgress, claim, inFlight, status, sp, chk, up, w, paused, slot,
           boot>>
    BY <1>7, OtaAssumption DEF IInv, TypeInv, PushUnextend, Httpd, Goto, HttpdType,
       HttpdRec, ApplyPC, PushPC, check, device
  <2>2. TypeInv'
    BY <2>1 DEF IInv, TypeInv, HistoryFacts, SharedType, WorkerType, SlotType
  <2>3. ApplyInv'
    BY <2>1, ApplyKept DEF IInv, TypeInv, WillLower, ApplyPC, PushPC
  <2>4. CheckInv'
    BY <2>1, CheckKept DEF IInv, TypeInv, check
  <2>5. ClaimInv'
    BY <2>1, ClaimKept DEF IInv, TypeInv, WillRelease
  <2>6. ShelterInv'
    BY <2>1 DEF IInv, TypeInv, ShelterInv, HasPaused, HasExtended, HistoryFacts,
       BesideInv, PushPC
  <2>7. BootInv'
    BY <2>1, BootKept DEF IInv, TypeInv, Selects
  <2> QED  BY <2>2, <2>3, <2>4, <2>5, <2>6, <2>7 DEF IInv, HistoryFacts
<1>8. CASE PushResume
  <2>1. /\ h.pc = "resume" /\ h'.pc = "idle" /\ HttpdType' /\ paused' \in BOOLEAN
        /\ UNCHANGED <<inProgress, claim, inFlight, status, sp, chk, up, w, wdt, slot,
           boot>>
    BY <1>8, OtaAssumption DEF IInv, TypeInv, PushResume, Httpd, Goto, HttpdType,
       HttpdRec, ApplyPC, PushPC, IdleHttpd, SharedType, check, device
  <2>2. TypeInv'
    BY <2>1 DEF IInv, TypeInv, HistoryFacts, SharedType, WorkerType, SlotType
  <2>3. ApplyInv'
    BY <2>1, ApplyKept DEF IInv, TypeInv, WillLower, ApplyPC, PushPC
  <2>4. CheckInv'
    BY <2>1, CheckKept DEF IInv, TypeInv, check
  <2>5. ClaimInv'
    BY <2>1, ClaimKept DEF IInv, TypeInv, WillRelease
  <2>6. ShelterInv'
    BY <2>1 DEF IInv, TypeInv, ShelterInv, HasPaused, HasExtended, HistoryFacts,
       BesideInv, SharedType, PushPC
  <2>7. BootInv'
    BY <2>1, BootKept DEF IInv, TypeInv, Selects
  <2> QED  BY <2>2, <2>3, <2>4, <2>5, <2>6, <2>7 DEF IInv, HistoryFacts
<1> QED  BY <1>1, <1>2, <1>3, <1>4, <1>5, <1>6, <1>7, <1>8 DEF PushNext

(* A restart leaves the clean slate of Init, but for the partition.        *)
LEMMA RebootStep == ASSUME IInv, HistoryFacts, Reboot PROVE IInv'
<1>1. /\ inProgress' = FALSE /\ claim' = "none" /\ inFlight' = FALSE /\ chk' = "off"
      /\ h' = IdleHttpd /\ sp' = [c \in {"httpd", "timer"} |-> "no"]
      /\ w' = [i \in Workers |-> IdleWorker] /\ boot' = "running"
  BY DEF Reboot
<1>2. SharedType'
  <2>1. sp' \in [{"httpd", "timer"} -> {"no", "create"}]
    BY <1>1
  <2>2. status' \in [ok : BOOLEAN, at : Nat, avail : BOOLEAN] /\ up' \in 0 .. MaxUp
    BY OtaAssumption DEF Reboot, NoStatus
  <2> QED  BY <1>1, <2>1, <2>2 DEF Reboot, SharedType, HistoryFacts
<1>3. HttpdType' /\ h'.pc = "idle"
  BY <1>1, OtaAssumption DEF HttpdType, HttpdRec, IdleHttpd
<1>4. WorkerType' /\ \A i \in Workers : w'[i].pc = "off"
  BY <1>1, OtaAssumption DEF WorkerType, WorkerRec, IdleWorker
<1>5. SlotType'
  BY DEF Reboot, IInv, TypeInv, SlotType, Image
<1>6. ApplyInv' /\ ClaimInv' /\ ShelterInv' /\ BootInv'
  BY <1>1, <1>3, <1>4
  DEF ApplyInv, ClaimInv, ShelterInv, BootInv, WillLower, WillRelease, HasPaused, HasExtended,
      ApplyPC, WorkerPC
<1>7. CheckInv'
  BY <1>1 DEF CheckInv, HistoryFacts
<1> QED  BY <1>2, <1>3, <1>4, <1>5, <1>6, <1>7 DEF IInv, TypeInv, HistoryFacts

(* The clock alone.                                                        *)
LEMMA TickStep == ASSUME IInv, HistoryFacts, Tick PROVE IInv'
<1>1. /\ up' \in 0 .. MaxUp
      /\ UNCHANGED <<inProgress, claim, inFlight, status, sp, chk, h, w, paused, wdt, slot, boot>>
  BY OtaAssumption DEF IInv, TypeInv, SharedType, Tick, check, device
<1>2. TypeInv'
  BY <1>1 DEF IInv, TypeInv, SharedType, HttpdType, WorkerType, SlotType, HistoryFacts
<1>3. ApplyInv'
  BY <1>1, ApplyKept DEF IInv, WillLower
<1>4. CheckInv'
  BY <1>1, CheckKept DEF IInv, TypeInv, check
<1>5. ClaimInv'
  BY <1>1, ClaimKept DEF IInv, TypeInv, WillRelease
<1>6. ShelterInv'
  BY <1>1, ShelterKept DEF IInv, TypeInv, HasPaused, HasExtended
<1>7. BootInv'
  BY <1>1, BootKept DEF IInv, TypeInv, Selects
<1> QED  BY <1>2, <1>3, <1>4, <1>5, <1>6, <1>7 DEF IInv, HistoryFacts

(* Nobody is applying, checking, pushing or downloading at boot.            *)
LEMMA InitIInv == Init => IInv
<1> SUFFICES ASSUME Init PROVE IInv
  OBVIOUS
<1>1. h.pc = "idle" /\ \A i \in Workers : w[i].pc = "off"
  BY DEF Init, IdleHttpd, IdleWorker
<1>2. SharedType
  <2>1. sp \in [{"httpd", "timer"} -> {"no", "create"}]
    BY DEF Init
  <2>2. status \in [ok : BOOLEAN, at : Nat, avail : BOOLEAN] /\ up \in 0 .. MaxUp
    BY OtaAssumption DEF Init, NoStatus
  <2> QED  BY <2>1, <2>2 DEF Init, SharedType
<1>3. HttpdType /\ WorkerType /\ SlotType
  BY OtaAssumption DEF Init, HttpdType, HttpdRec, IdleHttpd, WorkerType, WorkerRec, IdleWorker,
     SlotType, Image
<1>4. ApplyInv /\ CheckInv /\ ClaimInv /\ ShelterInv /\ BesideInv /\ BootInv
  BY <1>1 DEF Init, ApplyInv, CheckInv, ClaimInv, ShelterInv, BesideInv, BootInv, WillLower,
     WillRelease, HasPaused, HasExtended, ApplyPC, WorkerPC
<1> QED  BY <1>2, <1>3, <1>4 DEF IInv, TypeInv

(* The invariant is inductive.                                             *)
LEMMA NextIInv == IInv /\ [Next]_vars => IInv'
<1> SUFFICES ASSUME IInv, [Next]_vars PROVE IInv'
  OBVIOUS
<1>1. CASE Next
  <2>1. HistoryFacts
    BY <1>1, HistoryRecords DEF Next, IInv, TypeInv
  <2> QED  BY <1>1, <2>1, CheckStep, ApplyStep, PullStep, PushStep, RebootStep, TickStep DEF Next
<1>2. CASE UNCHANGED vars
  <2>1. TypeInv'
    BY <1>2 DEF vars, IInv, TypeInv, SharedType, HttpdType, WorkerType, SlotType
  <2>2. ApplyInv' /\ CheckInv' /\ ClaimInv'
    BY <1>2 DEF vars, IInv, ApplyInv, CheckInv, ClaimInv, WillLower, WillRelease
  <2>3. ShelterInv' /\ BesideInv' /\ BootInv'
    BY <1>2 DEF vars, IInv, ShelterInv, BesideInv, BootInv, HasPaused, HasExtended, Selects,
       Verified, Image
  <2> QED  BY <2>1, <2>2, <2>3 DEF IInv
<1> QED  BY <1>1, <1>2

(* So it always holds.                                                    *)
LEMMA AlwaysIInv == Spec => []IInv
<1> QED  BY InitIInv, NextIInv, PTL DEF Spec

-----------------------------------------------------------------------------
(* Every variable keeps its type, the positions of the httpd task and of   *)
(* the workers included.                                                   *)
THEOREM TypeCorrect == Spec => []TypeOK
<1>1. IInv => TypeOK
  BY DEF IInv, TypeInv, SharedType, HttpdType, HttpdRec, WorkerType, WorkerRec, SlotType, TypeOK
<1> QED  BY <1>1, AlwaysIInv, PTL

(* The flag is up exactly while one request or one worker will lower it:   *)
(* on no early return of ota_update_handler or ota_worker_task is it left  *)
(* up, and no two updates are applied at once.                             *)
THEOREM OneUpdateHolds == Spec => []OneUpdate
<1>1. IInv => OneUpdate
  <2> SUFFICES ASSUME IInv PROVE OneUpdate
    OBVIOUS
  <2>1. \A i \in Workers : i \in Applying <=> WillLower(i)
    BY DEF Applying, WillLower
  <2>2. Applying \subseteq Workers
    BY DEF Applying
  <2>3. CASE Applying = {}
    <3>1. Cardinality(Applying) = 0
      BY <2>3, FS_EmptySet
    <3> QED  BY <2>1, <2>3, <3>1 DEF IInv, ApplyInv, OneUpdate
  <2>4. CASE Applying # {}
    <3>1. PICK i : i \in Applying
      BY <2>4
    <3>2. Applying = {i}
      BY <2>1, <2>2, <3>1 DEF IInv, ApplyInv
    <3>3. Cardinality(Applying) = 1
      BY <3>2, FS_Singleton
    <3> QED  BY <2>1, <2>2, <3>1, <3>3 DEF IInv, ApplyInv, OneUpdate
  <2> QED  BY <2>3, <2>4
<1> QED  BY <1>1, AlwaysIInv, PTL

(* bb_claim's holder will release it, and a manifest fetch or a download   *)
(* holds it, with the two exceptions ClaimIsOwned names: a check that      *)
(* could not be started, and a worker overtaken on its way out.            *)
THEOREM ClaimIsOwnedHolds == Spec => []ClaimIsOwned
<1>1. IInv => ClaimIsOwned
  <2> SUFFICES ASSUME IInv PROVE ClaimIsOwned
    OBVIOUS
  <2>1. DOMAIN sp = {"httpd", "timer"}
    BY DEF IInv, TypeInv, SharedType
  <2>2. \A i \in Downloading : i \in Workers /\ WillRelease(i)
    BY DEF Downloading, WillRelease, WorkerPC
  <2> QED  BY <2>1, <2>2 DEF IInv, CheckInv, ClaimInv, ClaimIsOwned, WillRelease
<1> QED  BY <1>1, AlwaysIInv, PTL

(* A download runs with the consumer paused and the watchdog extended,     *)
(* unless another worker's exit or a push undid them under it.             *)
THEOREM ShelteredHolds == Spec => []Sheltered
<1>1. IInv => Sheltered
  BY DEF IInv, ShelterInv, Sheltered, Downloading, HasPaused, HasExtended
<1> QED  BY <1>1, AlwaysIInv, PTL

(* What the bootloader is told to run is one writer's whole image, unless  *)
(* a push ran beside a pull.                                               *)
THEOREM SelectedIsWholeHolds == Spec => []SelectedIsWhole
<1>1. IInv => SelectedIsWhole
  BY DEF IInv, BootInv, SelectedIsWhole
<1> QED  BY <1>1, AlwaysIInv, PTL

=============================================================================
