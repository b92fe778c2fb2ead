-------------------------- MODULE WifiCreds_proofs --------------------------
(***************************************************************************)
(* The WiFi credentials for any set of credentials, any queue lengths and  *)
(* any number of requests, resets and power failures.                      *)
(*                                                                         *)
(* What is live is decided several steps before it is written, so the      *)
(* four properties are inductive only together with what is under way:     *)
(*   ControlInv  who can be running at all.  A promotion exists only on a  *)
(*               board without a portal manager, a save only on one with   *)
(*               it, so the two never write at the same time; the timer    *)
(*               and the inline way of persisting exclude each other, so   *)
(*               got_ip_persist_apply is never entered twice.              *)
(*   TrustInv    every pair a step may still commit or heal from has been  *)
(*               proven already: the mirror, the pair a save or a          *)
(*               promotion carries, and the staged keys a decided          *)
(*               promotion has not read yet.                               *)
(*   MirrorInv   the pair a mirror write is about to write is the live one.*)
(*   EraseInv    after a factory reset neither NVS nor the mirror nor a    *)
(*               promotion that could still write holds a credential.      *)
(*   DriverInv   a pair the driver does not have is announced: by the save *)
(*               in progress, its event, the settle timer or CREDS_ARRIVED.*)
(***************************************************************************)
EXTENDS WifiCreds, TLAPS, SequenceTheorems

(* The types, each variable with the fields the steps rely on.             *)
PairType == [ssid : Text, pass : Text]
NvsType == [ssid : Text, pass : Text, ssid_p : Text, pass_p : Text,
            try : BOOLEAN, provisioned : BOOLEAN]
LinkType == [cfg : PairType, up : BOOLEAN, ip : BOOLEAN]
ApplyType == [pc : {"idle", "next", "ssid", "pass", "commit", "mirror", "erase1",
                    "erase2", "mark"},
              todo : SUBSET Decisions, ssid : Text, pass : Text, inline : BOOLEAN]
HttpType == [pc : {"idle", "save", "saveMirror", "savePost", "arm", "frClear", "frArm"},
             cred : Text]
HistType == [trusted : SUBSET PairType, excused : SUBSET PairType, wiped : BOOLEAN,
             revived : BOOLEAN, staleMirror : BOOLEAN, excuses : SUBSET Excuses,
             unheard : BOOLEAN]
BootType == {"init", "stamp", "autoinit", "parked", "try", "connect", "run",
             "unregister", "clear", "erase1", "erase2", "restart"}

PortalType ==
    /\ wp \in {"IDLE", "ACTIVE", "CLOSING"}
    /\ mgr \in {"off", "idle", "hop2", "register", "hop3"}
    /\ provq \in Seq(ProvEvents) /\ Len(provq) <= ProvQueueLen
    /\ routes \subseteq PortalRoutes
    /\ settle \in BOOLEAN /\ ap \in BOOLEAN /\ s_prov_active \in BOOLEAN
    /\ arrived \in BOOLEAN /\ saveLost \in BOOLEAN
StoreType ==
    /\ nvs \in NvsType /\ nvsUp \in BOOLEAN /\ mirror \in PairType
    /\ boot \in BootType /\ s_pending_try \in BOOLEAN
    /\ link \in LinkType /\ bit \in BOOLEAN
TimerType ==
    /\ persist \subseteq Decisions /\ persistMode \in {"none", "timer", "inline"}
    /\ created \subseteq Timers
    /\ armed \in Seq(Timers) /\ IsInjective(armed)
    /\ dispq \in Seq(Timers) /\ Len(dispq) <= DispQueueLen
WorkType == apply \in ApplyType /\ http \in HttpType /\ hist \in HistType

TypeInv == PortalType /\ StoreType /\ TimerType /\ WorkType

(* The steps of got_ip_persist_apply that succeed, and all that fail.      *)
ApplyWorks ==
    \/ ApplyNext \/ PromoteReadSsid \/ PromoteReadPass \/ PromoteCommit
    \/ PromoteMirror \/ PromoteErase \/ MarkConnected
Failure ==
    \/ AutoinitUnread \/ RevertFails \/ PromoteFails \/ CleanupFails
    \/ ArmRestartFails \/ SaveFails \/ ConnectFreshFails

-----------------------------------------------------------------------------
(* esp_timer_stop and the expiry take a timer off the list of armed ones,  *)
(* where it is at most once.                                               *)
LEMMA RemoveFirstProps ==
    ASSUME NEW S, NEW s \in Seq(S), IsInjective(s), NEW e
    PROVE  /\ RemoveFirst(s, e) \in Seq(S)
           /\ IsInjective(RemoveFirst(s, e))
           /\ \A x : Contains(RemoveFirst(s, e), x) <=> Contains(s, x) /\ x # e
<1>1. CASE ~ \E i \in 1 .. Len(s) : s[i] = e
  BY <1>1 DEF RemoveFirst, Contains
<1>2. CASE \E i \in 1 .. Len(s) : s[i] = e
  <2>1. PICK k \in 1 .. Len(s) : s[k] = e
    BY <1>2
  <2>2. {i \in 1 .. Len(s) : s[i] = e} = {k}
    BY <2>1 DEF IsInjective
  <2>3. SelectInSeq(s, LAMBDA v : v = e) = Min({k})
    BY <2>2 DEF SelectInSeq
  <2>4. Min({k}) = k
    BY <2>1 DEF Min
  <2>5. RemoveFirst(s, e) = RemoveAt(s, k)
    BY <1>2, <2>3, <2>4 DEF RemoveFirst
  <2> DEFINE a == SubSeq(s, 1, k - 1)
             b == SubSeq(s, k + 1, Len(s))
             r == a \o b
  <2>6. /\ a \in Seq(S) /\ Len(a) = k - 1 /\ \A i \in 1 .. k - 1 : a[i] = s[i]
        /\ b \in Seq(S) /\ Len(b) = Len(s) - k /\ \A i \in 1 .. Len(s) - k : b[i] = s[k + i]
    BY <2>1, SubSeqProperties
  <2> HIDE DEF a, b
  <2>7. /\ r \in Seq(S) /\ Len(r) = Len(s) - 1
        /\ \A i \in 1 .. Len(s) - 1 : r[i] = IF i < k THEN s[i] ELSE s[i + 1]
    <3>1. /\ r \in Seq(S) /\ Len(r) = Len(a) + Len(b)
          /\ \A i \in 1 .. Len(a) + Len(b) :
                 r[i] = IF i <= Len(a) THEN a[i] ELSE b[i - Len(a)]
      BY <2>6, ConcatProperties
    <3> HIDE DEF r
    <3>2. Len(s) \in Nat /\ Len(a) + Len(b) = Len(s) - 1
      BY <2>1, <2>6, LenProperties
    <3>3. \A i \in 1 .. Len(s) - 1 : r[i] = IF i <= k - 1 THEN a[i] ELSE b[i - (k - 1)]
      BY <2>6, <3>1, <3>2
    <3>4. ASSUME NEW i \in 1 .. Len(s) - 1
          PROVE  r[i] = IF i < k THEN s[i] ELSE s[i + 1]
      <4>1. CASE i < k
        <5>1. i \in 1 .. k - 1 /\ r[i] = a[i]
          BY <2>1, <3>2, <3>3, <4>1
        <5> QED  BY <2>6, <4>1, <5>1
      <4>2. CASE i >= k
        <5>1. r[i] = b[i - (k - 1)] /\ i - (k - 1) \in 1 .. Len(s) - k
          BY <2>1, <3>2, <3>3, <4>2
        <5>2. b[i - (k - 1)] = s[k + (i - (k - 1))]
          BY <2>6, <5>1
        <5>3. k + (i - (k - 1)) = i + 1
          BY <2>1
        <5> QED  BY <2>1, <4>2, <5>1, <5>2, <5>3
      <4> QED  BY <2>1, <4>1, <4>2
    <3> QED  BY <3>1, <3>2, <3>4
  <2> HIDE DEF r
  <2>8. IsInjective(r)
    BY <2>1, <2>7 DEF IsInjective
  <2>9. ASSUME NEW x PROVE Contains(r, x) <=> Contains(s, x) /\ x # e
    <3>1. ASSUME Contains(r, x) PROVE Contains(s, x) /\ x # e
      BY <2>1, <2>7, <3>1 DEF Contains, IsInjective
    <3>2. ASSUME Contains(s, x), x # e PROVE Contains(r, x)
      <4>1. PICK i \in 1 .. Len(s) : s[i] = x
        BY <3>2 DEF Contains
      <4>2. i # k
        BY <2>1, <3>2, <4>1
      <4>3. CASE i < k
        BY <2>1, <2>7, <4>1, <4>3 DEF Contains
      <4>4. CASE i > k
        <5>1. i - 1 \in 1 .. Len(s) - 1 /\ r[i - 1] = s[i]
          BY <2>1, <2>7, <4>1, <4>4
        <5> QED  BY <2>7, <4>1, <5>1 DEF Contains
      <4> QED  BY <4>2, <4>3, <4>4
    <3> QED  BY <3>1, <3>2
  <2>10. RemoveFirst(s, e) = r
    BY <2>5 DEF RemoveAt, r, a, b
  <2> QED  BY <2>7, <2>8, <2>9, <2>10
<1> QED  BY <1>1, <1>2

(* Starting a timer that is not armed.                                     *)
LEMMA AppendProps ==
    ASSUME NEW S, NEW s \in Seq(S), NEW e \in S
    PROVE  /\ Append(s, e) \in Seq(S) /\ Len(Append(s, e)) = Len(s) + 1
           /\ \A x : Contains(Append(s, e), x) <=> Contains(s, x) \/ x = e
           /\ IsInjective(s) /\ ~Contains(s, e) => IsInjective(Append(s, e))
<1> DEFINE r == Append(s, e)
<1>1. /\ r \in Seq(S) /\ Len(r) = Len(s) + 1 /\ Len(s) \in Nat
      /\ \A i \in 1 .. Len(s) : r[i] = s[i]
      /\ r[Len(s) + 1] = e
  OBVIOUS
<1> HIDE DEF r
<1>2. ASSUME NEW x PROVE Contains(r, x) <=> Contains(s, x) \/ x = e
  BY <1>1 DEF Contains
<1>3. ASSUME IsInjective(s), ~Contains(s, e) PROVE IsInjective(r)
  <2>1. DOMAIN r = 1 .. Len(s) + 1 /\ DOMAIN s = 1 .. Len(s)
    BY <1>1
  <2> SUFFICES ASSUME NEW i \in 1 .. Len(s) + 1, NEW j \in 1 .. Len(s) + 1, r[i] = r[j]
               PROVE  i = j
    BY <2>1 DEF IsInjective
  <2>2. CASE i = Len(s) + 1 \/ j = Len(s) + 1
    BY <1>1, <1>3, <2>2 DEF Contains
  <2>3. CASE i # Len(s) + 1 /\ j # Len(s) + 1
    BY <1>1, <1>3, <2>1, <2>3 DEF IsInjective
  <2> QED  BY <2>2, <2>3
<1> QED  BY <1>1, <1>2, <1>3 DEF r

(* Taking the head off a queue.                                            *)
LEMMA TailProps ==
    ASSUME NEW S, NEW s \in Seq(S), s # << >>
    PROVE  /\ Tail(s) \in Seq(S) /\ Len(Tail(s)) = Len(s) - 1 /\ Len(s) \in Nat
           /\ \A x : Contains(Tail(s), x) => Contains(s, x)
           /\ \A x : Contains(s, x) /\ x # Head(s) => Contains(Tail(s), x)
<1>1. /\ Tail(s) \in Seq(S) /\ Len(Tail(s)) = Len(s) - 1 /\ Len(s) \in Nat /\ Len(s) > 0
      /\ Head(s) = s[1] /\ \A i \in 1 .. Len(s) - 1 : Tail(s)[i] = s[i + 1]
  OBVIOUS
<1>2. ASSUME NEW x, Contains(Tail(s), x) PROVE Contains(s, x)
  <2>1. PICK i \in 1 .. Len(s) - 1 : Tail(s)[i] = x
    BY <1>1, <1>2 DEF Contains
  <2>2. i + 1 \in 1 .. Len(s) /\ s[i + 1] = x
    BY <1>1, <2>1
  <2> QED  BY <2>2 DEF Contains
<1>3. ASSUME NEW x, Contains(s, x), x # Head(s) PROVE Contains(Tail(s), x)
  <2>1. PICK i \in 1 .. Len(s) : s[i] = x
    BY <1>3 DEF Contains
  <2>2. i - 1 \in 1 .. Len(s) - 1 /\ Tail(s)[i - 1] = x
    BY <1>1, <1>3, <2>1
  <2> QED  BY <1>1, <2>2 DEF Contains
<1> QED  BY <1>1, <1>2, <1>3

(* Re-arming a timer.                                                      *)
LEMMA ArmProps ==
    ASSUME armed \in Seq(Timers), IsInjective(armed), NEW timer \in Timers
    PROVE  /\ ArmTimer(timer) \in Seq(Timers) /\ IsInjective(ArmTimer(timer))
           /\ \A x : Contains(ArmTimer(timer), x) => Contains(armed, x) \/ x = timer
<1>1. /\ RemoveFirst(armed, timer) \in Seq(Timers) /\ IsInjective(RemoveFirst(armed, timer))
      /\ \A x : Contains(RemoveFirst(armed, timer), x) <=> Contains(armed, x) /\ x # timer
  BY RemoveFirstProps
<1> QED  BY <1>1, AppendProps DEF ArmTimer

(* An empty queue holds nothing.                                           *)
LEMMA EmptyProps ==
    ASSUME NEW S
    PROVE  << >> \in Seq(S) /\ IsInjective(<< >>) /\ Len(<< >>) = 0
           /\ \A x : ~Contains(<< >>, x)
<1>1. << >> \in Seq(S) /\ Len(<< >>) = 0 /\ DOMAIN << >> = {}
  OBVIOUS
<1> QED  BY <1>1 DEF IsInjective, Contains

-----------------------------------------------------------------------------
(* The records the steps start from.                                       *)
LEMMA PairProps ==
    /\ \A s, p \in Text : Pair(s, p) \in PairType
    /\ \A s, p : Pair(s, p).ssid = s /\ Pair(s, p).pass = p
    /\ \A c \in Creds : Whole(c) \in PairType /\ c # "" /\ c \in Text
    /\ NoPair \in PairType /\ NoPair.ssid = "" /\ NoPair.pass = ""
    /\ NoLink \in LinkType /\ ~NoLink.up /\ NoLink.cfg = NoPair
    /\ IdleApply \in ApplyType /\ IdleApply.pc = "idle" /\ IdleApply.todo = {} /\ ~IdleApply.inline
    /\ IdleHttp \in HttpType /\ IdleHttp.pc = "idle"
    /\ ErasedNvs \in NvsType /\ ErasedNvs.ssid = ""
<1>1. "" \in Text /\ \A c \in Creds : c # "" /\ c \in Text
  BY CredsAssumption DEF Text
<1>2. /\ \A s, p \in Text : Pair(s, p) \in PairType
      /\ \A s, p : Pair(s, p).ssid = s /\ Pair(s, p).pass = p
  BY DEF Pair, PairType
<1>3. NoPair \in PairType /\ NoPair.ssid = "" /\ NoPair.pass = ""
  BY <1>1, <1>2 DEF NoPair
<1>4. NoLink \in LinkType /\ ~NoLink.up /\ NoLink.cfg = NoPair
  BY <1>3 DEF NoLink, LinkType
<1>5. /\ IdleApply \in ApplyType /\ IdleApply.pc = "idle" /\ IdleApply.todo = {} /\ ~IdleApply.inline
      /\ IdleHttp \in HttpType /\ IdleHttp.pc = "idle"
      /\ ErasedNvs \in NvsType /\ ErasedNvs.ssid = ""
  BY <1>1 DEF IdleApply, ApplyType, IdleHttp, HttpType, ErasedNvs, NvsType
<1>6. \A c \in Creds : Whole(c) \in PairType
  BY <1>1, <1>2 DEF Whole
<1>7. \A c \in Creds : Whole(c) \in PairType /\ c # "" /\ c \in Text
  BY <1>1, <1>6
<1> QED  BY <1>2, <1>3, <1>4, <1>5, <1>7, ZenonT(120)

(* A board on its first power-up has the types.                            *)
LEMMA InitType == Init => TypeInv
<1> SUFFICES ASSUME Init PROVE TypeInv
  OBVIOUS
<1>1. PortalType
  <2>1. << >> \in Seq(ProvEvents) /\ Len(<< >>) <= ProvQueueLen
    BY ProvQueueAssumption
  <2> QED  BY <2>1 DEF Init, ProvInit, PortalType
<1>2. StoreType
  BY PairProps DEF Init, StoreType, BootType
<1>3. TimerType
  BY EmptyProps, BoundsAssumption DEF Init, TimerType
<1>4. WorkType
  BY PairProps DEF Init, WorkType, HistType
<1> QED  BY <1>1, <1>2, <1>3, <1>4 DEF TypeInv

(* What a reset leaves.                                                    *)
LEMMA ResetProps ==
    ASSUME TypeInv, NEW cold \in BOOLEAN, Reset(cold)
    PROVE  /\ TypeInv'
           /\ mgr' = "off" /\ routes' = {} /\ provq' = << >> /\ wp' = "IDLE"
           /\ ~settle' /\ ~arrived' /\ ~saveLost'
           /\ boot' = "init" /\ ~s_pending_try' /\ ~link'.up /\ ~bit'
           /\ persist' = {} /\ persistMode' = "none" /\ armed' = << >> /\ dispq' = << >>
           /\ apply' = IdleApply /\ http' = IdleHttp /\ nvsUp'
           /\ nvs' = nvs /\ mirror' = (IF cold THEN NoPair ELSE mirror)
           /\ hist'.trusted = hist.trusted /\ hist'.excused = hist.excused
           /\ hist'.wiped = hist.wiped
           /\ hist'.staleMirror = (~cold /\ (hist.staleMirror \/ MirrorOutstanding))
           /\ hist'.revived = (hist.revived \/ (~cold /\ http.pc = "frClear"))
<1>1. /\ mgr' = "off" /\ routes' = {} /\ provq' = << >> /\ wp' = "IDLE"
      /\ ~settle' /\ ~arrived' /\ ~saveLost' /\ PortalType'
  <2>1. << >> \in Seq(ProvEvents) /\ Len(<< >>) <= ProvQueueLen
    BY ProvQueueAssumption
  <2> QED  BY <2>1 DEF Reset, ProvReset, PortalType
<1>2. /\ boot' = "init" /\ ~s_pending_try' /\ ~link'.up /\ ~bit' /\ nvsUp'
      /\ nvs' = nvs /\ mirror' = (IF cold THEN NoPair ELSE mirror) /\ StoreType'
  BY PairProps DEF Reset, StoreType, BootType, TypeInv
<1>3. /\ persist' = {} /\ persistMode' = "none" /\ armed' = << >> /\ dispq' = << >>
      /\ TimerType'
  BY EmptyProps, BoundsAssumption DEF Reset, TimerType
<1>4. apply' = IdleApply /\ http' = IdleHttp /\ IdleApply \in ApplyType /\ IdleHttp \in HttpType
  BY PairProps DEF Reset
<1>5. PICK r : r = [hist EXCEPT !.staleMirror = ~cold /\ (@ \/ MirrorOutstanding),
                                !.revived = @ \/ (~cold /\ http.pc = "frClear"),
                                !.excuses = {}, !.unheard = FALSE]
  OBVIOUS
<1>6. hist' = r
  BY <1>5 DEF Reset
<1>7. r = [trusted |-> hist.trusted, excused |-> hist.excused, wiped |-> hist.wiped,
           revived |-> hist.revived \/ (~cold /\ http.pc = "frClear"),
           staleMirror |-> ~cold /\ (hist.staleMirror \/ MirrorOutstanding),
           excuses |-> {}, unheard |-> FALSE]
  BY <1>5 DEF TypeInv, WorkType, HistType
<1>8. r \in HistType
  BY <1>7 DEF TypeInv, WorkType, HistType, MirrorOutstanding
<1>9. WorkType'
  BY <1>4, <1>6, <1>8 DEF WorkType
<1> QED  BY <1>1, <1>2, <1>3, <1>4, <1>6, <1>7, <1>9 DEF TypeInv

-----------------------------------------------------------------------------
(* A promotion or a clean-up that fails only shortens what is left to do.  *)
LEMMA GiveUpProps ==
    ASSUME apply \in ApplyType, PromoteFails \/ CleanupFails
    PROVE  /\ apply' \in ApplyType /\ apply.pc \notin {"idle", "mirror"}
           /\ apply'.pc \in {"next", "erase2"} /\ apply'.inline = apply.inline
           /\ apply'.todo \subseteq apply.todo
           /\ apply'.pc = "erase2" => apply.pc = "erase1" /\ apply'.todo = apply.todo
           /\ apply'.pc = "next" => apply.pc = "mark" \/ "promote" \notin apply'.todo
<1>1. CASE apply' = Promoted /\ apply.pc \in {"ssid", "pass", "commit", "erase2"}
  BY <1>1 DEF Promoted, ApplyType
<1>2. CASE apply' = [apply EXCEPT !.pc = "erase2"] /\ apply.pc = "erase1"
  BY <1>2 DEF ApplyType
<1>3. CASE apply' = [apply EXCEPT !.pc = "next", !.todo = @ \ {"mark_connected"}] /\ apply.pc = "mark"
  BY <1>3 DEF ApplyType
<1> QED  BY <1>1, <1>2, <1>3 DEF PromoteFails, CleanupFails

(* What fails keeps the types.                                             *)
LEMMA FailTypeStep ==
    ASSUME TypeInv, Failure
    PROVE  TypeInv'
<1> USE DEF TypeInv
<1>1. CASE AutoinitUnread
  <2>1. boot' \in BootType /\ hist' \in HistType
    BY <1>1 DEF AutoinitUnread, BootType, WorkType, HistType, Excuses
  <2>2. Live \in PairType
    BY PairProps DEF StoreType, NvsType, Live
  <2>3. link' \in LinkType
    <3>1. [cfg |-> Live, up |-> TRUE, ip |-> FALSE] \in LinkType
      BY <2>2 DEF LinkType
    <3>2. link' \in {link, [cfg |-> Live, up |-> TRUE, ip |-> FALSE]}
      BY <1>1 DEF AutoinitUnread
    <3> QED  BY <3>1, <3>2 DEF StoreType
  <2>4. PortalType'
    <3>1. CASE UNCHANGED provVars
      BY <3>1 DEF PortalType, provVars
    <3>2. CASE wifi_prov_autoinit(FALSE, nvs.provisioned)
      <4>1. \A e \in ProvEvents : <<e>> \in Seq(ProvEvents) /\ Len(<<e>>) = 1
        OBVIOUS
      <4>2. provq' \in Seq(ProvEvents) /\ Len(provq') = 1
        BY <3>2, <4>1 DEF wifi_prov_autoinit, ProvEvents, EntryEvents
      <4> QED  BY <3>2, <4>2, ProvQueueAssumption DEF wifi_prov_autoinit, PortalType
    <3> QED  BY <1>1, <3>1, <3>2 DEF AutoinitUnread
  <2> QED  BY <1>1, <2>1, <2>3, <2>4 DEF AutoinitUnread, StoreType, TimerType, WorkType, credVars, dispVars
<1>2. CASE RevertFails
  <2>1. boot' \in BootType /\ s_pending_try' \in BOOLEAN
    BY <1>2 DEF RevertFails, BootType, StoreType
  <2> QED  BY <1>2, <2>1 DEF RevertFails, PortalType, StoreType, TimerType, WorkType,
                             credVars, linkVars, dispVars, provVars
<1>3. CASE PromoteFails \/ CleanupFails
  <2>1. apply' \in ApplyType
    BY <1>3, GiveUpProps DEF WorkType
  <2>2. hist' \in HistType
    BY <1>3 DEF PromoteFails, CleanupFails, WorkType, HistType, Excuses
  <2>3. UNCHANGED <<credVars, bootVars, linkVars, dispVars, http, provVars>>
    BY <1>3 DEF PromoteFails, CleanupFails
  <2> QED  BY <2>1, <2>2, <2>3 DEF PortalType, StoreType, TimerType, WorkType,
                                   credVars, bootVars, linkVars, dispVars, provVars
<1>4. CASE ArmRestartFails \/ SaveFails
  <2>1. http' \in HttpType
    BY <1>4, PairProps DEF ArmRestartFails, SaveFails
  <2>2. hist' \in HistType
    BY <1>4 DEF ArmRestartFails, SaveFails, WorkType, HistType, Excuses
  <2>3. UNCHANGED <<credVars, bootVars, linkVars, dispVars, apply, provVars>>
    BY <1>4 DEF ArmRestartFails, SaveFails
  <2> QED  BY <2>1, <2>2, <2>3 DEF PortalType, StoreType, TimerType, WorkType,
                                   credVars, bootVars, linkVars, dispVars, provVars
<1>5. CASE ConnectFreshFails
  <2>1. boot' \in BootType /\ hist' \in HistType /\ arrived' \in BOOLEAN
    BY <1>5 DEF ConnectFreshFails, BootType, WorkType, HistType
  <2> QED  BY <1>5, <2>1 DEF ConnectFreshFails, PortalType, StoreType, TimerType, WorkType,
                             credVars, linkVars, dispVars
<1> QED  BY <1>1, <1>2, <1>3, <1>4, <1>5 DEF Failure

(* The boot task's steps keep the types.                                   *)
LEMMA BootTypeStep ==
    ASSUME TypeInv, BootStep
    PROVE  TypeInv'
<1> USE DEF TypeInv
<1>1. ASSUME NEW corrupt \in BOOLEAN, NEW failed \in {"none", "decision", "action"},
            CredsBootInit(corrupt, failed)
     PROVE  TypeInv'
  <2>1. UNCHANGED <<nvsUp, s_pending_try, linkVars, dispVars, apply, http, hist, provVars>>
    BY <1>1 DEF CredsBootInit
  <2>2. nvs' \in NvsType /\ mirror' \in PairType /\ boot' \in BootType
    <3> DEFINE start == IF corrupt THEN ErasedNvs ELSE nvs
    <3>1. start \in NvsType
      BY PairProps DEF StoreType
    <3>2. /\ nvs' \in {start, [start EXCEPT !.ssid = mirror.ssid, !.pass = mirror.pass]}
          /\ mirror' \in {mirror, Pair(start.ssid, start.pass)}
          /\ boot' \in {"stamp", "autoinit"}
      BY <1>1 DEF CredsBootInit, rtc_mirror_write
    <3>3. mirror.ssid \in Text /\ mirror.pass \in Text /\ start.ssid \in Text /\ start.pass \in Text
      BY <3>1 DEF StoreType, PairType, NvsType
    <3> HIDE DEF start
    <3>4. [start EXCEPT !.ssid = mirror.ssid, !.pass = mirror.pass] \in NvsType
      BY <3>1, <3>3 DEF NvsType
    <3> QED  BY <3>1, <3>2, <3>3, <3>4, PairProps DEF StoreType, BootType
  <2> QED  BY <2>1, <2>2 DEF PortalType, StoreType, TimerType, WorkType, linkVars, dispVars, provVars
<1>2. CASE HealStamp
  <2>1. nvs' \in NvsType /\ mirror' \in PairType /\ hist' \in HistType /\ boot' \in BootType
    BY <1>2, PairProps DEF HealStamp, rtc_mirror_write, StoreType, WorkType, NvsType, HistType, BootType
  <2> QED  BY <1>2, <2>1 DEF HealStamp, PortalType, StoreType, TimerType, WorkType, linkVars, dispVars, provVars
<1>3. CASE Autoinit
  <2>1. boot' \in BootType /\ s_pending_try' \in BOOLEAN
    BY <1>3 DEF Autoinit, BootType
  <2>2. link' \in LinkType
    <3>1. Live \in PairType /\ Pair(nvs.ssid_p, nvs.pass_p) \in PairType
      BY PairProps DEF StoreType, NvsType, Live
    <3>2. link' \in {link, [cfg |-> Pair(nvs.ssid_p, nvs.pass_p), up |-> TRUE, ip |-> FALSE],
                     [cfg |-> Live, up |-> TRUE, ip |-> FALSE]}
      BY <1>3 DEF Autoinit
    <3>3. \A p \in PairType : [cfg |-> p, up |-> TRUE, ip |-> FALSE] \in LinkType
      BY DEF LinkType
    <3> QED  BY <3>1, <3>2, <3>3 DEF StoreType
  <2>3. PortalType'
    <3>1. CASE has_creds
      BY <1>3, <3>1 DEF Autoinit, PortalType, provVars
    <3>2. CASE ~has_creds
      <4>1. wifi_prov_autoinit(has_creds, nvs.provisioned)
        BY <1>3, <3>2 DEF Autoinit
      <4>2. \A e \in ProvEvents : <<e>> \in Seq(ProvEvents) /\ Len(<<e>>) = 1
        OBVIOUS
      <4>3. provq' \in Seq(ProvEvents) /\ Len(provq') = 1
        BY <4>1, <4>2 DEF wifi_prov_autoinit, ProvEvents, EntryEvents
      <4> QED  BY <4>1, <4>3, ProvQueueAssumption DEF wifi_prov_autoinit, PortalType
    <3> QED  BY <3>1, <3>2
  <2> QED  BY <1>3, <2>1, <2>2, <2>3 DEF Autoinit, StoreType, TimerType, WorkType, credVars, dispVars
<1>4. CASE ConnectReturns \/ TryTimesOut
  <2>1. PortalType' /\ WorkType'
    BY <1>4 DEF ConnectReturns, TryTimesOut, PortalType, WorkType, provVars
  <2>2. StoreType'
    BY <1>4 DEF ConnectReturns, TryTimesOut, StoreType, BootType, credVars, linkVars
  <2>3. TimerType'
    BY <1>4 DEF ConnectReturns, TryTimesOut, TimerType, dispVars
  <2> QED  BY <2>1, <2>2, <2>3
<1>5. CASE Revert
  <2>1. UNCHANGED <<nvsUp, mirror, bit, dispVars, apply, http, provVars>>
    BY <1>5 DEF Revert
  <2>2. boot' \in BootType /\ s_pending_try' \in BOOLEAN
    BY <1>5 DEF Revert, BootType, StoreType
  <2>3. nvs' \in NvsType
    BY <1>5, PairProps DEF Revert, StoreType, NvsType, NoPair
  <2>4. link' \in LinkType
    BY <1>5 DEF Revert, StoreType, LinkType
  <2>5. hist' \in HistType
    <3>1. Pair(apply.ssid, "") \in PairType /\ Pair(nvs.ssid_p, "") \in PairType
      BY PairProps, CredsAssumption DEF WorkType, StoreType, NvsType, ApplyType, Text
    <3>2. [hist EXCEPT !.excused = @ \cup {Pair(apply.ssid, ""), Pair(nvs.ssid_p, "")}] \in HistType
      BY <3>1 DEF WorkType, HistType
    <3>3. hist' \in {hist, [hist EXCEPT !.excused = @ \cup {Pair(apply.ssid, ""), Pair(nvs.ssid_p, "")}]}
      BY <1>5 DEF Revert
    <3> QED  BY <3>2, <3>3 DEF WorkType
  <2> QED  BY <2>1, <2>2, <2>3, <2>4, <2>5 DEF PortalType, StoreType, TimerType, WorkType, dispVars, provVars
<1>6. CASE RevertRestart
  BY <1>6, ResetProps DEF RevertRestart
<1> QED  BY <1>1, <1>2, <1>3, <1>4, <1>5, <1>6, FailTypeStep DEF BootStep, Failure

(* Addresses, timers, the persist work and CREDS_ARRIVED keep the types.   *)
LEMMA EventTypeStep ==
    ASSUME TypeInv, GotIp \/ LostIp \/ ConnectFresh
                    \/ (\E timer \in Timers : TimerFires(timer)) \/ DispPersist
    PROVE  TypeInv'
<1> USE DEF TypeInv
<1>1. CASE GotIp
  <2>1. link' \in LinkType /\ s_pending_try' \in BOOLEAN
    BY <1>1 DEF GotIp, StoreType, LinkType
  <2>2. hist' \in HistType
    <3>1. link.cfg \in PairType
      BY DEF StoreType, LinkType
    <3> QED  BY <1>1, <3>1 DEF GotIp, WorkType, HistType
  <2>3. PICK decision \in Decisions : PersistByTimer(decision) \/ PersistInline(decision)
    BY <1>1 DEF GotIp, got_ip_persist_decide, Decisions
  <2>4. /\ persist' \subseteq Decisions /\ persistMode' \in {"none", "timer", "inline"}
        /\ armed' \in Seq(Timers) /\ IsInjective(armed') /\ bit' \in BOOLEAN
    BY <2>3, ArmProps DEF PersistByTimer, PersistInline, MergedDecision, TimerType, StoreType,
                          GroupExists, Timers
  <2>5. apply' \in ApplyType
    <3>1. [IdleApply EXCEPT !.pc = "next", !.todo = {decision}, !.inline = TRUE] \in ApplyType
      BY CredsAssumption DEF IdleApply, ApplyType, Text
    <3> QED  BY <2>3, <3>1 DEF PersistByTimer, PersistInline, WorkType
  <2>6. created' \subseteq Timers
    BY <2>3 DEF PersistByTimer, PersistInline, TimerType, Timers
  <2> QED  BY <1>1, <2>1, <2>2, <2>4, <2>5, <2>6 DEF GotIp, PortalType, StoreType, TimerType, WorkType,
                                                    credVars, provVars
<1>2. CASE LostIp
  <2>1. link' \in LinkType
    BY <1>2 DEF LostIp, StoreType, LinkType
  <2> QED  BY <1>2, <2>1 DEF LostIp, PortalType, StoreType, TimerType, WorkType,
                             credVars, bootVars, dispVars, provVars
<1>3. CASE ConnectFresh
  <2>1. Live \in PairType
    BY PairProps DEF StoreType, NvsType, Live
  <2>2. [cfg |-> Live, up |-> TRUE, ip |-> FALSE] \in LinkType
    BY <2>1 DEF LinkType
  <2>3. [hist EXCEPT !.unheard = TRUE] \in HistType
    BY DEF WorkType, HistType
  <2>4. link' \in LinkType /\ boot' \in BootType /\ hist' \in HistType /\ arrived' \in BOOLEAN
    BY <1>3, <2>2, <2>3 DEF ConnectFresh, StoreType, WorkType, BootType
  <2> QED  BY <1>3, <2>4 DEF ConnectFresh, PortalType, StoreType, TimerType, WorkType, credVars, dispVars
<1>4. ASSUME NEW timer \in Timers, TimerFires(timer) PROVE TypeInv'
  <2>1. armed' \in Seq(Timers) /\ IsInjective(armed')
    BY <1>4, RemoveFirstProps DEF TimerFires, TimerType
  <2>2. dispq' \in Seq(Timers) /\ Len(dispq') <= DispQueueLen
    <3>1. CASE Len(dispq) < DispQueueLen /\ dispq' = Append(dispq, timer)
      <4>1. Append(dispq, timer) \in Seq(Timers) /\ Len(Append(dispq, timer)) = Len(dispq) + 1
            /\ Len(dispq) \in Nat
        BY AppendProps DEF TimerType
      <4> QED  BY <3>1, <4>1, BoundsAssumption
    <3>2. CASE dispq' = dispq
      BY <3>2 DEF TimerType
    <3> QED  BY <1>4, <3>1, <3>2 DEF TimerFires
  <2>3. hist' \in HistType
    BY <1>4 DEF TimerFires, WorkType, HistType, Excuses
  <2> QED  BY <1>4, <2>1, <2>2, <2>3 DEF TimerFires, PortalType, StoreType, TimerType, WorkType,
                                         credVars, bootVars, linkVars, provVars
<1>5. CASE DispPersist
  <2>1. dispq' \in Seq(Timers) /\ Len(dispq') <= DispQueueLen
    <3>1. Tail(dispq) \in Seq(Timers) /\ Len(Tail(dispq)) = Len(dispq) - 1 /\ Len(dispq) \in Nat
      BY <1>5, TailProps DEF DispPersist, TimerType
    <3>2. dispq' = Tail(dispq) /\ Len(dispq) <= DispQueueLen
      BY <1>5 DEF DispPersist, TimerType
    <3> QED  BY <3>1, <3>2, BoundsAssumption
  <2>2. apply' \in ApplyType
    BY <1>5, CredsAssumption DEF DispPersist, IdleApply, ApplyType, Text, TimerType
  <2> QED  BY <1>5, <2>1, <2>2 DEF DispPersist, PortalType, StoreType, TimerType, WorkType,
                                   credVars, bootVars, linkVars, provVars
<1> QED  BY <1>1, <1>2, <1>3, <1>4, <1>5

(* got_ip_persist_apply keeps the types.                                   *)
LEMMA ApplyTypeStep ==
    ASSUME TypeInv, ApplyWorks
    PROVE  TypeInv'
<1> USE DEF TypeInv
<1>1. UNCHANGED <<nvsUp, bootVars, link, dispVars, http, provVars>>
  BY DEF ApplyWorks, ApplyNext, PromoteReadSsid, PromoteReadPass, PromoteCommit, PromoteMirror,
         PromoteErase, MarkConnected, credVars, linkVars
<1>2. /\ apply \in ApplyType /\ nvs \in NvsType /\ apply.ssid \in Text /\ apply.pass \in Text
      /\ nvs.ssid_p \in Text /\ nvs.pass_p \in Text /\ "" \in Text
  BY DEF StoreType, WorkType, ApplyType, NvsType, Text
<1>3. Promoted \in ApplyType
  BY <1>2 DEF Promoted, ApplyType
<1>4. apply' \in ApplyType
  <2>1. CASE ApplyNext
    <3>1. \A p \in {"ssid", "mark"} : [apply EXCEPT !.pc = p] \in ApplyType
      BY <1>2 DEF ApplyType
    <3> QED  BY <2>1, <3>1, PairProps DEF ApplyNext, ApplyDone
  <2>2. CASE PromoteReadSsid
    BY <1>2, <1>3, <2>2 DEF PromoteReadSsid, ApplyType
  <2>3. CASE PromoteReadPass
    BY <1>2, <2>3 DEF PromoteReadPass, ApplyType
  <2>4. CASE PromoteCommit
    BY <1>2, <1>3, <2>4 DEF PromoteCommit, ApplyType
  <2>5. CASE PromoteMirror
    BY <1>2, <2>5 DEF PromoteMirror, ApplyType
  <2>6. CASE PromoteErase
    BY <1>2, <1>3, <2>6 DEF PromoteErase, ApplyType
  <2>7. CASE MarkConnected
    BY <1>2, <2>7 DEF MarkConnected, ApplyType
  <2> QED  BY <2>1, <2>2, <2>3, <2>4, <2>5, <2>6, <2>7 DEF ApplyWorks
<1>5. nvs' \in NvsType
  <2>1. CASE PromoteCommit
    BY <1>2, <2>1 DEF PromoteCommit, NvsType
  <2>2. CASE PromoteErase
    BY <1>2, <2>2 DEF PromoteErase, NvsType
  <2>3. CASE MarkConnected
    BY <1>2, <2>3 DEF MarkConnected, NvsType
  <2>4. CASE ApplyNext \/ PromoteReadSsid \/ PromoteReadPass \/ PromoteMirror
    BY <1>2, <2>4 DEF ApplyNext, PromoteReadSsid, PromoteReadPass, PromoteMirror, credVars
  <2> QED  BY <2>1, <2>2, <2>3, <2>4 DEF ApplyWorks
<1>6. mirror' \in PairType /\ hist' \in HistType /\ bit' \in BOOLEAN
  <2>1. CASE PromoteMirror
    BY <1>2, <2>1, PairProps DEF PromoteMirror, rtc_mirror_write, StoreType, WorkType, HistType, linkVars
  <2>2. CASE ApplyNext
    BY <2>2 DEF ApplyNext, ApplyDone, StoreType, WorkType, ApplyType, GroupExists, credVars
  <2>3. CASE PromoteReadSsid \/ PromoteReadPass \/ PromoteCommit \/ PromoteErase \/ MarkConnected
    BY <2>3 DEF PromoteReadSsid, PromoteReadPass, PromoteCommit, PromoteErase, MarkConnected,
                credVars, linkVars, StoreType, WorkType
  <2> QED  BY <2>1, <2>2, <2>3 DEF ApplyWorks
<1> QED  BY <1>1, <1>4, <1>5, <1>6 DEF PortalType, StoreType, TimerType, WorkType,
                                       bootVars, dispVars, provVars

(* The handlers of httpd keep the types.                                   *)
LEMMA HttpTypeStep ==
    ASSUME TypeInv, HttpStep \/ FactoryReset \/ RequestPortal
                    \/ (\E c \in Creds : Reconfigure(c) \/ SaveEnter(c))
    PROVE  TypeInv'
<1> USE DEF TypeInv
<1>0. /\ nvs \in NvsType /\ http \in HttpType /\ hist \in HistType /\ mirror \in PairType
      /\ http.cred \in Text /\ nvs.ssid_p \in Text /\ apply.ssid \in Text /\ "" \in Text
      /\ provq \in Seq(ProvEvents) /\ Len(provq) <= ProvQueueLen
      /\ \A c \in Creds : c \in Text /\ [pc |-> "arm", cred |-> c] \in HttpType
                          /\ [pc |-> "save", cred |-> c] \in HttpType
  BY DEF StoreType, WorkType, PortalType, HttpType, NvsType, ApplyType, Text
<1>1. CASE ArmRestart
  <2>1. http.pc \in {"arm", "frArm"} /\ RestartTimer[http.pc] \in Timers
    BY <1>1 DEF ArmRestart, RestartTimer, Timers
  <2>2. armed' \in Seq(Timers) /\ IsInjective(armed') /\ created' \subseteq Timers
    BY <1>1, <2>1, ArmProps DEF ArmRestart, TimerType
  <2>3. http' \in HttpType
    BY <1>1, PairProps DEF ArmRestart
  <2> QED  BY <1>1, <2>2, <2>3 DEF ArmRestart, PortalType, StoreType, TimerType, WorkType,
                                   credVars, bootVars, linkVars, provVars
<1>2. CASE FactoryResetMirror
  <2>1. mirror' \in PairType /\ hist' \in HistType /\ http' \in HttpType
    BY <1>0, <1>2, PairProps DEF FactoryResetMirror, HistType, HttpType
  <2> QED  BY <1>2, <2>1 DEF FactoryResetMirror, PortalType, StoreType, TimerType, WorkType,
                             bootVars, linkVars, dispVars, provVars
<1>3. CASE SaveCommit
  <2>1. nvs' \in NvsType /\ http' \in HttpType
    <3>1. [http EXCEPT !.pc = "saveMirror"] \in HttpType /\ IdleHttp \in HttpType
      BY <1>0, PairProps DEF HttpType
    <3>2. [nvs EXCEPT !.ssid = http.cred, !.pass = http.cred] \in NvsType
      BY <1>0 DEF NvsType
    <3> QED  BY <1>0, <1>3, <3>1, <3>2 DEF SaveCommit, wifi_set
  <2>2. hist' \in HistType
    <3>1. Whole(http.cred) \in PairType
      BY <1>0, PairProps DEF Whole
    <3>2. [hist EXCEPT !.trusted = @ \cup {Whole(http.cred)}, !.wiped = FALSE, !.revived = FALSE] \in HistType
      BY <1>0, <3>1 DEF HistType
    <3> QED  BY <1>0, <1>3, <3>2 DEF SaveCommit
  <2> QED  BY <1>3, <2>1, <2>2 DEF SaveCommit, PortalType, StoreType, TimerType, WorkType,
                             bootVars, linkVars, dispVars, provVars
<1>4. CASE SaveMirror
  <2>1. mirror' \in PairType /\ hist' \in HistType /\ http' \in HttpType
    BY <1>0, <1>4, PairProps DEF SaveMirror, rtc_mirror_write, HistType, HttpType
  <2> QED  BY <1>4, <2>1 DEF SaveMirror, PortalType, StoreType, TimerType, WorkType,
                             bootVars, linkVars, dispVars, provVars
<1>5. ASSUME NEW e \in ProvEvents, post_event(e)
      PROVE  provq' \in Seq(ProvEvents) /\ Len(provq') <= ProvQueueLen
  <2>1. provq \in Seq(ProvEvents) /\ Len(provq) <= ProvQueueLen
    BY DEF PortalType
  <2>2. Append(provq, e) \in Seq(ProvEvents) /\ Len(Append(provq, e)) = Len(provq) + 1 /\ Len(provq) \in Nat
    BY <2>1
  <2>3. provq' = IF Len(provq) < ProvQueueLen /\ mgr # "off" THEN Append(provq, e) ELSE provq
    BY <1>5 DEF post_event, Posted
  <2> QED  BY <2>1, <2>2, <2>3, ProvQueueAssumption
<1>6. CASE SavePost
  <2>1. provq' \in Seq(ProvEvents) /\ Len(provq') <= ProvQueueLen
    BY <1>0, <1>5, <1>6 DEF SavePost, on_save, SaveUnheard, ProvEvents
  <2>2. PortalType'
    BY <1>6, <2>1 DEF SavePost, on_save, SaveUnheard, PortalType, Posted
  <2> QED  BY <1>6, <2>2, PairProps DEF SavePost, StoreType, TimerType, WorkType,
                             credVars, bootVars, linkVars, dispVars
<1>7. CASE RequestPortal
  <2>1. PortalType'
    BY <1>5, <1>7 DEF RequestPortal, request_portal, PortalType, ProvEvents, EntryEvents
  <2> QED  BY <1>7, <2>1 DEF RequestPortal, StoreType, TimerType, WorkType,
                             credVars, bootVars, linkVars, dispVars
<1>8. CASE FactoryReset
  <2>1. nvs' \in NvsType /\ nvsUp' \in BOOLEAN /\ hist' \in HistType /\ http' \in HttpType
    BY <1>0, <1>8, PairProps DEF FactoryReset, HistType, HttpType
  <2>2. UNCHANGED <<mirror, bootVars, linkVars, dispVars, apply, provVars>>
    BY <1>8 DEF FactoryReset
  <2> QED  BY <2>1, <2>2 DEF PortalType, StoreType, TimerType, WorkType,
                             bootVars, linkVars, dispVars, provVars
<1>9. ASSUME NEW c \in Creds, Reconfigure(c) PROVE TypeInv'
  <2>1. nvs' \in NvsType /\ http' \in HttpType
    BY <1>0, <1>9 DEF Reconfigure, pending_set, NvsType
  <2>2. hist' \in HistType
    <3>1. {Whole(c), Pair(nvs.ssid_p, c), Pair(apply.ssid, c)} \subseteq PairType
      BY <1>0, PairProps
    <3>2. [hist EXCEPT !.excused = @ \cup {Whole(c), Pair(nvs.ssid_p, c), Pair(apply.ssid, c)}] \in HistType
      BY <1>0, <3>1 DEF HistType
    <3> QED  BY <1>0, <1>9, <3>2 DEF Reconfigure
  <2>3. UNCHANGED <<nvsUp, mirror, bootVars, linkVars, dispVars, apply, provVars>>
    BY <1>9 DEF Reconfigure
  <2> QED  BY <2>1, <2>2, <2>3 DEF PortalType, StoreType, TimerType, WorkType,
                                   bootVars, linkVars, dispVars, provVars
<1>10. ASSUME NEW c \in Creds, SaveEnter(c) PROVE TypeInv'
  <2>1. UNCHANGED <<credVars, bootVars, linkVars, dispVars, apply, hist, provVars>> /\ http' \in HttpType
    BY <1>0, <1>10 DEF SaveEnter
  <2> QED  BY <2>1 DEF PortalType, StoreType, TimerType, WorkType,
                       credVars, bootVars, linkVars, dispVars, provVars
<1> QED  BY <1>1, <1>2, <1>3, <1>4, <1>6, <1>7, <1>8, <1>9, <1>10, FailTypeStep DEF HttpStep, Failure

(* The provisioning manager keeps the types.                               *)
LEMMA PortalTypeStep ==
    ASSUME TypeInv, Portal
    PROVE  TypeInv'
<1> USE DEF TypeInv
<1>1. provq' \in Seq(ProvEvents) /\ Len(provq') <= ProvQueueLen
  <2>1. provq' = provq \/ (provq # << >> /\ provq' = Tail(provq))
    BY DEF Portal, ManagerStep, DriveEntry, RegisterSave, RegisterRest, CommitActive, SaveSuccess,
           Ignore, SettleTimeout, Received
  <2>2. CASE provq' = provq
    BY <2>2 DEF PortalType
  <2>3. CASE provq # << >> /\ provq' = Tail(provq)
    <3>1. Tail(provq) \in Seq(ProvEvents) /\ Len(Tail(provq)) = Len(provq) - 1 /\ Len(provq) \in Nat
      BY <2>3, TailProps DEF PortalType
    <3> QED  BY <2>3, <3>1, ProvQueueAssumption DEF PortalType
  <2> QED  BY <2>1, <2>2, <2>3
<1>2. PortalType'
  <2>1. CASE DriveEntry
    BY <1>1, <2>1 DEF DriveEntry, PortalType
  <2>2. CASE RegisterSave \/ RegisterRest
    BY <1>1, <2>2 DEF RegisterSave, RegisterRest, PortalType, PortalRoutes
  <2>3. CASE CommitActive \/ SaveSuccess \/ SettleTimeout
    BY <1>1, <2>3 DEF CommitActive, SaveSuccess, SettleTimeout, PortalType
  <2>4. CASE Ignore
    BY <1>1, <2>4 DEF Ignore, PortalType
  <2> QED  BY <2>1, <2>2, <2>3, <2>4 DEF Portal, ManagerStep
<1> QED  BY <1>2 DEF Portal, StoreType, TimerType, WorkType, credVars, bootVars, linkVars, dispVars

(* Every step keeps the types.                                             *)
LEMMA NextType == TypeInv /\ [Next]_vars => TypeInv'
<1> SUFFICES ASSUME TypeInv, [Next]_vars PROVE TypeInv'
  OBVIOUS
<1>1. CASE UNCHANGED vars
  BY <1>1 DEF vars, TypeInv, PortalType, StoreType, TimerType, WorkType, provVars
<1>2. CASE DispRestart
  BY <1>2, ResetProps DEF DispRestart
<1>3. ASSUME NEW cold \in BOOLEAN, Fault(cold) PROVE TypeInv'
  BY <1>3, ResetProps DEF Fault
<1> QED  BY <1>1, <1>2, <1>3, FailTypeStep, BootTypeStep, EventTypeStep, ApplyTypeStep,
          HttpTypeStep, PortalTypeStep DEF Next, DispStep, ApplyStep, ApplyWorks, CredsArrived, Failure

-----------------------------------------------------------------------------
(* Who can be running.                                                     *)
Early == boot \in {"init", "stamp", "autoinit"}
HasPromote == "promote" \in persist \/ "promote" \in apply.todo
Staged == Pair(nvs.ssid_p, nvs.pass_p)
Promoting == {"ssid", "pass", "commit", "mirror", "erase1", "erase2"}
Saving == {"save", "saveMirror", "savePost"}

(* Until bb_wifi_autoinit has run there is nobody but the boot task.       *)
EarlyInv ==
    Early => /\ mgr = "off" /\ persistMode = "none" /\ apply.pc = "idle" /\ http.pc = "idle"
             /\ ~s_pending_try /\ ~link.up /\ ~bit /\ nvsUp

(* A heal has just written what it stamps.                                 *)
BootInv == boot = "stamp" => has_creds /\ mirror.ssid # ""

(* Without the manager's task there is no portal.  A save needs a route,   *)
(* and routes are registered by the manager.                               *)
PortalInv ==
    /\ mgr = "off" => routes = {} /\ provq = << >> /\ wp = "IDLE" /\ ~settle /\ ~arrived
    /\ mgr \notin {"off", "idle"} => wp = "IDLE"
    /\ wp = "CLOSING" => settle
    /\ http.pc \in Saving => mgr # "off" /\ http.cred \in Creds

(* A promotion, from the try to its end, excludes the portal.  While it is *)
(* only a try the driver has the staged pair, and no address has come.     *)
PromoteInv ==
    /\ s_pending_try \/ HasPromote => mgr = "off"
    /\ s_pending_try => /\ boot \in {"try", "unregister", "clear"} /\ link.cfg = Staged
                        /\ ~bit /\ persistMode = "none"
    /\ ~("promote" \in persist /\ "promote" \in apply.todo)

(* Inside got_ip_persist_apply, and which of its two callers there is.     *)
ApplyInv ==
    /\ apply.pc \in Promoting => "promote" \in apply.todo
    /\ apply.pc = "mark" => "promote" \notin apply.todo
    /\ apply.pc \in {"pass", "commit", "mirror"} => apply.ssid # ""
    /\ apply.pc = "idle" => apply.todo = {} /\ ~apply.inline
    /\ apply.pc # "idle" => apply.inline \/ persistMode = "timer"
    /\ apply.inline => persistMode = "inline"
    /\ persist # {} => persistMode = "timer"
    /\ Contains(armed, "persist") \/ Contains(dispq, "persist") => persistMode = "timer"

ControlInv == EarlyInv /\ BootInv /\ PortalInv /\ PromoteInv /\ ApplyInv

(* At power-up only the boot task exists.                                  *)
LEMMA InitControl == Init => ControlInv
<1> SUFFICES ASSUME Init PROVE ControlInv
  OBVIOUS
<1>1. EarlyInv /\ BootInv /\ PortalInv
  BY PairProps DEF Init, ProvInit, EarlyInv, BootInv, PortalInv, Saving
<1>2. PromoteInv /\ ApplyInv
  BY PairProps, EmptyProps DEF Init, PromoteInv, HasPromote, ApplyInv, Promoting
<1> QED  BY <1>1, <1>2 DEF ControlInv

(* A reset leaves only the boot task, whatever it interrupts.              *)
LEMMA ResetControl ==
    ASSUME TypeInv, NEW cold \in BOOLEAN, Reset(cold)
    PROVE  ControlInv'
<1>1. EarlyInv' /\ BootInv' /\ PortalInv'
  BY ResetProps, PairProps DEF EarlyInv, BootInv, PortalInv, Saving
<1>2. PromoteInv' /\ ApplyInv'
  BY ResetProps, PairProps, EmptyProps DEF PromoteInv, HasPromote, ApplyInv, Promoting
<1> QED  BY <1>1, <1>2 DEF ControlInv

(* What fails gives up its turn: no failure starts anything that the       *)
(* success would not have started.                                         *)
LEMMA FailControl ==
    ASSUME TypeInv, ControlInv, Failure
    PROVE  ControlInv'
<1> USE DEF ControlInv
<1>1. CASE AutoinitUnread
  <2>1. /\ boot = "autoinit" /\ Early /\ boot' \in {"parked", "connect"}
        /\ s_pending_try' = s_pending_try
        /\ UNCHANGED <<nvs, nvsUp, mirror, bit, persist, persistMode, armed, dispq, apply, http>>
    BY <1>1 DEF AutoinitUnread, credVars, dispVars, Early
  <2>2. EarlyInv' /\ BootInv'
    BY <2>1 DEF EarlyInv, BootInv, Early
  <2>3. PortalInv'
    <3>1. CASE UNCHANGED provVars
      BY <2>1, <3>1 DEF PortalInv, provVars
    <3>2. CASE wifi_prov_autoinit(FALSE, nvs.provisioned)
      BY <2>1, <3>2 DEF wifi_prov_autoinit, PortalInv, EarlyInv, Saving
    <3> QED  BY <1>1, <3>1, <3>2 DEF AutoinitUnread
  <2>4. ~HasPromote /\ ~HasPromote' /\ ~s_pending_try'
    BY <2>1 DEF EarlyInv, ApplyInv, HasPromote
  <2>5. PromoteInv' /\ ApplyInv'
    BY <2>1, <2>4 DEF PromoteInv, ApplyInv, HasPromote
  <2> QED  BY <2>2, <2>3, <2>5
<1>2. CASE RevertFails
  <2>1. /\ ~Early /\ ~Early'
        /\ UNCHANGED <<nvs, nvsUp, mirror, link, bit, persist, persistMode, armed, dispq, apply, http>>
        /\ UNCHANGED provVars
        /\ boot = "clear" => ~s_pending_try'
        /\ boot # "clear" => s_pending_try' = s_pending_try
        /\ boot \in {"clear", "erase1", "erase2"}
    BY <1>2 DEF RevertFails, credVars, linkVars, dispVars, Early
  <2>2. EarlyInv' /\ BootInv' /\ PortalInv'
    BY <2>1 DEF EarlyInv, BootInv, PortalInv, provVars, Early
  <2>3. ~s_pending_try'
    BY <2>1 DEF PromoteInv
  <2>4. PromoteInv' /\ ApplyInv'
    BY <2>1, <2>3 DEF PromoteInv, ApplyInv, HasPromote, provVars
  <2> QED  BY <2>2, <2>4
<1>3. CASE PromoteFails \/ CleanupFails
  <2>0. apply \in ApplyType
    BY DEF TypeInv, WorkType
  <2>1. /\ UNCHANGED <<nvs, nvsUp, mirror, boot, s_pending_try, link, bit, persist, persistMode,
                       armed, dispq, http>>
        /\ UNCHANGED provVars
        /\ apply.pc # "idle" /\ apply'.pc \in {"next", "erase2"}
        /\ apply'.inline = apply.inline /\ apply'.todo \subseteq apply.todo
        /\ apply'.pc = "erase2" => apply.pc = "erase1" /\ apply'.todo = apply.todo
    BY <1>3, <2>0, GiveUpProps DEF PromoteFails, CleanupFails, credVars, bootVars, linkVars, dispVars
  <2>2. EarlyInv' /\ BootInv' /\ PortalInv'
    BY <2>1 DEF EarlyInv, BootInv, PortalInv, has_creds, provVars, Early
  <2>3. PromoteInv'
    BY <2>1 DEF PromoteInv, HasPromote, provVars, Staged
  <2>4. ApplyInv'
    BY <2>1 DEF ApplyInv, Promoting
  <2> QED  BY <2>2, <2>3, <2>4
<1>4. CASE ArmRestartFails \/ SaveFails
  <2>1. /\ UNCHANGED <<nvs, nvsUp, mirror, boot, s_pending_try, link, bit, persist, persistMode,
                       armed, dispq, apply>>
        /\ UNCHANGED provVars /\ http' = IdleHttp
    BY <1>4 DEF ArmRestartFails, SaveFails, credVars, bootVars, linkVars, dispVars
  <2>2. EarlyInv' /\ BootInv' /\ PortalInv'
    BY <2>1, PairProps DEF EarlyInv, BootInv, PortalInv, has_creds, provVars, Early, Saving
  <2>3. PromoteInv' /\ ApplyInv'
    BY <2>1 DEF PromoteInv, ApplyInv, HasPromote, provVars, Staged
  <2> QED  BY <2>2, <2>3
<1>5. CASE ConnectFreshFails
  <2>1. /\ UNCHANGED <<nvs, nvsUp, mirror, s_pending_try, link, bit, persist, persistMode, armed,
                       dispq, apply, http, wp, settle, mgr, provq, routes>>
        /\ arrived /\ ~arrived' /\ mgr # "off" /\ boot = "parked" /\ boot' = "run"
    BY <1>5 DEF ConnectFreshFails, credVars, linkVars, dispVars, PortalInv
  <2>2. EarlyInv' /\ BootInv' /\ PortalInv'
    BY <2>1 DEF EarlyInv, BootInv, PortalInv, Early
  <2>3. PromoteInv' /\ ApplyInv'
    BY <2>1 DEF PromoteInv, ApplyInv, HasPromote
  <2> QED  BY <2>2, <2>3
<1> QED  BY <1>1, <1>2, <1>3, <1>4, <1>5 DEF Failure

(* The boot task, from creds_boot_init to the revert of a failed try.      *)
LEMMA BootControl ==
    ASSUME TypeInv, ControlInv, BootStep
    PROVE  ControlInv'
<1> USE DEF ControlInv
<1>1. ASSUME NEW corrupt \in BOOLEAN, NEW failed \in {"none", "decision", "action"},
            CredsBootInit(corrupt, failed)
     PROVE  ControlInv'
  <2>1. /\ boot = "init" /\ boot' \in {"stamp", "autoinit"} /\ Early /\ Early'
        /\ UNCHANGED <<nvsUp, s_pending_try, link, bit, persist, persistMode, armed, dispq, apply, http>>
        /\ UNCHANGED provVars
    BY <1>1 DEF CredsBootInit, linkVars, dispVars, Early
  <2>2. EarlyInv'
    BY <2>1 DEF EarlyInv, provVars
  <2>3. boot' = "stamp" => nvs'.ssid # "" /\ mirror'.ssid # ""
    <3> DEFINE start == IF corrupt THEN ErasedNvs ELSE nvs
    <3>1. start \in NvsType
      BY PairProps DEF TypeInv, StoreType
    <3>2. boot' = "stamp" => /\ mirror.ssid # "" /\ mirror' = mirror
                             /\ nvs' = [start EXCEPT !.ssid = mirror.ssid, !.pass = mirror.pass]
      BY <1>1 DEF CredsBootInit, creds_boot_decide
    <3> QED  BY <3>1, <3>2 DEF NvsType
  <2>4. BootInv'
    BY <2>1, <2>3 DEF BootInv, has_creds
  <2>5. PortalInv'
    BY <2>1 DEF PortalInv, provVars
  <2>6. PromoteInv' /\ ApplyInv'
    BY <2>1 DEF EarlyInv, PromoteInv, ApplyInv, HasPromote, provVars
  <2> QED  BY <2>2, <2>4, <2>5, <2>6
<1>2. CASE HealStamp
  <2>1. /\ boot = "stamp" /\ boot' = "autoinit" /\ Early /\ Early'
        /\ UNCHANGED <<nvsUp, s_pending_try, link, bit, persist, persistMode, armed, dispq, apply, http>>
        /\ UNCHANGED provVars
    BY <1>2 DEF HealStamp, linkVars, dispVars, Early
  <2>2. EarlyInv' /\ BootInv'
    BY <2>1 DEF EarlyInv, BootInv, provVars
  <2>3. PortalInv'
    BY <2>1 DEF PortalInv, provVars
  <2>4. PromoteInv' /\ ApplyInv'
    BY <2>1 DEF EarlyInv, PromoteInv, ApplyInv, HasPromote, provVars
  <2> QED  BY <2>2, <2>3, <2>4
<1>3. CASE Autoinit
  <2>1. /\ boot = "autoinit" /\ Early /\ boot' \in {"parked", "try", "connect"}
        /\ s_pending_try' => has_creds /\ boot' = "try" /\ link'.cfg = Staged
        /\ UNCHANGED <<nvs, nvsUp, mirror, bit, persist, persistMode, armed, dispq, apply, http>>
    BY <1>3 DEF Autoinit, credVars, dispVars, Early, Staged
  <2>2. EarlyInv' /\ BootInv'
    BY <2>1 DEF EarlyInv, BootInv, Early
  <2>3. PortalInv' /\ (has_creds => mgr' = mgr)
    <3>1. CASE has_creds
      BY <1>3, <2>1, <3>1 DEF Autoinit, PortalInv, provVars
    <3>2. CASE ~has_creds
      BY <1>3, <2>1, <3>2 DEF Autoinit, wifi_prov_autoinit, PortalInv, EarlyInv, Saving
    <3> QED  BY <3>1, <3>2
  <2>4. ~HasPromote /\ ~HasPromote'
    BY <2>1 DEF EarlyInv, ApplyInv, HasPromote
  <2>5. PromoteInv'
    BY <2>1, <2>3, <2>4 DEF EarlyInv, PromoteInv, HasPromote, Staged
  <2>6. ApplyInv'
    BY <2>1 DEF ApplyInv
  <2> QED  BY <2>2, <2>3, <2>5, <2>6
<1>4. CASE ConnectReturns \/ TryTimesOut
  <2>1. /\ boot \in {"try", "connect"} /\ boot' \in {"run", "unregister"}
        /\ boot' = "run" => boot = "connect" \/ bit
        /\ boot' = "unregister" => boot = "try"
        /\ bit' => bit
        /\ UNCHANGED <<nvs, nvsUp, mirror, s_pending_try, link, persist, persistMode, armed,
                       dispq, apply, http>>
        /\ UNCHANGED provVars
    BY <1>4 DEF ConnectReturns, TryTimesOut, credVars, linkVars, dispVars
  <2>2. EarlyInv' /\ BootInv'
    BY <2>1 DEF EarlyInv, BootInv, Early
  <2>3. PortalInv'
    BY <2>1 DEF PortalInv, provVars
  <2>4. PromoteInv' /\ ApplyInv'
    BY <2>1 DEF PromoteInv, ApplyInv, HasPromote, provVars, Staged
  <2> QED  BY <2>2, <2>3, <2>4
<1>5. CASE Revert
  <2>1. /\ ~Early /\ ~Early' /\ UNCHANGED <<nvsUp, mirror, bit, persist, persistMode, armed, dispq, apply, http>>
        /\ UNCHANGED provVars
        /\ boot \in {"unregister", "clear", "erase1", "erase2"}
    BY <1>5 DEF Revert, dispVars, Early
  <2>2. /\ boot = "unregister" => boot' = "clear" /\ UNCHANGED <<nvs, s_pending_try>>
        /\ boot # "unregister" => link' = link
        /\ boot = "clear" => ~s_pending_try' /\ boot' = "erase1"
        /\ boot \notin {"unregister", "clear"} => s_pending_try' = s_pending_try
        /\ boot = "erase1" => boot' = "erase2" /\ nvs' = [nvs EXCEPT !.ssid_p = ""]
        /\ boot = "erase2" => boot' = "restart" /\ nvs' = [nvs EXCEPT !.pass_p = ""]
    BY <1>5 DEF Revert
  <2>3. boot = "unregister" => link'.cfg = link.cfg
    BY <1>5 DEF Revert, TypeInv, StoreType, LinkType
  <2>5. EarlyInv' /\ BootInv'
    BY <2>1 DEF EarlyInv, BootInv, Early
  <2>6. PortalInv'
    BY <2>1 DEF PortalInv, provVars
  <2>7. s_pending_try' => boot = "unregister"
    BY <2>1, <2>2 DEF PromoteInv
  <2>8. PromoteInv'
    <3>1. mgr' = mgr /\ (HasPromote' <=> HasPromote)
      BY <2>1 DEF HasPromote, provVars
    <3>2. s_pending_try' => s_pending_try /\ boot' = "clear" /\ link'.cfg = link.cfg /\ Staged' = Staged
      BY <2>2, <2>3, <2>7 DEF Staged
    <3> QED  BY <2>1, <3>1, <3>2 DEF PromoteInv
  <2>9. ApplyInv'
    BY <2>1 DEF ApplyInv
  <2> QED  BY <2>5, <2>6, <2>8, <2>9
<1>6. CASE RevertRestart
  BY <1>6, ResetControl DEF RevertRestart
<1> QED  BY <1>1, <1>2, <1>3, <1>4, <1>5, <1>6, FailControl DEF BootStep, Failure

(* Addresses, timers, the dispatcher and CREDS_ARRIVED.                    *)
LEMMA EventControl ==
    ASSUME TypeInv, ControlInv,
           GotIp \/ LostIp \/ ConnectFresh
           \/ (\E timer \in Timers : TimerFires(timer)) \/ DispPersist
    PROVE  ControlInv'
<1> USE DEF ControlInv
<1>1. CASE GotIp
  <2>1. /\ link.up /\ ~apply.inline /\ ~s_pending_try' /\ ~Early /\ ~Early'
        /\ UNCHANGED <<nvs, nvsUp, mirror, boot, dispq, http>> /\ UNCHANGED provVars
    BY <1>1 DEF GotIp, credVars, EarlyInv, Early
  <2>2. PICK decision \in Decisions : /\ PersistByTimer(decision) \/ PersistInline(decision)
                                      /\ decision = "promote" <=> s_pending_try
    BY <1>1 DEF GotIp, got_ip_persist_decide, Decisions
  <2>3. EarlyInv' /\ BootInv' /\ PortalInv'
    BY <2>1 DEF EarlyInv, BootInv, PortalInv, has_creds, provVars
  <2>4. CASE PersistByTimer(decision)
    <3>1. /\ persistMode # "inline" /\ persistMode' = "timer" /\ persist' = persist \cup {decision}
          /\ apply' = apply
      BY <2>4 DEF PersistByTimer, MergedDecision
    <3>2. PromoteInv'
      BY <2>1, <2>2, <3>1 DEF PromoteInv, HasPromote, ApplyInv, provVars
    <3>3. ApplyInv'
      BY <2>1, <3>1 DEF ApplyInv
    <3> QED  BY <2>3, <3>2, <3>3
  <2>5. CASE PersistInline(decision)
    <3>1. /\ persistMode # "timer" /\ persistMode' = "inline" /\ UNCHANGED <<persist, armed, bit>>
          /\ apply'.pc = "next" /\ apply'.todo = {decision} /\ apply'.inline
      BY <2>5 DEF PersistInline, IdleApply
    <3>2. persist = {}
      BY <3>1 DEF ApplyInv
    <3>3. PromoteInv'
      BY <2>1, <2>2, <3>1, <3>2 DEF PromoteInv, HasPromote, provVars
    <3>4. ApplyInv'
      BY <2>1, <3>1, <3>2 DEF ApplyInv, Promoting
    <3> QED  BY <2>3, <3>3, <3>4
  <2> QED  BY <2>2, <2>4, <2>5
<1>2. CASE LostIp
  <2>1. /\ UNCHANGED <<nvs, nvsUp, mirror, boot, s_pending_try, bit, persist, persistMode, armed,
                       dispq, apply, http>>
        /\ UNCHANGED provVars /\ link'.cfg = link.cfg /\ link'.up = link.up
    BY <1>2 DEF LostIp, credVars, bootVars, dispVars, TypeInv, StoreType, LinkType
  <2>2. EarlyInv' /\ BootInv' /\ PortalInv'
    BY <2>1 DEF EarlyInv, BootInv, PortalInv, has_creds, provVars, Early
  <2>3. PromoteInv' /\ ApplyInv'
    BY <2>1 DEF PromoteInv, ApplyInv, HasPromote, provVars, Staged
  <2> QED  BY <2>2, <2>3
<1>3. CASE ConnectFresh
  <2>1. /\ UNCHANGED <<nvs, nvsUp, mirror, s_pending_try, bit, persist, persistMode, armed,
                       dispq, apply, http, wp, settle, mgr, provq, routes>>
        /\ arrived /\ ~arrived' /\ mgr # "off"
        /\ boot' = boot \/ (boot = "parked" /\ boot' = "run")
    BY <1>3 DEF ConnectFresh, credVars, dispVars, PortalInv
  <2>2. ~Early /\ ~Early' /\ ~s_pending_try
    BY <2>1 DEF EarlyInv, Early, PromoteInv
  <2>3. EarlyInv' /\ BootInv' /\ PortalInv'
    BY <2>1, <2>2 DEF EarlyInv, BootInv, PortalInv, has_creds
  <2>4. PromoteInv' /\ ApplyInv'
    BY <2>1, <2>2 DEF PromoteInv, ApplyInv, HasPromote
  <2> QED  BY <2>3, <2>4
<1>4. ASSUME NEW timer \in Timers, TimerFires(timer) PROVE ControlInv'
  <2>1. /\ UNCHANGED <<nvs, nvsUp, mirror, boot, s_pending_try, link, bit, persist, persistMode,
                       apply, http>>
        /\ UNCHANGED provVars
        /\ Contains(armed, timer)
    BY <1>4 DEF TimerFires, credVars, bootVars, linkVars, Contains
  <2>2. EarlyInv' /\ BootInv' /\ PortalInv'
    BY <2>1 DEF EarlyInv, BootInv, PortalInv, has_creds, provVars, Early
  <2>3. PromoteInv'
    BY <2>1 DEF PromoteInv, HasPromote, provVars, Staged
  <2>4. \A x : Contains(armed', x) => Contains(armed, x)
    BY <1>4, RemoveFirstProps DEF TimerFires, TypeInv, TimerType
  <2>5. \A x : Contains(dispq', x) => Contains(dispq, x) \/ x = timer
    <3>1. dispq' = dispq \/ dispq' = Append(dispq, timer)
      BY <1>4 DEF TimerFires
    <3>2. dispq \in Seq(Timers)
      BY DEF TypeInv, TimerType
    <3>3. CASE dispq' = dispq
      BY <3>3
    <3>4. CASE dispq' = Append(dispq, timer)
      BY <3>2, <3>4, AppendProps
    <3> QED  BY <3>1, <3>3, <3>4
  <2>6. ApplyInv'
    BY <2>1, <2>4, <2>5 DEF ApplyInv
  <2> QED  BY <2>2, <2>3, <2>6
<1>5. CASE DispPersist
  <2>1. /\ UNCHANGED <<nvs, nvsUp, mirror, boot, s_pending_try, link, bit, persistMode, armed, http>>
        /\ UNCHANGED provVars
        /\ apply.pc = "idle" /\ apply'.pc = "next" /\ apply'.todo = persist /\ ~apply'.inline
        /\ persist' = {}
        /\ dispq # << >> /\ Head(dispq) = "persist" /\ dispq' = Tail(dispq)
    BY <1>5 DEF DispPersist, credVars, bootVars, linkVars, IdleApply
  <2>2. Contains(dispq, "persist") /\ \A x : Contains(dispq', x) => Contains(dispq, x)
    <3>1. dispq \in Seq(Timers)
      BY DEF TypeInv, TimerType
    <3>2. Len(dispq) \in Nat /\ Len(dispq) > 0 /\ Head(dispq) = dispq[1]
      BY <2>1, <3>1
    <3> QED  BY <2>1, <3>1, <3>2, TailProps DEF Contains
  <2>3. persistMode = "timer"
    BY <2>2 DEF ApplyInv
  <2>4. EarlyInv' /\ BootInv' /\ PortalInv'
    BY <2>1, <2>3 DEF EarlyInv, BootInv, PortalInv, has_creds, provVars, Early
  <2>5. PromoteInv'
    BY <2>1, <2>3 DEF PromoteInv, HasPromote, provVars, Staged
  <2>6. ApplyInv'
    BY <2>1, <2>2, <2>3 DEF ApplyInv, Promoting
  <2> QED  BY <2>4, <2>5, <2>6
<1> QED  BY <1>1, <1>2, <1>3, <1>4, <1>5

(* got_ip_persist_apply runs for one caller and only shortens its list.    *)
LEMMA ApplyControl ==
    ASSUME TypeInv, ControlInv, ApplyWorks
    PROVE  ControlInv'
<1> USE DEF ControlInv
<1>1. /\ UNCHANGED <<nvsUp, boot, s_pending_try, link, persist, persistMode, armed, dispq, http>>
      /\ UNCHANGED provVars
      /\ apply.pc # "idle"
  BY DEF ApplyWorks, ApplyNext, PromoteReadSsid, PromoteReadPass, PromoteCommit, PromoteMirror,
         PromoteErase, MarkConnected, credVars, bootVars, dispVars, linkVars
<1>2. ~Early /\ ~Early' /\ ~s_pending_try
  BY <1>1 DEF EarlyInv, Early, PromoteInv, ApplyInv
<1>3. \/ apply' = IdleApply
      \/ apply'.pc # "idle" /\ apply'.inline = apply.inline /\ apply'.todo \subseteq apply.todo
  <2>0. apply \in ApplyType
    BY DEF TypeInv, WorkType
  <2>1. Promoted.pc = "next" /\ Promoted.inline = apply.inline /\ Promoted.todo \subseteq apply.todo
    BY <2>0 DEF Promoted, ApplyType
  <2>2. CASE ApplyNext
    BY <2>0, <2>2 DEF ApplyNext, ApplyDone, ApplyType
  <2>3. CASE PromoteReadSsid \/ PromoteReadPass \/ PromoteCommit
    BY <2>0, <2>1, <2>3 DEF PromoteReadSsid, PromoteReadPass, PromoteCommit, ApplyType
  <2>4. CASE PromoteMirror \/ PromoteErase \/ MarkConnected
    BY <2>0, <2>1, <2>4 DEF PromoteMirror, PromoteErase, MarkConnected, ApplyType
  <2> QED  BY <2>2, <2>3, <2>4 DEF ApplyWorks
<1>4. /\ apply'.pc \in Promoting => "promote" \in apply'.todo
      /\ apply'.pc = "mark" => "promote" \notin apply'.todo
      /\ apply'.pc \in {"pass", "commit", "mirror"} => apply'.ssid # ""
  <2>0. apply \in ApplyType
    BY DEF TypeInv, WorkType
  <2>1. Promoted.pc = "next"
    BY <2>0 DEF Promoted, ApplyType
  <2>2. CASE ApplyNext
    <3>1. CASE apply.todo = {}
      BY <2>2, <3>1, PairProps DEF ApplyNext, ApplyDone, Promoting
    <3>2. CASE apply.todo # {}
      BY <2>0, <2>2, <3>2 DEF ApplyNext, ApplyType, Promoting
    <3> QED  BY <3>1, <3>2
  <2>3. CASE PromoteReadSsid
    BY <2>0, <2>1, <2>3 DEF PromoteReadSsid, ApplyType, ApplyInv, Promoting
  <2>4. CASE PromoteReadPass
    BY <2>0, <2>4 DEF PromoteReadPass, ApplyType, ApplyInv, Promoting
  <2>5. CASE PromoteCommit
    BY <2>0, <2>1, <2>5 DEF PromoteCommit, ApplyType, ApplyInv, Promoting
  <2>6. CASE PromoteMirror \/ PromoteErase
    BY <2>0, <2>1, <2>6 DEF PromoteMirror, PromoteErase, ApplyType, ApplyInv, Promoting
  <2>7. CASE MarkConnected
    BY <2>0, <2>7 DEF MarkConnected, ApplyType, Promoting
  <2> QED  BY <2>2, <2>3, <2>4, <2>5, <2>6, <2>7 DEF ApplyWorks
<1>5. ApplyInv'
  BY <1>1, <1>3, <1>4, PairProps DEF ApplyInv
<1>6. PromoteInv'
  BY <1>1, <1>2, <1>3, PairProps DEF PromoteInv, HasPromote, provVars
<1>7. PortalInv'
  BY <1>1 DEF PortalInv, provVars
<1>8. EarlyInv' /\ BootInv'
  BY <1>1, <1>2 DEF EarlyInv, BootInv, Early
<1> QED  BY <1>5, <1>6, <1>7, <1>8

(* The handlers of httpd.                                                  *)
LEMMA HttpControl ==
    ASSUME TypeInv, ControlInv,
           HttpStep \/ FactoryReset \/ RequestPortal
           \/ (\E c \in Creds : Reconfigure(c) \/ SaveEnter(c))
    PROVE  ControlInv'
<1> USE DEF ControlInv
<1>0. nvs \in NvsType /\ http \in HttpType
  BY DEF TypeInv, StoreType, WorkType
<1>1. CASE ArmRestart
  <2>1. /\ UNCHANGED <<nvs, nvsUp, mirror, boot, s_pending_try, link, bit, persist, persistMode,
                       dispq, apply>>
        /\ UNCHANGED provVars
        /\ http.pc \in {"arm", "frArm"} /\ http' = IdleHttp
        /\ armed' = ArmTimer(RestartTimer[http.pc]) /\ RestartTimer[http.pc] \in {"restart", "fr_restart"}
    BY <1>1 DEF ArmRestart, credVars, bootVars, linkVars, RestartTimer
  <2>2. EarlyInv' /\ BootInv' /\ PortalInv'
    BY <2>1, PairProps DEF EarlyInv, BootInv, PortalInv, has_creds, provVars, Early, Saving
  <2>3. PromoteInv'
    BY <2>1 DEF PromoteInv, HasPromote, provVars, Staged
  <2>4. Contains(armed', "persist") => Contains(armed, "persist")
    BY <2>1, ArmProps DEF TypeInv, TimerType, Timers
  <2>5. ApplyInv'
    BY <2>1, <2>4 DEF ApplyInv
  <2> QED  BY <2>2, <2>3, <2>5
<1>2. CASE FactoryResetMirror
  <2>1. /\ UNCHANGED <<nvs, nvsUp, boot, s_pending_try, link, bit, persist, persistMode, armed,
                       dispq, apply>>
        /\ UNCHANGED provVars
        /\ http.pc = "frClear" /\ http'.pc = "frArm"
    BY <1>0, <1>2 DEF FactoryResetMirror, bootVars, linkVars, dispVars, HttpType
  <2>2. ~Early
    BY <2>1 DEF EarlyInv
  <2>3. EarlyInv' /\ BootInv' /\ PortalInv'
    BY <2>1, <2>2 DEF EarlyInv, BootInv, PortalInv, provVars, Early, Saving
  <2>4. PromoteInv' /\ ApplyInv'
    BY <2>1 DEF PromoteInv, ApplyInv, HasPromote, provVars, Staged
  <2> QED  BY <2>3, <2>4
<1>3. CASE SaveCommit
  <2>1. /\ UNCHANGED <<nvsUp, mirror, boot, s_pending_try, link, bit, persist, persistMode, armed,
                       dispq, apply>>
        /\ UNCHANGED provVars
        /\ http.pc = "save" /\ (http' = IdleHttp \/ (http'.pc = "saveMirror" /\ http'.cred = http.cred))
        /\ nvs'.ssid_p = nvs.ssid_p /\ nvs'.pass_p = nvs.pass_p
    BY <1>0, <1>3 DEF SaveCommit, wifi_set, bootVars, linkVars, dispVars, HttpType, NvsType
  <2>2. ~Early
    BY <2>1 DEF EarlyInv
  <2>3. EarlyInv' /\ BootInv' /\ PortalInv'
    BY <2>1, <2>2, PairProps DEF EarlyInv, BootInv, PortalInv, provVars, Early, Saving
  <2>4. PromoteInv' /\ ApplyInv'
    BY <2>1 DEF PromoteInv, ApplyInv, HasPromote, provVars, Staged
  <2> QED  BY <2>3, <2>4
<1>4. CASE SaveMirror
  <2>1. /\ UNCHANGED <<nvs, nvsUp, boot, s_pending_try, link, bit, persist, persistMode, armed,
                       dispq, apply>>
        /\ UNCHANGED provVars
        /\ http.pc = "saveMirror" /\ http'.pc = "savePost" /\ http'.cred = http.cred
    BY <1>0, <1>4 DEF SaveMirror, bootVars, linkVars, dispVars, HttpType
  <2>2. ~Early
    BY <2>1 DEF EarlyInv
  <2>3. EarlyInv' /\ BootInv' /\ PortalInv'
    BY <2>1, <2>2 DEF EarlyInv, BootInv, PortalInv, provVars, Early, Saving
  <2>4. PromoteInv' /\ ApplyInv'
    BY <2>1 DEF PromoteInv, ApplyInv, HasPromote, provVars, Staged
  <2> QED  BY <2>3, <2>4
<1>5. CASE SavePost \/ RequestPortal
  <2>1. /\ UNCHANGED <<nvs, nvsUp, mirror, boot, s_pending_try, link, bit, persist, persistMode,
                       armed, dispq, apply, wp, settle, mgr, routes, arrived>>
        /\ http' = http \/ http' = IdleHttp
        /\ mgr = "off" => provq' = provq
    BY <1>5 DEF SavePost, RequestPortal, request_portal, on_save, SaveUnheard, post_event, Posted,
                credVars, bootVars, linkVars, dispVars
  <2>2. EarlyInv' /\ BootInv' /\ PortalInv'
    BY <2>1, PairProps DEF EarlyInv, BootInv, PortalInv, has_creds, Early, Saving
  <2>3. PromoteInv' /\ ApplyInv'
    BY <2>1 DEF PromoteInv, ApplyInv, HasPromote, Staged
  <2> QED  BY <2>2, <2>3
<1>6. CASE FactoryReset
  <2>1. /\ UNCHANGED <<mirror, boot, s_pending_try, link, bit, persist, persistMode, armed,
                       dispq, apply>>
        /\ UNCHANGED provVars
        /\ boot = "run" /\ http'.pc = "frClear"
    BY <1>6 DEF FactoryReset, bootVars, linkVars, dispVars
  <2>2. EarlyInv' /\ BootInv' /\ PortalInv'
    BY <2>1 DEF EarlyInv, BootInv, PortalInv, provVars, Early, Saving
  <2>3. PromoteInv' /\ ApplyInv'
    BY <2>1 DEF PromoteInv, ApplyInv, HasPromote, provVars
  <2> QED  BY <2>2, <2>3
<1>7. ASSUME NEW c \in Creds, Reconfigure(c) PROVE ControlInv'
  <2>1. /\ UNCHANGED <<nvsUp, mirror, boot, s_pending_try, link, bit, persist, persistMode, armed,
                       dispq, apply>>
        /\ UNCHANGED provVars
        /\ boot = "run" /\ http'.pc = "arm"
    BY <1>7 DEF Reconfigure, bootVars, linkVars, dispVars
  <2>2. EarlyInv' /\ BootInv' /\ PortalInv'
    BY <2>1 DEF EarlyInv, BootInv, PortalInv, provVars, Early, Saving
  <2>3. PromoteInv' /\ ApplyInv'
    BY <2>1 DEF PromoteInv, ApplyInv, HasPromote, provVars
  <2> QED  BY <2>2, <2>3
<1>8. ASSUME NEW c \in Creds, SaveEnter(c) PROVE ControlInv'
  <2>1. /\ UNCHANGED <<nvs, nvsUp, mirror, boot, s_pending_try, link, bit, persist, persistMode,
                       armed, dispq, apply>>
        /\ UNCHANGED provVars
        /\ routes # {} /\ http'.pc = "save" /\ http'.cred = c
    BY <1>8 DEF SaveEnter, credVars, bootVars, linkVars, dispVars
  <2>2. mgr # "off"
    BY <2>1 DEF PortalInv
  <2>3. EarlyInv' /\ BootInv' /\ PortalInv'
    BY <2>1, <2>2 DEF EarlyInv, BootInv, PortalInv, has_creds, provVars, Early, Saving
  <2>4. PromoteInv' /\ ApplyInv'
    BY <2>1 DEF PromoteInv, ApplyInv, HasPromote, provVars, Staged
  <2> QED  BY <2>3, <2>4
<1> QED  BY <1>1, <1>2, <1>3, <1>4, <1>5, <1>6, <1>7, <1>8, FailControl DEF HttpStep, Failure

(* The provisioning manager.                                               *)
LEMMA PortalControl ==
    ASSUME TypeInv, ControlInv, Portal
    PROVE  ControlInv'
<1> USE DEF ControlInv
<1>1. /\ UNCHANGED <<nvs, nvsUp, mirror, boot, s_pending_try, link, bit, persist, persistMode,
                     armed, dispq, apply, http>>
      /\ mgr # "off" /\ mgr' # "off"
  BY DEF Portal, ManagerStep, DriveEntry, RegisterSave, RegisterRest, CommitActive, SaveSuccess,
         Ignore, SettleTimeout, Received, credVars, bootVars, linkVars, dispVars
<1>2. EarlyInv' /\ BootInv'
  BY <1>1 DEF EarlyInv, BootInv, has_creds, Early
<1>3. PortalInv'
  <2>1. CASE DriveEntry \/ RegisterSave \/ RegisterRest
    BY <1>1, <2>1 DEF DriveEntry, RegisterSave, RegisterRest, PortalInv
  <2>2. CASE CommitActive \/ SaveSuccess \/ Ignore \/ SettleTimeout
    BY <1>1, <2>2 DEF CommitActive, SaveSuccess, Ignore, SettleTimeout, PortalInv, Received
  <2> QED  BY <2>1, <2>2 DEF Portal, ManagerStep
<1>4. PromoteInv' /\ ApplyInv'
  BY <1>1 DEF PromoteInv, ApplyInv, HasPromote, Staged
<1> QED  BY <1>2, <1>3, <1>4

(* Every step keeps the control invariant.                                 *)
LEMMA NextControl == TypeInv /\ ControlInv /\ [Next]_vars => ControlInv'
<1> SUFFICES ASSUME TypeInv, ControlInv, [Next]_vars PROVE ControlInv'
  OBVIOUS
<1>1. CASE UNCHANGED vars
  <2>1. EarlyInv' /\ BootInv' /\ PortalInv'
    BY <1>1 DEF vars, provVars, ControlInv, EarlyInv, BootInv, PortalInv, Early, has_creds
  <2>2. PromoteInv' /\ ApplyInv'
    BY <1>1 DEF vars, provVars, ControlInv, PromoteInv, ApplyInv, HasPromote, Staged
  <2> QED  BY <2>1, <2>2 DEF ControlInv
<1>2. CASE DispRestart
  BY <1>2, ResetControl DEF DispRestart
<1>3. ASSUME NEW cold \in BOOLEAN, Fault(cold) PROVE ControlInv'
  BY <1>3, ResetControl DEF Fault
<1> QED  BY <1>1, <1>2, <1>3, FailControl, BootControl, EventControl, ApplyControl, HttpControl,
         PortalControl DEF Next, DispStep, ApplyStep, ApplyWorks, CredsArrived, Failure

-----------------------------------------------------------------------------
(* What may still become live, and what is behind it.                      *)
Proven == hist.trusted \cup hist.excused
Chosen == Pair(apply.ssid, apply.pass)
Unread == "promote" \in persist \/ ("promote" \in apply.todo /\ apply.pc \in {"next", "ssid"})

(* Every pair that a step may yet write or heal from is proven.            *)
TrustInv ==
    /\ has_creds => Live \in Proven
    /\ mirror.ssid # "" => mirror \in Proven
    /\ http.pc = "saveMirror" => Whole(http.cred) \in Proven
    /\ apply.pc = "mirror" => Chosen \in Proven
    /\ nvsUp /\ apply.pc = "commit" => Chosen \in Proven
    /\ nvsUp /\ apply.pc = "pass" => Pair(apply.ssid, nvs.pass_p) \in Proven
    /\ nvsUp /\ Unread /\ nvs.ssid_p # "" => Staged \in Proven

(* The mirror is the live pair, or about to become it.                     *)
MirrorInv ==
    /\ mirror = NoPair \/ mirror.ssid # ""
    /\ ~hist.staleMirror /\ has_creds /\ mirror # NoPair /\ ~MirrorOutstanding => mirror = Live
    /\ apply.pc = "mirror" /\ has_creds => Live = Chosen
    /\ http.pc = "saveMirror" /\ has_creds => Live = Whole(http.cred)

(* Nothing that could bring an erased credential back.                     *)
EraseInv ==
    /\ hist.wiped /\ ~hist.revived => /\ ~has_creds
                                      /\ http.pc = "frClear" \/ mirror = NoPair
                                      /\ nvsUp => ~s_pending_try /\ ~HasPromote
    /\ http.pc = "saveMirror" => ~hist.wiped

CredInv == TrustInv /\ MirrorInv /\ EraseInv

(* What a step leaves alone that has nothing to do with the credentials.   *)
Aside ==
    /\ nvs'.ssid = nvs.ssid /\ nvs'.pass = nvs.pass
    /\ nvs'.ssid_p = nvs.ssid_p /\ nvs'.pass_p = nvs.pass_p
    /\ UNCHANGED <<nvsUp, mirror, apply, persist>>
    /\ s_pending_try' => s_pending_try
    /\ http' = http \/ (http.pc \notin {"saveMirror", "frClear"} /\ http'.pc \notin {"saveMirror", "frClear"})
    /\ Proven \subseteq Proven'
    /\ hist'.wiped = hist.wiped /\ hist'.revived = hist.revived
    /\ hist'.staleMirror = hist.staleMirror

(* Such a step keeps the credentials' invariants.                          *)
LEMMA AsideCred ==
    ASSUME TypeInv, CredInv, Aside
    PROVE  CredInv'
<1>1. /\ Live' = Live /\ Staged' = Staged /\ (has_creds' <=> has_creds) /\ Chosen' = Chosen
      /\ (Unread' <=> Unread) /\ (HasPromote' <=> HasPromote)
      /\ apply' = apply /\ nvsUp' = nvsUp /\ mirror' = mirror
      /\ nvs'.ssid_p = nvs.ssid_p /\ nvs'.pass_p = nvs.pass_p
      /\ http'.pc = "saveMirror" => http' = http
      /\ http'.pc # "saveMirror" => http.pc # "saveMirror"
      /\ http.pc = "frClear" => http'.pc = "frClear"
  BY DEF Aside, Live, Staged, has_creds, Chosen, Unread, HasPromote
<1>2. Proven \subseteq Proven'
  BY DEF Aside
<1>3. TrustInv'
  <2>1. /\ Pair(apply'.ssid, nvs'.pass_p) = Pair(apply.ssid, nvs.pass_p)
        /\ http'.pc = "saveMirror" => http.pc = "saveMirror" /\ Whole(http'.cred) = Whole(http.cred)
    BY <1>1
  <2>2. \A p \in Proven : p \in Proven'
    BY <1>2
  <2> HIDE DEF Proven
  <2> QED  BY <1>1, <2>1, <2>2 DEF CredInv, TrustInv
<1>4. MirrorInv'
  BY <1>1 DEF CredInv, MirrorInv, MirrorOutstanding, Aside
<1>5. EraseInv'
  BY <1>1 DEF CredInv, EraseInv, Aside
<1> QED  BY <1>3, <1>4, <1>5 DEF CredInv

(* The steps of this kind.                                                 *)
LEMMA AsideSteps ==
    ASSUME TypeInv,
           \/ ConnectReturns \/ TryTimesOut \/ LostIp \/ ConnectFresh \/ ArmRestart \/ SavePost
           \/ RequestPortal \/ Portal
           \/ (\E timer \in Timers : TimerFires(timer)) \/ (\E c \in Creds : SaveEnter(c))
    PROVE  Aside
<1>0. hist \in HistType
  BY DEF TypeInv, WorkType
<1>1. CASE ConnectReturns \/ TryTimesOut \/ LostIp \/ Portal
  BY <1>1 DEF ConnectReturns, TryTimesOut, LostIp, Portal, Aside, credVars, bootVars, dispVars, Proven
<1>2. CASE ConnectFresh
  BY <1>0, <1>2 DEF ConnectFresh, Aside, credVars, dispVars, Proven, HistType
<1>3. CASE ArmRestart \/ SavePost
  <2>1. http'.pc = "idle" /\ http.pc \in {"arm", "frArm", "savePost"}
    BY <1>3, PairProps DEF ArmRestart, SavePost, RestartTimer
  <2>2. UNCHANGED <<nvs, nvsUp, mirror, apply, persist, s_pending_try, hist>>
    BY <1>3 DEF ArmRestart, SavePost, credVars, bootVars, dispVars
  <2> QED  BY <2>1, <2>2 DEF Aside, Proven
<1>4. CASE RequestPortal
  BY <1>4 DEF RequestPortal, Aside, credVars, bootVars, dispVars, Proven
<1>5. ASSUME NEW timer \in Timers, TimerFires(timer) PROVE Aside
  BY <1>0, <1>5 DEF TimerFires, Aside, credVars, bootVars, Proven, HistType
<1>6. ASSUME NEW c \in Creds, SaveEnter(c) PROVE Aside
  BY <1>6, PairProps DEF SaveEnter, Request, Aside, credVars, bootVars, dispVars, Proven
<1> QED  BY <1>1, <1>2, <1>3, <1>4, <1>5, <1>6

(* A new board has no credentials.                                         *)
LEMMA InitCred == Init => CredInv
<1> SUFFICES ASSUME Init PROVE CredInv
  OBVIOUS
<1>1. ~has_creds /\ mirror = NoPair /\ mirror.ssid = "" /\ http.pc = "idle" /\ apply.pc = "idle"
      /\ ~Unread /\ ~hist.wiped
  BY PairProps DEF Init, has_creds, Unread
<1> QED  BY <1>1 DEF CredInv, TrustInv, MirrorInv, EraseInv

(* A reset between any two steps: NVS is kept, the mirror if it was warm.  *)
LEMMA ResetCred ==
    ASSUME TypeInv, CredInv, NEW cold \in BOOLEAN, Reset(cold)
    PROVE  CredInv'
<1> USE DEF CredInv
<1>1. /\ nvs' = nvs /\ Live' = Live /\ (has_creds' <=> has_creds) /\ Proven' = Proven
      /\ apply'.pc = "idle" /\ http'.pc = "idle" /\ ~Unread' /\ ~HasPromote' /\ ~s_pending_try'
      /\ mirror' = (IF cold THEN NoPair ELSE mirror)
      /\ hist'.wiped = hist.wiped
      /\ hist'.staleMirror = (~cold /\ (hist.staleMirror \/ MirrorOutstanding))
      /\ hist'.revived = (hist.revived \/ (~cold /\ http.pc = "frClear"))
  BY ResetProps, PairProps DEF Live, has_creds, Proven, Unread, HasPromote
<1>2. TrustInv'
  BY <1>1, PairProps DEF TrustInv
<1>3. MirrorInv'
  BY <1>1 DEF MirrorInv, MirrorOutstanding
<1>4. EraseInv'
  BY <1>1 DEF EraseInv
<1> QED  BY <1>2, <1>3, <1>4

(* A failure leaves the credentials as they are.                           *)
LEMMA FailCred ==
    ASSUME TypeInv, ControlInv, CredInv, Failure
    PROVE  CredInv'
<1>0. hist \in HistType /\ apply \in ApplyType
  BY DEF TypeInv, WorkType
<1>1. CASE AutoinitUnread \/ RevertFails
  <2>1. UNCHANGED <<nvs, nvsUp, mirror, apply, persist, http>> /\ (s_pending_try' => s_pending_try)
    <3>1. CASE AutoinitUnread
      BY <3>1 DEF AutoinitUnread, credVars, dispVars
    <3>2. CASE RevertFails
      BY <3>2 DEF RevertFails, credVars, dispVars
    <3> QED  BY <1>1, <3>1, <3>2
  <2>2. \/ hist' = hist
        \/ hist' = [hist EXCEPT !.excuses = @ \cup {"unread"}]
    BY <1>1 DEF AutoinitUnread, RevertFails
  <2>3. /\ hist'.trusted = hist.trusted /\ hist'.excused = hist.excused
        /\ hist'.wiped = hist.wiped /\ hist'.revived = hist.revived
        /\ hist'.staleMirror = hist.staleMirror
    BY <1>0, <2>2 DEF HistType
  <2> QED  BY <2>1, <2>3, AsideCred DEF Aside, Proven
<1>2. CASE ArmRestartFails \/ SaveFails \/ ConnectFreshFails
  <2>1. /\ UNCHANGED <<nvs, nvsUp, mirror, apply, persist, s_pending_try>>
        /\ hist'.trusted = hist.trusted /\ hist'.excused = hist.excused
        /\ hist'.wiped = hist.wiped /\ hist'.revived = hist.revived
        /\ hist'.staleMirror = hist.staleMirror
    BY <1>0, <1>2 DEF ArmRestartFails, SaveFails, ConnectFreshFails, HistType, credVars, bootVars, dispVars
  <2>2. http' = http \/ (http' = IdleHttp /\ http.pc \in {"arm", "frArm", "save"})
    BY <1>2 DEF ArmRestartFails, SaveFails, ConnectFreshFails, RestartTimer
  <2> QED  BY <2>1, <2>2, AsideCred, PairProps DEF Aside, Proven
<1>3. CASE PromoteFails \/ CleanupFails
  <2>1. /\ UNCHANGED <<nvs, nvsUp, mirror, persist, s_pending_try, http>>
        /\ hist'.trusted = hist.trusted /\ hist'.excused = hist.excused
        /\ hist'.wiped = hist.wiped /\ hist'.revived = hist.revived
        /\ hist'.staleMirror = hist.staleMirror
    BY <1>0, <1>3 DEF PromoteFails, CleanupFails, HistType, credVars, bootVars, dispVars
  <2>2. /\ apply.pc # "mirror" /\ apply'.pc \in {"next", "erase2"}
        /\ apply'.todo \subseteq apply.todo
        /\ apply'.pc = "next" => "promote" \notin apply'.todo
    BY <1>0, <1>3, GiveUpProps DEF ControlInv, ApplyInv
  <2>3. (Unread' => Unread) /\ (HasPromote' => HasPromote)
    BY <2>1, <2>2 DEF Unread, HasPromote
  <2>4. /\ Proven' = Proven /\ Live' = Live /\ Staged' = Staged /\ (has_creds' <=> has_creds)
        /\ (MirrorOutstanding' <=> MirrorOutstanding)
    BY <2>1, <2>2 DEF Proven, Live, Staged, has_creds, MirrorOutstanding
  <2>5. TrustInv'
    BY <2>1, <2>2, <2>3, <2>4 DEF CredInv, TrustInv
  <2>6. MirrorInv'
    BY <2>1, <2>2, <2>4 DEF CredInv, MirrorInv
  <2>7. EraseInv'
    BY <2>1, <2>3, <2>4 DEF CredInv, EraseInv
  <2> QED  BY <2>5, <2>6, <2>7 DEF CredInv
<1> QED  BY <1>1, <1>2, <1>3 DEF Failure

(* The heal brings back the mirror's pair, which is proven; the seed       *)
(* writes the live one; the revert takes staged keys from a promotion that *)
(* may still read them.                                                    *)
LEMMA BootCred ==
    ASSUME TypeInv, ControlInv, CredInv, BootStep
    PROVE  CredInv'
<1> USE DEF CredInv
<1>0. nvs \in NvsType /\ hist \in HistType /\ mirror \in PairType
  BY DEF TypeInv, StoreType, WorkType
<1>1. ASSUME NEW corrupt \in BOOLEAN, NEW failed \in {"none", "decision", "action"},
            CredsBootInit(corrupt, failed)
     PROVE  CredInv'
  <2> DEFINE start == IF corrupt THEN ErasedNvs ELSE nvs
  <2>1. /\ UNCHANGED <<nvsUp, s_pending_try, persist, apply, http, hist>>
        /\ apply.pc = "idle" /\ http.pc = "idle" /\ ~s_pending_try /\ ~HasPromote
    BY <1>1 DEF CredsBootInit, dispVars, ControlInv, EarlyInv, Early, ApplyInv, HasPromote
  <2>2. ~Unread' /\ ~HasPromote' /\ Proven' = Proven /\ ~MirrorOutstanding'
    BY <2>1 DEF Unread, HasPromote, Proven, MirrorOutstanding
  <2>3. start \in NvsType /\ (start.ssid # "" => start = nvs)
    BY <1>0, PairProps
  <2>4. \/ /\ mirror.ssid # "" /\ mirror' = mirror
           /\ nvs' = [start EXCEPT !.ssid = mirror.ssid, !.pass = mirror.pass]
        \/ start.ssid # "" /\ nvs' = nvs /\ mirror' = Live /\ mirror.ssid = ""
        \/ start.ssid # "" /\ nvs' = nvs /\ mirror' = mirror
        \/ start.ssid = "" /\ nvs' = start /\ mirror' = mirror
    <3>1. PICK action : action = creds_boot_decide(start.ssid # "" /\ failed # "decision", mirror.ssid # "")
      OBVIOUS
    <3>2. /\ nvs' = IF action = "HEAL" /\ failed # "action"
                    THEN [start EXCEPT !.ssid = mirror.ssid, !.pass = mirror.pass] ELSE start
          /\ mirror' = IF action = "SEED" /\ failed # "action" THEN Pair(start.ssid, start.pass) ELSE mirror
      BY <1>1, <3>1 DEF CredsBootInit, rtc_mirror_write
    <3>3. /\ action = "HEAL" => mirror.ssid # ""
          /\ action = "SEED" => start.ssid # "" /\ mirror.ssid = ""
      BY <3>1 DEF creds_boot_decide
    <3> HIDE DEF start
    <3> QED  BY <2>3, <3>2, <3>3 DEF Live
  <2> HIDE DEF start
  <2>5. CASE /\ mirror.ssid # "" /\ mirror' = mirror
             /\ nvs' = [start EXCEPT !.ssid = mirror.ssid, !.pass = mirror.pass]
    <3>1. nvs'.ssid = mirror.ssid /\ nvs'.pass = mirror.pass
      BY <2>3, <2>5 DEF NvsType
    <3>2. Live' = mirror
      BY <1>0, <3>1 DEF Live, Pair, PairType
    <3>3. TrustInv'
      BY <2>1, <2>2, <2>5, <3>2 DEF TrustInv
    <3>4. MirrorInv'
      BY <2>1, <2>5, <3>2 DEF MirrorInv
    <3>5. EraseInv'
      BY <2>1, <2>5, PairProps DEF EraseInv
    <3> QED  BY <3>3, <3>4, <3>5
  <2>6. CASE start.ssid # "" /\ nvs' = nvs /\ mirror' = Live /\ mirror.ssid = ""
    <3>1. has_creds /\ has_creds' /\ Live' = Live /\ mirror'.ssid = nvs.ssid
      BY <2>3, <2>6, PairProps DEF has_creds, Live
    <3>2. TrustInv'
      BY <2>1, <2>2, <2>6, <3>1 DEF TrustInv
    <3>3. MirrorInv'
      BY <2>1, <2>6, <3>1 DEF MirrorInv, has_creds
    <3>4. EraseInv'
      BY <2>1, <2>6, <3>1 DEF EraseInv
    <3> QED  BY <3>2, <3>3, <3>4
  <2>7. CASE start.ssid # "" /\ nvs' = nvs /\ mirror' = mirror
    BY <2>1, <2>2, <2>7, AsideCred DEF Aside
  <2>8. CASE start.ssid = "" /\ nvs' = start /\ mirror' = mirror
    <3>1. ~has_creds'
      BY <2>8 DEF has_creds
    <3>2. TrustInv'
      BY <2>1, <2>2, <2>8, <3>1 DEF TrustInv
    <3>3. MirrorInv'
      BY <2>1, <2>8, <3>1 DEF MirrorInv
    <3>4. EraseInv'
      BY <2>1, <2>2, <2>8, <3>1 DEF EraseInv
    <3> QED  BY <3>2, <3>3, <3>4
  <2> QED  BY <2>4, <2>5, <2>6, <2>7, <2>8, ZenonT(60)
<1>2. CASE HealStamp
  <2>1. /\ UNCHANGED <<nvsUp, s_pending_try, persist, apply, http>>
        /\ apply.pc = "idle" /\ http.pc = "idle" /\ ~HasPromote /\ has_creds
        /\ mirror' = Live
        /\ hist'.trusted = hist.trusted /\ hist'.excused = hist.excused
        /\ hist'.wiped = hist.wiped /\ hist'.revived = hist.revived
    BY <1>0, <1>2 DEF HealStamp, dispVars, ControlInv, EarlyInv, Early, BootInv, ApplyInv, HasPromote,
                      rtc_mirror_write, Live, HistType
  <2>2. nvs'.ssid = nvs.ssid /\ nvs'.pass = nvs.pass
    BY <1>0, <1>2 DEF HealStamp, NvsType
  <2>3. Live' = Live /\ has_creds' /\ Proven' = Proven /\ ~Unread' /\ Live.ssid = nvs.ssid
    BY <2>1, <2>2, PairProps DEF Live, has_creds, Proven, Unread, HasPromote
  <2>4. TrustInv'
    BY <2>1, <2>3 DEF TrustInv
  <2>5. MirrorInv'
    BY <2>1, <2>3 DEF MirrorInv, has_creds
  <2>6. EraseInv'
    BY <2>1, <2>3 DEF EraseInv
  <2> QED  BY <2>4, <2>5, <2>6
<1>3. CASE Autoinit
  <2>1. /\ UNCHANGED <<nvs, nvsUp, mirror, persist, apply, http, hist>> /\ (s_pending_try' => has_creds)
    BY <1>3 DEF Autoinit, credVars, dispVars
  <2>2. /\ Live' = Live /\ Staged' = Staged /\ Chosen' = Chosen /\ (has_creds' <=> has_creds)
        /\ (Unread' <=> Unread) /\ (HasPromote' <=> HasPromote) /\ Proven' = Proven
        /\ (MirrorOutstanding' <=> MirrorOutstanding)
    BY <2>1 DEF Live, Staged, Chosen, has_creds, Unread, HasPromote, Proven, MirrorOutstanding
  <2>3. TrustInv' /\ MirrorInv'
    BY <2>1, <2>2 DEF TrustInv, MirrorInv
  <2>4. EraseInv'
    BY <2>1, <2>2 DEF EraseInv
  <2> QED  BY <2>3, <2>4
<1>4. CASE ConnectReturns \/ TryTimesOut
  BY <1>4, AsideSteps, AsideCred
<1>5. CASE Revert
  <2>1. UNCHANGED <<nvsUp, mirror, persist, apply, http>> /\ s_pending_try' \in {s_pending_try, FALSE}
    BY <1>5 DEF Revert, dispVars
  <2>2. /\ nvs'.ssid = nvs.ssid /\ nvs'.pass = nvs.pass
        /\ nvs'.ssid_p \in {nvs.ssid_p, ""}
        /\ hist'.wiped = hist.wiped /\ hist'.revived = hist.revived
        /\ hist'.staleMirror = hist.staleMirror
    BY <1>0, <1>5 DEF Revert, NvsType, HistType
  <2>3. Proven \subseteq Proven'
    BY <1>0, <1>5 DEF Revert, Proven, HistType
  <2>4. \/ nvs'.pass_p = nvs.pass_p
        \/ /\ nvs'.pass_p = "" /\ nvs'.ssid_p = nvs.ssid_p
           /\ PromoteOutstanding => {Pair(apply.ssid, ""), Pair(nvs.ssid_p, "")} \subseteq Proven'
    <3>1. CASE boot # "erase2"
      BY <1>0, <1>5, <3>1 DEF Revert, NvsType
    <3>2. CASE boot = "erase2"
      <4>1. nvs' = [nvs EXCEPT !.pass_p = ""]
        BY <1>5, <3>2 DEF Revert
      <4>2. PromoteOutstanding => hist' = [hist EXCEPT !.excused = @ \cup {Pair(apply.ssid, ""),
                                                                          Pair(nvs.ssid_p, "")}]
        BY <1>5, <3>2 DEF Revert
      <4>3. PromoteOutstanding => {Pair(apply.ssid, ""), Pair(nvs.ssid_p, "")} \subseteq hist'.excused
        BY <1>0, <4>2 DEF HistType
      <4> QED  BY <1>0, <4>1, <4>3 DEF NvsType, Proven
    <3> QED  BY <3>1, <3>2
  <2>5. /\ Live' = Live /\ Chosen' = Chosen /\ (has_creds' <=> has_creds)
        /\ (Unread' <=> Unread) /\ (HasPromote' <=> HasPromote)
        /\ (MirrorOutstanding' <=> MirrorOutstanding)
        /\ nvs'.ssid_p # "" => nvs.ssid_p # ""
        /\ nvs'.ssid_p # "" => Staged' \in {Staged, Pair(nvs.ssid_p, "")}
    <3>1. Live' = Live /\ Chosen' = Chosen /\ (has_creds' <=> has_creds)
          /\ (Unread' <=> Unread) /\ (HasPromote' <=> HasPromote)
          /\ (MirrorOutstanding' <=> MirrorOutstanding)
      BY <2>1, <2>2 DEF Live, Chosen, has_creds, Unread, HasPromote, MirrorOutstanding
    <3>2. nvs'.ssid_p # "" => nvs'.ssid_p = nvs.ssid_p
      BY <2>2
    <3>3. nvs'.ssid_p # "" => Staged' \in {Staged, Pair(nvs.ssid_p, "")}
      <4>1. nvs'.pass_p = nvs.pass_p \/ nvs'.pass_p = ""
        BY <2>4
      <4>2. nvs'.ssid_p # "" => Staged' = Pair(nvs.ssid_p, nvs'.pass_p)
        BY <3>2 DEF Staged
      <4> QED  BY <4>1, <4>2 DEF Staged
    <3> QED  BY <3>1, <3>2, <3>3
  <2>6. (apply.pc = "pass" => PromoteOutstanding) /\ (Unread => PromoteOutstanding)
    BY DEF ControlInv, ApplyInv, Promoting, PromoteOutstanding, Unread
  <2>7. TrustInv'
    <3>1. \A p \in Proven : p \in Proven'
      BY <2>3
    <3>2. nvsUp' /\ apply'.pc = "pass" => Pair(apply'.ssid, nvs'.pass_p) \in Proven'
      BY <2>1, <2>4, <2>6, <3>1 DEF TrustInv
    <3>3. nvsUp' /\ Unread' /\ nvs'.ssid_p # "" => Staged' \in Proven'
      <4>1. \/ nvs'.ssid_p # "" => Staged' = Staged
            \/ PromoteOutstanding => Pair(nvs.ssid_p, "") \in Proven'
        <5>1. CASE nvs'.pass_p = nvs.pass_p
          BY <2>2, <5>1 DEF Staged
        <5>2. CASE nvs'.pass_p # nvs.pass_p
          BY <2>4, <5>2
        <5> QED  BY <5>1, <5>2
      <4> HIDE DEF Proven, Staged
      <4> QED  BY <2>1, <2>5, <2>6, <3>1, <4>1 DEF TrustInv
    <3> HIDE DEF Proven, Staged, Live, Chosen
    <3> QED  BY <2>1, <2>5, <3>1, <3>2, <3>3 DEF TrustInv
  <2>8. MirrorInv'
    BY <2>1, <2>2, <2>5 DEF MirrorInv
  <2>9. EraseInv'
    <3>1. ~s_pending_try => ~s_pending_try'
      BY <2>1
    <3> QED  BY <2>1, <2>2, <2>5, <3>1 DEF EraseInv
  <2> QED  BY <2>7, <2>8, <2>9
<1>6. CASE RevertRestart
  BY <1>6, ResetCred DEF RevertRestart
<1> QED  BY <1>1, <1>2, <1>3, <1>4, <1>5, <1>6, FailCred DEF BootStep, Failure

(* An address proves the pair the driver has, which is the staged one      *)
(* while a try is pending; the dispatcher takes the decision over.         *)
LEMMA EventCred ==
    ASSUME TypeInv, ControlInv, CredInv, GotIp \/ DispPersist
    PROVE  CredInv'
<1> USE DEF CredInv
<1>0. hist \in HistType
  BY DEF TypeInv, WorkType
<1>1. CASE GotIp
  <2>1. /\ UNCHANGED <<nvs, nvsUp, mirror, http>> /\ ~s_pending_try' /\ ~apply.inline
    BY <1>1 DEF GotIp, credVars
  <2>2. /\ hist'.trusted = hist.trusted \cup {link.cfg} /\ hist'.excused = hist.excused
        /\ hist'.wiped = hist.wiped /\ hist'.revived = hist.revived
        /\ hist'.staleMirror = hist.staleMirror
    BY <1>0, <1>1 DEF GotIp, HistType
  <2>3. PICK decision \in Decisions : /\ PersistByTimer(decision) \/ PersistInline(decision)
                                      /\ decision = "promote" <=> s_pending_try
    BY <1>1 DEF GotIp, got_ip_persist_decide, Decisions
  <2>4. /\ \A p \in Proven : p \in Proven'
        /\ s_pending_try => Staged \in Proven'
        /\ Live' = Live /\ Staged' = Staged /\ (has_creds' <=> has_creds)
    BY <2>1, <2>2 DEF Proven, ControlInv, PromoteInv, Live, Staged, has_creds
  <2>5. /\ apply'.pc \in {apply.pc, "next"} /\ (apply'.pc # "next" => apply' = apply)
        /\ (Unread' => Unread \/ s_pending_try) /\ (HasPromote' => HasPromote \/ s_pending_try)
        /\ (apply.pc = "mirror" => apply' = apply)
    <3>1. CASE PersistByTimer(decision)
      BY <2>3, <3>1 DEF PersistByTimer, MergedDecision, Unread, HasPromote
    <3>2. CASE PersistInline(decision)
      <4>1. apply.pc = "idle"
        BY <2>1, <3>2 DEF PersistInline, ControlInv, ApplyInv
      <4>2. apply'.pc = "next" /\ apply'.todo = {decision} /\ persist' = persist
        BY <3>2 DEF PersistInline, IdleApply
      <4> QED  BY <2>3, <4>1, <4>2 DEF Unread, HasPromote
    <3> QED  BY <2>3, <3>1, <3>2
  <2>6. (MirrorOutstanding' <=> MirrorOutstanding) /\ (apply'.pc # "next" => Chosen' = Chosen)
    BY <2>1, <2>5 DEF MirrorOutstanding, Chosen
  <2> HIDE DEF Proven, Staged, Live
  <2>7. TrustInv'
    BY <2>1, <2>4, <2>5, <2>6 DEF TrustInv
  <2>8. MirrorInv'
    BY <2>1, <2>2, <2>4, <2>5, <2>6 DEF MirrorInv
  <2>9. EraseInv'
    BY <2>1, <2>2, <2>4, <2>5 DEF EraseInv
  <2> QED  BY <2>7, <2>8, <2>9
<1>2. CASE DispPersist
  <2>1. /\ UNCHANGED <<nvs, nvsUp, mirror, http, hist, s_pending_try>>
        /\ apply.pc = "idle" /\ apply'.pc = "next" /\ apply'.todo = persist /\ persist' = {}
    BY <1>2 DEF DispPersist, credVars, bootVars, IdleApply
  <2>2. /\ Proven' = Proven /\ Live' = Live /\ Staged' = Staged /\ (has_creds' <=> has_creds)
        /\ (Unread' => Unread) /\ (HasPromote' => HasPromote)
        /\ (MirrorOutstanding' <=> MirrorOutstanding)
    BY <2>1 DEF Proven, Live, Staged, has_creds, Unread, HasPromote, MirrorOutstanding
  <2>3. TrustInv'
    BY <2>1, <2>2 DEF TrustInv
  <2>4. MirrorInv'
    BY <2>1, <2>2 DEF MirrorInv
  <2>5. EraseInv'
    BY <2>1, <2>2 DEF EraseInv
  <2> QED  BY <2>3, <2>4, <2>5
<1> QED  BY <1>1, <1>2

(* bb_settings_wifi_pending_promote, from the first read to the last erase.*)
LEMMA ApplyCred ==
    ASSUME TypeInv, ControlInv, CredInv, ApplyWorks
    PROVE  CredInv'
<1> USE DEF CredInv
<1>0. nvs \in NvsType /\ hist \in HistType /\ apply \in ApplyType
  BY DEF TypeInv, StoreType, WorkType
<1>1. /\ UNCHANGED <<nvsUp, http, persist, s_pending_try>>
  BY DEF ApplyWorks, ApplyNext, PromoteReadSsid, PromoteReadPass, PromoteCommit, PromoteMirror,
         PromoteErase, MarkConnected, credVars, bootVars, dispVars
<1>2. Promoted.pc = "next" /\ "promote" \notin Promoted.todo
  BY <1>0 DEF Promoted, ApplyType
<1>3. "promote" \in apply.todo => "promote" \notin persist
  BY DEF ControlInv, PromoteInv
<1>4. apply.pc \in Promoting => "promote" \in apply.todo
  BY DEF ControlInv, ApplyInv
<1>5. apply.pc \in Promoting => http.pc \notin Saving
  BY <1>4 DEF ControlInv, PromoteInv, PortalInv, HasPromote
<1>6. ASSUME UNCHANGED <<nvs, mirror, hist>>, apply.pc # "mirror", apply'.pc # "mirror",
             Unread' => Unread, HasPromote' => HasPromote,
             nvsUp /\ apply'.pc = "commit" => Chosen' \in Proven,
             nvsUp /\ apply'.pc = "pass" => Pair(apply'.ssid, nvs.pass_p) \in Proven
      PROVE  CredInv'
  <2>1. /\ Proven' = Proven /\ Live' = Live /\ Staged' = Staged /\ (has_creds' <=> has_creds)
        /\ (MirrorOutstanding' <=> MirrorOutstanding)
    BY <1>1, <1>6 DEF Proven, Live, Staged, has_creds, MirrorOutstanding
  <2>2. TrustInv'
    BY <1>1, <1>6, <2>1 DEF TrustInv
  <2>3. MirrorInv'
    BY <1>1, <1>6, <2>1 DEF MirrorInv
  <2>4. EraseInv'
    BY <1>1, <1>6, <2>1 DEF EraseInv
  <2> QED  BY <2>2, <2>3, <2>4
<1>7. CASE ApplyNext
  <2>1. UNCHANGED <<nvs, mirror, hist>> /\ apply.pc = "next" /\ apply'.pc \in {"idle", "ssid", "mark"}
        /\ apply'.todo = apply.todo
    <3>1. UNCHANGED <<nvs, mirror, hist>> /\ apply.pc = "next"
      BY <1>7 DEF ApplyNext, credVars
    <3>2. apply'.pc \in {"idle", "ssid", "mark"} /\ apply'.todo = apply.todo
      <4>1. CASE apply.todo = {}
        BY <1>7, <4>1, PairProps DEF ApplyNext, ApplyDone
      <4>2. CASE apply.todo # {}
        BY <1>0, <1>7, <4>2 DEF ApplyNext, ApplyType
      <4> QED  BY <4>1, <4>2
    <3> QED  BY <3>1, <3>2
  <2>2. (Unread' => Unread) /\ (HasPromote' => HasPromote)
    BY <1>1, <2>1 DEF Unread, HasPromote
  <2> QED  BY <1>6, <2>1, <2>2
<1>8. CASE PromoteReadSsid
  <2>1. UNCHANGED <<nvs, mirror, hist>> /\ apply.pc = "ssid" /\ apply'.pc \in {"next", "pass"}
        /\ (apply'.pc = "pass" => nvsUp /\ nvs.ssid_p # "" /\ apply'.ssid = nvs.ssid_p
                                  /\ apply'.todo = apply.todo)
        /\ (apply'.pc = "next" => "promote" \notin apply'.todo)
    BY <1>0, <1>2, <1>8 DEF PromoteReadSsid, credVars, ApplyType
  <2>2. "promote" \in apply.todo
    BY <1>4, <2>1 DEF Promoting
  <2>3. Unread /\ HasPromote /\ (Unread' => Unread) /\ (HasPromote' => HasPromote)
    BY <2>1, <2>2 DEF Unread, HasPromote
  <2>4. nvsUp /\ apply'.pc = "pass" => Pair(apply'.ssid, nvs.pass_p) \in Proven
    BY <2>1, <2>3 DEF TrustInv, Staged
  <2> QED  BY <1>6, <2>1, <2>3, <2>4
<1>9. CASE PromoteReadPass
  <2>1. UNCHANGED <<nvs, mirror, hist>> /\ apply.pc = "pass" /\ apply'.pc = "commit"
        /\ (nvsUp => apply'.pass = nvs.pass_p) /\ apply'.ssid = apply.ssid /\ apply'.todo = apply.todo
    BY <1>0, <1>9 DEF PromoteReadPass, credVars, ApplyType
  <2>2. (Unread' => Unread) /\ (HasPromote' => HasPromote)
    BY <1>1, <2>1 DEF Unread, HasPromote
  <2>3. nvsUp => Chosen' \in Proven
    BY <2>1 DEF TrustInv, Chosen
  <2> QED  BY <1>6, <2>1, <2>2, <2>3
<1>10. CASE PromoteCommit
  <2>0. apply.pc = "commit" /\ UNCHANGED <<mirror, hist>> /\ "promote" \in apply.todo
    BY <1>4, <1>10 DEF PromoteCommit, Promoting
  <2>1. CASE ~nvsUp
    <3>1. nvs' = nvs /\ apply' = Promoted
      BY <1>10, <2>1 DEF PromoteCommit
    <3>2. (Unread' => Unread) /\ (HasPromote' => HasPromote)
      BY <1>1, <1>2, <3>1 DEF Unread, HasPromote
    <3> QED  BY <1>2, <1>6, <2>0, <2>1, <3>1, <3>2
  <2>2. CASE nvsUp
    <3>1. PICK r : r = [nvs EXCEPT !.ssid = apply.ssid, !.pass = apply.pass,
                                   !.try = FALSE, !.provisioned = TRUE]
      OBVIOUS
    <3>2. nvs' = r /\ r.ssid = apply.ssid /\ r.pass = apply.pass
      BY <1>0, <1>10, <2>2, <3>1 DEF PromoteCommit, NvsType
    <3>3. apply'.pc = "mirror" /\ apply'.ssid = apply.ssid /\ apply'.pass = apply.pass
          /\ apply'.todo = apply.todo
      BY <1>0, <1>10, <2>2 DEF PromoteCommit, ApplyType
    <3>4. /\ Live' = Chosen /\ Chosen' = Chosen /\ Chosen \in Proven /\ Proven' = Proven
          /\ ~Unread'
      BY <1>1, <1>3, <2>0, <2>2, <3>2, <3>3 DEF Live, Chosen, TrustInv, Proven, Unread
    <3>5. http.pc # "saveMirror" /\ HasPromote
      BY <1>5, <2>0 DEF Promoting, Saving, HasPromote
    <3>6. TrustInv'
      BY <1>1, <2>0, <3>3, <3>4, <3>5 DEF TrustInv
    <3>7. MirrorInv'
      BY <1>1, <2>0, <3>3, <3>4, <3>5 DEF MirrorInv, MirrorOutstanding
    <3>8. EraseInv'
      BY <1>1, <2>0, <2>2, <3>5 DEF EraseInv
    <3> QED  BY <3>6, <3>7, <3>8
  <2> QED  BY <2>1, <2>2
<1>11. CASE PromoteMirror
  <2>1. /\ apply.pc = "mirror" /\ nvs' = nvs /\ mirror' = Chosen
        /\ apply'.pc = "erase1" /\ apply'.todo = apply.todo
    BY <1>0, <1>11 DEF PromoteMirror, rtc_mirror_write, Chosen, ApplyType
  <2>2. /\ hist'.trusted = hist.trusted /\ hist'.excused = hist.excused
        /\ hist'.wiped = hist.wiped /\ ~hist'.staleMirror
        /\ hist'.revived = (hist.revived \/ hist.wiped)
    BY <1>0, <1>11 DEF PromoteMirror, HistType
  <2>3. "promote" \in apply.todo /\ http.pc # "saveMirror" /\ Chosen.ssid # ""
    <3>1. Chosen.ssid = apply.ssid
      BY PairProps DEF Chosen
    <3>2. apply.ssid # ""
      BY <2>1 DEF ControlInv, ApplyInv
    <3> QED  BY <1>4, <1>5, <2>1, <3>1, <3>2 DEF Promoting, Saving
  <2>4. /\ Live' = Live /\ (has_creds' <=> has_creds) /\ Proven' = Proven /\ ~Unread'
        /\ ~MirrorOutstanding'
    BY <1>1, <1>3, <2>1, <2>2, <2>3 DEF Live, has_creds, Proven, Unread, MirrorOutstanding
  <2>5. TrustInv'
    BY <1>1, <2>1, <2>3, <2>4 DEF TrustInv
  <2>6. MirrorInv'
    BY <1>1, <2>1, <2>3, <2>4 DEF MirrorInv
  <2>7. EraseInv'
    BY <1>1, <2>2, <2>3 DEF EraseInv
  <2> QED  BY <2>5, <2>6, <2>7
<1>12. CASE PromoteErase
  <2>1. /\ apply.pc \in {"erase1", "erase2"} /\ UNCHANGED <<mirror, hist>>
        /\ apply.pc = "erase1" => apply'.pc = "erase2" /\ apply'.todo = apply.todo
        /\ apply.pc = "erase2" => apply' = Promoted
    BY <1>0, <1>12 DEF PromoteErase, ApplyType
  <2>2. nvs'.ssid = nvs.ssid /\ nvs'.pass = nvs.pass
    BY <1>0, <1>12 DEF PromoteErase, NvsType
  <2>3. "promote" \in apply.todo /\ apply'.pc \in {"erase2", "next"} /\ ~Unread'
    BY <1>1, <1>2, <1>3, <1>4, <2>1 DEF Promoting, Unread
  <2>4. /\ Live' = Live /\ (has_creds' <=> has_creds) /\ Proven' = Proven
        /\ (MirrorOutstanding' <=> MirrorOutstanding) /\ HasPromote
    BY <1>1, <2>1, <2>2, <2>3 DEF Live, has_creds, Proven, MirrorOutstanding, HasPromote
  <2>5. TrustInv'
    BY <1>1, <2>1, <2>3, <2>4 DEF TrustInv
  <2>6. MirrorInv'
    BY <1>1, <2>1, <2>3, <2>4 DEF MirrorInv
  <2>7. EraseInv'
    BY <1>1, <2>1, <2>4 DEF EraseInv
  <2> QED  BY <2>5, <2>6, <2>7
<1>13. CASE MarkConnected
  <2>1. /\ apply.pc = "mark" /\ apply'.pc = "next" /\ UNCHANGED <<mirror, hist>>
        /\ apply'.todo = apply.todo \ {"mark_connected"}
    BY <1>0, <1>13 DEF MarkConnected, ApplyType
  <2>2. /\ nvs'.ssid = nvs.ssid /\ nvs'.pass = nvs.pass
        /\ nvs'.ssid_p = nvs.ssid_p /\ nvs'.pass_p = nvs.pass_p
    BY <1>0, <1>13 DEF MarkConnected, NvsType
  <2>3. /\ Live' = Live /\ Staged' = Staged /\ (has_creds' <=> has_creds) /\ Proven' = Proven
        /\ (MirrorOutstanding' <=> MirrorOutstanding) /\ (HasPromote' => HasPromote)
    BY <1>1, <2>1, <2>2 DEF Live, Staged, has_creds, Proven, MirrorOutstanding, HasPromote
  <2>4. "promote" \notin apply.todo /\ (Unread' => Unread)
    BY <1>1, <2>1 DEF Unread, ControlInv, ApplyInv
  <2>5. TrustInv'
    BY <1>1, <2>1, <2>2, <2>3, <2>4 DEF TrustInv
  <2>6. MirrorInv'
    BY <1>1, <2>1, <2>3 DEF MirrorInv
  <2>7. EraseInv'
    BY <1>1, <2>1, <2>3 DEF EraseInv
  <2> QED  BY <2>5, <2>6, <2>7
<1> QED  BY <1>7, <1>8, <1>9, <1>10, <1>11, <1>12, <1>13 DEF ApplyWorks

(* The save, the factory reset and the staging of a reconfigure.           *)
LEMMA HttpCred ==
    ASSUME TypeInv, ControlInv, CredInv,
           FactoryResetMirror \/ SaveCommit \/ SaveMirror \/ FactoryReset
           \/ (\E c \in Creds : Reconfigure(c))
    PROVE  CredInv'
<1> USE DEF CredInv
<1>0. nvs \in NvsType /\ hist \in HistType /\ http \in HttpType /\ nvsUp \in BOOLEAN
  BY DEF TypeInv, StoreType, WorkType
<1>1. http.pc \in Saving => ~HasPromote /\ apply.pc \notin Promoting /\ http.cred # ""
  BY PairProps DEF ControlInv, PortalInv, PromoteInv, ApplyInv, HasPromote
<1>2. CASE FactoryResetMirror
  <2>1. /\ UNCHANGED <<nvs, nvsUp, persist, apply, s_pending_try>> /\ mirror' = NoPair
        /\ http.pc = "frClear" /\ http'.pc = "frArm"
        /\ hist'.trusted = hist.trusted /\ hist'.excused = hist.excused
        /\ hist'.wiped = hist.wiped /\ hist'.revived = hist.revived
    BY <1>0, <1>2 DEF FactoryResetMirror, bootVars, dispVars, HttpType, HistType
  <2>2. /\ Live' = Live /\ Staged' = Staged /\ (has_creds' <=> has_creds) /\ Proven' = Proven
        /\ (Unread' <=> Unread) /\ (HasPromote' <=> HasPromote) /\ Chosen' = Chosen
    BY <2>1 DEF Live, Staged, has_creds, Proven, Unread, HasPromote, Chosen
  <2>3. TrustInv'
    BY <2>1, <2>2, PairProps DEF TrustInv
  <2>4. MirrorInv'
    BY <2>1, <2>2 DEF MirrorInv
  <2>5. EraseInv'
    BY <2>1, <2>2 DEF EraseInv
  <2> QED  BY <2>3, <2>4, <2>5
<1>3. CASE SaveCommit
  <2>0. http.pc = "save" /\ UNCHANGED <<nvsUp, mirror, persist, apply, s_pending_try>>
    BY <1>3 DEF SaveCommit, bootVars, dispVars
  <2>1. CASE ~nvsUp
    <3>1. UNCHANGED <<nvs, hist>> /\ http'.pc = "idle"
      BY <1>3, <2>1, PairProps DEF SaveCommit
    <3> QED  BY <2>0, <3>1, AsideCred DEF Aside, Proven
  <2>2. CASE nvsUp
    <3>1. /\ nvs'.ssid = http.cred /\ nvs'.pass = http.cred
          /\ http'.pc = "saveMirror" /\ http'.cred = http.cred
      BY <1>0, <1>3, <2>2 DEF SaveCommit, wifi_set, NvsType, HttpType
    <3>2. PICK r : r = [hist EXCEPT !.trusted = @ \cup {Whole(http.cred)}, !.wiped = FALSE, !.revived = FALSE]
      OBVIOUS
    <3>3. hist' = r /\ r.trusted = hist.trusted \cup {Whole(http.cred)} /\ r.excused = hist.excused
          /\ r.wiped = FALSE
      BY <1>0, <1>3, <2>2, <3>2 DEF SaveCommit, HistType
    <3>4. /\ Live' = Whole(http.cred) /\ Whole(http'.cred) \in Proven' /\ Live' \in Proven'
          /\ \A p \in Proven : p \in Proven'
      BY <3>1, <3>3 DEF Live, Whole, Proven
    <3>5. apply'.pc \notin Promoting /\ ~Unread'
      BY <1>1, <2>0 DEF Saving, Unread, HasPromote
    <3> HIDE DEF Proven, Live, Whole
    <3>6. TrustInv'
      BY <2>0, <3>1, <3>4, <3>5 DEF TrustInv, Promoting
    <3>7. MirrorInv'
      BY <2>0, <3>1, <3>4, <3>5 DEF MirrorInv, MirrorOutstanding, Promoting
    <3>8. EraseInv'
      BY <3>3 DEF EraseInv
    <3> QED  BY <3>6, <3>7, <3>8
  <2> QED  BY <1>0, <2>1, <2>2
<1>4. CASE SaveMirror
  <2>1. /\ UNCHANGED <<nvs, nvsUp, persist, apply, s_pending_try>> /\ mirror' = Whole(http.cred)
        /\ http.pc = "saveMirror" /\ http'.pc = "savePost"
        /\ hist'.trusted = hist.trusted /\ hist'.excused = hist.excused
        /\ hist'.wiped = hist.wiped
    BY <1>0, <1>4 DEF SaveMirror, rtc_mirror_write, Whole, bootVars, dispVars, HttpType, HistType
  <2>2. /\ Live' = Live /\ Staged' = Staged /\ (has_creds' <=> has_creds) /\ Proven' = Proven
        /\ (Unread' <=> Unread) /\ apply'.pc \notin Promoting
    BY <1>1, <2>1 DEF Live, Staged, has_creds, Proven, Unread, Saving
  <2>3. mirror'.ssid # ""
    <3>1. Whole(http.cred).ssid = http.cred
      BY PairProps DEF Whole
    <3> QED  BY <1>1, <2>1, <3>1 DEF Saving
  <2>4. TrustInv'
    BY <2>1, <2>2 DEF TrustInv, Promoting
  <2>5. MirrorInv'
    BY <2>1, <2>2, <2>3 DEF MirrorInv, Promoting
  <2>6. EraseInv'
    BY <2>1 DEF EraseInv
  <2> QED  BY <2>4, <2>5, <2>6
<1>5. CASE FactoryReset
  <2>1. /\ UNCHANGED <<mirror, persist, apply, s_pending_try>> /\ nvs'.ssid = "" /\ ~nvsUp'
        /\ http'.pc = "frClear"
        /\ hist'.trusted = hist.trusted /\ hist'.excused = hist.excused
    BY <1>0, <1>5, PairProps DEF FactoryReset, bootVars, dispVars, HistType
  <2>2. ~has_creds' /\ Proven' = Proven /\ Chosen' = Chosen
    BY <2>1 DEF has_creds, Proven, Chosen
  <2>3. TrustInv'
    BY <2>1, <2>2 DEF TrustInv
  <2>4. MirrorInv'
    BY <2>1, <2>2 DEF MirrorInv
  <2>5. EraseInv'
    BY <2>1, <2>2 DEF EraseInv
  <2> QED  BY <2>3, <2>4, <2>5
<1>6. ASSUME NEW c \in Creds, Reconfigure(c) PROVE CredInv'
  <2>1. /\ UNCHANGED <<nvsUp, mirror, persist, apply, s_pending_try>> /\ http'.pc = "arm"
        /\ http.pc = "idle"
    BY <1>6, PairProps DEF Reconfigure, Request, bootVars, dispVars
  <2>2. /\ nvs'.ssid = nvs.ssid /\ nvs'.pass = nvs.pass /\ nvs'.ssid_p = c /\ nvs'.pass_p = c
    BY <1>0, <1>6 DEF Reconfigure, pending_set, NvsType
  <2>3. /\ hist'.wiped = hist.wiped /\ hist'.revived = hist.revived
        /\ hist'.staleMirror = hist.staleMirror
        /\ hist'.trusted = hist.trusted /\ hist.excused \subseteq hist'.excused
        /\ PromoteOutstanding => {Whole(c), Pair(apply.ssid, c)} \subseteq hist'.excused
    BY <1>0, <1>6 DEF Reconfigure, HistType
  <2>4. /\ Live' = Live /\ Staged' = Whole(c) /\ (has_creds' <=> has_creds) /\ Chosen' = Chosen
        /\ (Unread' <=> Unread) /\ (HasPromote' <=> HasPromote)
        /\ \A p \in Proven : p \in Proven'
        /\ PromoteOutstanding => Whole(c) \in Proven' /\ Pair(apply'.ssid, nvs'.pass_p) \in Proven'
    BY <2>1, <2>2, <2>3 DEF Live, Staged, Whole, has_creds, Chosen, Unread, HasPromote, Proven
  <2>5. (Unread => PromoteOutstanding) /\ (apply.pc = "pass" => PromoteOutstanding)
    BY DEF Unread, PromoteOutstanding, ControlInv, ApplyInv, Promoting
  <2> HIDE DEF Proven, Live, Whole, Staged, Chosen
  <2>6. TrustInv'
    BY <2>1, <2>4, <2>5 DEF TrustInv
  <2>7. MirrorInv'
    BY <2>1, <2>3, <2>4 DEF MirrorInv, MirrorOutstanding
  <2>8. EraseInv'
    BY <2>1, <2>3, <2>4 DEF EraseInv
  <2> QED  BY <2>6, <2>7, <2>8
<1> QED  BY <1>2, <1>3, <1>4, <1>5, <1>6

(* Every step keeps what the credentials' invariants say.                  *)
LEMMA NextCred == TypeInv /\ ControlInv /\ CredInv /\ [Next]_vars => CredInv'
<1> SUFFICES ASSUME TypeInv, ControlInv, CredInv, [Next]_vars PROVE CredInv'
  OBVIOUS
<1>1. CASE UNCHANGED vars
  BY <1>1, AsideCred DEF vars, Aside, Proven
<1>2. CASE DispRestart
  BY <1>2, ResetCred DEF DispRestart
<1>3. ASSUME NEW cold \in BOOLEAN, Fault(cold) PROVE CredInv'
  BY <1>3, ResetCred DEF Fault
<1>4. CASE HttpStep
  BY <1>4, AsideSteps, AsideCred, HttpCred, FailCred DEF HttpStep, Failure
<1>5. CASE \/ LostIp \/ ConnectFresh \/ RequestPortal \/ Portal
           \/ (\E timer \in Timers : TimerFires(timer)) \/ (\E c \in Creds : SaveEnter(c))
  BY <1>5, AsideSteps, AsideCred
<1> QED  BY <1>1, <1>2, <1>3, <1>4, <1>5, FailCred, BootCred, EventCred, ApplyCred, HttpCred
         DEF Next, DispStep, ApplyStep, ApplyWorks, CredsArrived, Failure

-----------------------------------------------------------------------------
(* Somebody still knows of a pair the driver was not given.                *)
SaveQueued == Contains(provq, "SAVE_SUCCESS")
Hidden == hist.unheard \/ "unread" \in hist.excuses
Heard == \/ link.cfg = Live \/ saveLost \/ hist.unheard \/ "unread" \in hist.excuses
         \/ http.pc \in {"saveMirror", "savePost"} \/ SaveQueued \/ settle \/ arrived

DriverInv == mgr # "off" /\ has_creds /\ nvsUp => Heard

(* The manager hands the news on: event, settle timer, CREDS_ARRIVED.      *)
LEMMA PortalDriver ==
    ASSUME TypeInv, ControlInv, DriverInv, Portal
    PROVE  DriverInv'
<1>1. UNCHANGED <<nvs, nvsUp, link, http, hist>> /\ mgr # "off"
  BY DEF Portal, ManagerStep, DriveEntry, RegisterSave, RegisterRest, CommitActive, SaveSuccess,
         Ignore, SettleTimeout, Received, credVars, linkVars
<1>2. Live' = Live /\ (has_creds' <=> has_creds)
  BY <1>1 DEF Live, has_creds
<1>3. SUFFICES ASSUME Heard PROVE Heard'
  BY <1>1, <1>2 DEF DriverInv
<1>4. provq \in Seq(ProvEvents)
  BY DEF TypeInv, PortalType
<1>5. ASSUME provq # << >>, provq' = Tail(provq), Head(provq) # "SAVE_SUCCESS"
      PROVE  SaveQueued => SaveQueued'
  BY <1>4, <1>5, TailProps DEF SaveQueued
<1>6. CASE DriveEntry
  <2>1. Head(provq) # "SAVE_SUCCESS" /\ provq # << >> /\ provq' = Tail(provq)
        /\ UNCHANGED <<settle, arrived, saveLost>>
    BY <1>6 DEF DriveEntry, Received, EntryEvents
  <2> QED  BY <1>1, <1>2, <1>3, <1>5, <2>1 DEF Heard
<1>7. CASE RegisterSave \/ RegisterRest \/ CommitActive
  <2>1. UNCHANGED <<settle, provq, arrived, saveLost>>
    BY <1>7 DEF RegisterSave, RegisterRest, CommitActive
  <2> QED  BY <1>1, <1>2, <1>3, <2>1 DEF Heard, SaveQueued
<1>8. CASE SaveSuccess \/ SettleTimeout
  BY <1>8 DEF SaveSuccess, SettleTimeout, Heard
<1>9. CASE Ignore
  <2>1. PICK e \in ProvEvents : /\ Received(e) /\ Unmatched(e) /\ provq' = Tail(provq)
                                /\ saveLost' = (saveLost \/ (e = "SAVE_SUCCESS" /\ wp = "IDLE"))
                                /\ UNCHANGED <<settle, arrived>>
    BY <1>9 DEF Ignore
  <2>2. CASE e = "SAVE_SUCCESS"
    <3>1. saveLost' \/ settle'
      BY <2>1, <2>2 DEF Unmatched, ControlInv, PortalInv, TypeInv, PortalType
    <3> QED  BY <3>1 DEF Heard
  <2>3. CASE e # "SAVE_SUCCESS"
    <3>1. SaveQueued => SaveQueued'
      BY <1>5, <2>1, <2>3 DEF Received
    <3>2. saveLost => saveLost'
      BY <2>1
    <3> QED  BY <1>1, <1>2, <1>3, <2>1, <3>1, <3>2 DEF Heard
  <2> QED  BY <2>2, <2>3
<1> QED  BY <1>6, <1>7, <1>8, <1>9 DEF Portal, ManagerStep

(* No other step loses it, and no promotion changes the live pair behind   *)
(* an open portal.                                                         *)
LEMMA NextDriver == TypeInv /\ ControlInv /\ DriverInv /\ [Next]_vars => DriverInv'
<1> SUFFICES ASSUME TypeInv, ControlInv, DriverInv, [Next]_vars, mgr' # "off", has_creds', nvsUp'
             PROVE  Heard'
  BY DEF DriverInv
<1>0. /\ nvs \in NvsType /\ hist \in HistType /\ link \in LinkType /\ http \in HttpType
      /\ provq \in Seq(ProvEvents)
  BY DEF TypeInv, StoreType, WorkType, PortalType
<1>1. ASSUME nvs'.ssid = nvs.ssid, nvs'.pass = nvs.pass, nvsUp' = nvsUp, link'.cfg = link.cfg,
             Hidden => Hidden', http.pc \in {"saveMirror", "savePost"} => http'.pc \in {"saveMirror", "savePost"},
             UNCHANGED <<provq, mgr, settle, arrived, saveLost>>
      PROVE  Heard'
  <2>1. Live' = Live /\ has_creds
    BY <1>1 DEF Live, has_creds
  <2>2. Heard
    BY <1>1, <2>1 DEF DriverInv
  <2> QED  BY <1>1, <2>1, <2>2 DEF Heard, Hidden, SaveQueued
<1>2. CASE UNCHANGED vars
  BY <1>1, <1>2 DEF vars, provVars, Hidden
<1>3. ASSUME NEW cold \in BOOLEAN, Reset(cold) PROVE FALSE
  BY <1>3, ResetProps
<1>18. ASSUME Failure PROVE Heard'
  <2>1. CASE AutoinitUnread
    BY <1>0, <2>1 DEF AutoinitUnread, HistType, Heard
  <2>2. CASE ConnectFreshFails
    BY <1>0, <2>2 DEF ConnectFreshFails, HistType, Heard
  <2>3. CASE RevertFails \/ CleanupFails
    BY <1>1, <2>3 DEF RevertFails, CleanupFails, credVars, linkVars, provVars, Hidden
  <2>4. CASE PromoteFails
    <3>1. Hidden => Hidden'
      BY <1>0, <2>4 DEF PromoteFails, HistType, Hidden
    <3> QED  BY <1>1, <2>4, <3>1 DEF PromoteFails, credVars, linkVars, provVars
  <2>5. CASE ArmRestartFails
    <3>1. (Hidden => Hidden') /\ http.pc \notin {"saveMirror", "savePost"}
      BY <1>0, <2>5 DEF ArmRestartFails, RestartTimer, HistType, Hidden
    <3> QED  BY <1>1, <2>5, <3>1 DEF ArmRestartFails, credVars, linkVars, provVars
  <2>6. CASE SaveFails
    BY <1>1, <2>6 DEF SaveFails, credVars, linkVars, provVars, Hidden
  <2> QED  BY <1>18, <2>1, <2>2, <2>3, <2>4, <2>5, <2>6 DEF Failure
<1>4. CASE BootStep
  <2>1. CASE \E corrupt \in BOOLEAN, failed \in {"none", "decision", "action"} :
                CredsBootInit(corrupt, failed)
    BY <2>1 DEF CredsBootInit, ControlInv, EarlyInv, Early, provVars
  <2>2. CASE HealStamp
    BY <2>2 DEF HealStamp, ControlInv, EarlyInv, Early, provVars
  <2>3. CASE Autoinit
    <3>1. has_creds /\ UNCHANGED provVars /\ mgr = "off"
      BY <2>3 DEF Autoinit, credVars, has_creds, ControlInv, EarlyInv, Early
    <3> QED  BY <3>1 DEF provVars
  <2>4. CASE ConnectReturns \/ TryTimesOut
    BY <1>1, <2>4 DEF ConnectReturns, TryTimesOut, credVars, linkVars, provVars, Hidden
  <2>5. CASE Revert
    <3>1. nvs'.ssid = nvs.ssid /\ nvs'.pass = nvs.pass /\ link'.cfg = link.cfg
      BY <1>0, <2>5 DEF Revert, NvsType, LinkType
    <3>2. (Hidden => Hidden')
      BY <1>0, <2>5 DEF Revert, HistType, Hidden
    <3> QED  BY <1>1, <2>5, <3>1, <3>2 DEF Revert, provVars
  <2>6. CASE RevertRestart
    BY <1>3, <2>6 DEF RevertRestart
  <2> QED  BY <1>4, <2>1, <2>2, <2>3, <2>4, <2>5, <2>6, <1>18 DEF BootStep, Failure
<1>5. CASE HttpStep
  <2>1. CASE ArmRestart
    BY <1>1, <2>1 DEF ArmRestart, RestartTimer, credVars, linkVars, provVars, Hidden
  <2>2. CASE FactoryResetMirror
    <3>1. (Hidden => Hidden')
      BY <1>0, <2>2 DEF FactoryResetMirror, HistType, Hidden
    <3> QED  BY <1>1, <2>2, <3>1 DEF FactoryResetMirror, linkVars, provVars
  <2>3. CASE SaveCommit
    <3>1. CASE nvsUp
      BY <1>0, <2>3, <3>1 DEF SaveCommit, HttpType, Heard
    <3>2. CASE ~nvsUp
      BY <2>3, <3>2 DEF SaveCommit
    <3> QED  BY <3>1, <3>2
  <2>4. CASE SaveMirror
    BY <1>0, <2>4 DEF SaveMirror, HttpType, Heard
  <2>5. CASE SavePost
    <3>1. CASE on_save
      <4>1. CASE Posted("SAVE_SUCCESS")
        <5>1. provq' = Append(provq, "SAVE_SUCCESS")
          BY <3>1, <4>1 DEF on_save, post_event, Posted
        <5> QED  BY <1>0, <5>1, AppendProps DEF SaveQueued, Heard, ProvEvents
      <4>2. CASE ~Posted("SAVE_SUCCESS")
        BY <3>1, <4>2 DEF on_save, Heard
      <4> QED  BY <4>1, <4>2
    <3>2. CASE SaveUnheard
      BY <3>2 DEF SaveUnheard, Heard
    <3> QED  BY <2>5, <3>1, <3>2 DEF SavePost
  <2> QED  BY <1>5, <2>1, <2>2, <2>3, <2>4, <2>5, <1>18 DEF HttpStep, Failure
<1>6. CASE DispStep
  BY <1>1, <1>3, <1>6 DEF DispStep, DispPersist, DispRestart, credVars, linkVars, provVars, Hidden
<1>7. CASE ApplyWorks
  <2>1. UNCHANGED <<nvsUp, link, http>> /\ UNCHANGED provVars
    BY <1>7 DEF ApplyWorks, ApplyNext, PromoteReadSsid, PromoteReadPass, PromoteCommit, PromoteMirror,
                PromoteErase, MarkConnected, credVars, linkVars
  <2>2. ~PromoteCommit
    BY <2>1 DEF PromoteCommit, ControlInv, ApplyInv, Promoting, PromoteInv, HasPromote, provVars
  <2>3. nvs'.ssid = nvs.ssid /\ nvs'.pass = nvs.pass
    BY <1>0, <1>7, <2>2 DEF ApplyWorks, ApplyNext, PromoteReadSsid, PromoteReadPass, PromoteMirror,
                PromoteErase, MarkConnected, credVars, NvsType
  <2>4. (Hidden => Hidden')
    BY <1>0, <1>7, <2>2 DEF ApplyWorks, ApplyNext, PromoteReadSsid, PromoteReadPass, PromoteMirror,
                PromoteErase, MarkConnected, HistType, Hidden
  <2> QED  BY <1>1, <2>1, <2>3, <2>4 DEF provVars
<1>8. CASE Portal
  BY <1>8, PortalDriver DEF DriverInv
<1>9. CASE ConnectFresh
  <2>1. CASE boot = "parked"
    <3>1. link'.cfg = Live /\ nvs' = nvs
      BY <1>9, <2>1 DEF ConnectFresh, credVars
    <3>2. link'.cfg = Live'
      BY <3>1 DEF Live
    <3> QED  BY <3>2 DEF Heard
  <2>2. CASE boot # "parked"
    <3>1. hist'.unheard
      BY <1>0, <1>9, <2>2 DEF ConnectFresh, HistType
    <3> QED  BY <3>1 DEF Heard
  <2> QED  BY <2>1, <2>2
<1>10. ASSUME NEW timer \in Timers, TimerFires(timer) PROVE Heard'
  <2>1. (Hidden => Hidden')
    BY <1>0, <1>10 DEF TimerFires, HistType, Hidden
  <2> QED  BY <1>1, <1>10, <2>1 DEF TimerFires, credVars, linkVars, provVars
<1>11. ASSUME NEW c \in Creds, Reconfigure(c) PROVE Heard'
  <2>1. nvs'.ssid = nvs.ssid /\ nvs'.pass = nvs.pass
    BY <1>0, <1>11 DEF Reconfigure, pending_set, NvsType
  <2>2. (Hidden => Hidden') /\ http.pc = "idle"
    BY <1>0, <1>11, PairProps DEF Reconfigure, Request, HistType, Hidden
  <2> QED  BY <1>1, <1>11, <2>1, <2>2 DEF Reconfigure, linkVars, provVars
<1>12. ASSUME NEW c \in Creds, SaveEnter(c) PROVE Heard'
  <2>1. http.pc = "idle"
    BY <1>12, PairProps DEF SaveEnter, Request
  <2> QED  BY <1>1, <1>12, <2>1 DEF SaveEnter, credVars, linkVars, provVars, Hidden
<1>13. CASE FactoryReset
  BY <1>13 DEF FactoryReset
<1>14. CASE RequestPortal
  <2>1. UNCHANGED <<nvs, nvsUp, link, hist, http, mgr, settle, arrived, saveLost>>
    BY <1>14 DEF RequestPortal, request_portal, credVars, linkVars
  <2>2. SaveQueued => SaveQueued'
    <3>1. provq' = provq \/ provq' = Append(provq, "USER_REQUESTED")
      BY <1>14 DEF RequestPortal, request_portal, post_event
    <3>2. "USER_REQUESTED" \in ProvEvents
      BY DEF ProvEvents, EntryEvents
    <3>3. Contains(provq, "SAVE_SUCCESS") => Contains(Append(provq, "USER_REQUESTED"), "SAVE_SUCCESS")
      BY <1>0, <3>2, AppendProps
    <3> QED  BY <3>1, <3>3 DEF SaveQueued
  <2>3. Live' = Live /\ (has_creds' <=> has_creds)
    BY <2>1 DEF Live, has_creds
  <2> QED  BY <2>1, <2>2, <2>3 DEF DriverInv, Heard
<1>15. CASE GotIp
  <2>1. link'.cfg = link.cfg /\ (Hidden => Hidden')
    BY <1>0, <1>15 DEF GotIp, LinkType, HistType, Hidden
  <2> QED  BY <1>1, <1>15, <2>1 DEF GotIp, credVars, provVars
<1>16. CASE LostIp
  <2>1. link'.cfg = link.cfg
    BY <1>0, <1>16 DEF LostIp, LinkType
  <2> QED  BY <1>1, <1>16, <2>1 DEF LostIp, credVars, provVars, Hidden
<1>17. ASSUME NEW cold \in BOOLEAN, Fault(cold) PROVE Heard'
  BY <1>3, <1>17 DEF Fault
<1> QED  BY <1>2, <1>4, <1>5, <1>6, <1>7, <1>8, <1>9, <1>10, <1>11, <1>12, <1>13, <1>14, <1>15,
            <1>16, <1>17, <1>18 DEF Next, ApplyStep, ApplyWorks, CredsArrived, Failure

-----------------------------------------------------------------------------
IInv == TypeInv /\ ControlInv /\ CredInv /\ DriverInv

(* The inductive invariant holds in every reachable state.                 *)
LEMMA AlwaysIInv == Spec => []IInv
<1>1. Init => IInv
  <2>1. Init => DriverInv
    BY DEF Init, ProvInit, DriverInv
  <2> QED  BY <2>1, InitType, InitControl, InitCred DEF IInv
<1>2. IInv /\ [Next]_vars => IInv'
  BY NextType, NextControl, NextCred, NextDriver DEF IInv
<1> QED  BY <1>1, <1>2, PTL DEF Spec

(* The queues keep their bounds and every record its fields.               *)
THEOREM TypeCorrect == Spec => []TypeOK
<1>1. TypeInv => TypeOK
  <2> SUFFICES ASSUME TypeInv PROVE TypeOK
    OBVIOUS
  <2>1. ProvTypeOK
    BY DEF TypeInv, PortalType, ProvTypeOK
  <2>2. HistTypeOK
    BY DEF TypeInv, WorkType, HistType, PairType, HistTypeOK
  <2>3. apply.pc \in {"idle", "next", "ssid", "pass", "commit", "mirror", "erase1", "erase2", "mark"}
        /\ http.pc \in {"idle", "save", "saveMirror", "savePost", "arm", "frClear", "frArm"}
    BY DEF TypeInv, WorkType, ApplyType, HttpType
  <2> QED  BY <2>1, <2>2, <2>3 DEF TypeInv, StoreType, TimerType, TypeOK, NvsType, PairType,
                                   LinkType, BootType
<1>2. IInv => TypeInv
  BY DEF IInv
<1> QED  BY <1>1, <1>2, AlwaysIInv, PTL

(* Whatever order of requests, addresses, deferred writes, resets and      *)
(* power failures: bb_settings_wifi_pending_promote and the boot's heal    *)
(* make live only what was saved on the portal or obtained an address, or  *)
(* what was staged or discarded under a promotion.                         *)
THEOREM LiveIsProvenHolds == Spec => []LiveIsProven
<1>1. IInv => LiveIsProven
  BY DEF IInv, CredInv, TrustInv, LiveIsProven, Proven
<1> QED  BY <1>1, AlwaysIInv, PTL

(* bb_settings_wifi_rtc_mirror_write follows every commit, so at rest the  *)
(* mirror holds the live pair unless a reset fell in between.              *)
THEOREM MirrorFollowsLiveHolds == Spec => []MirrorFollowsLive
<1>1. IInv => MirrorFollowsLive
  <2> SUFFICES ASSUME IInv, Quiet, has_creds, mirror # NoPair, ~hist.staleMirror
               PROVE  mirror = Live
    BY DEF MirrorFollowsLive
  <2>1. ~MirrorOutstanding
    BY PairProps DEF Quiet, MirrorOutstanding
  <2> QED  BY <2>1 DEF IInv, CredInv, MirrorInv
<1> QED  BY <1>1, AlwaysIInv, PTL

(* factory_reset_apply: what it erased stays erased until the next save,   *)
(* unless the mirror survived it.                                          *)
THEOREM ErasedStaysErasedHolds == Spec => []ErasedStaysErased
<1>1. IInv => ErasedStaysErased
  BY DEF IInv, CredInv, EraseInv, ErasedStaysErased
<1> QED  BY <1>1, AlwaysIInv, PTL

(* prov_save_handler's credentials are the ones the driver is given, once  *)
(* the portal has closed and the reconnect manager has heard of them.      *)
THEOREM SavedCredsReachDriverHolds == Spec => []SavedCredsReachDriver
<1>1. IInv => SavedCredsReachDriver
  <2> SUFFICES ASSUME IInv, PortalAtRest, has_creds, nvsUp
               PROVE  link.cfg = Live \/ saveLost \/ hist.unheard \/ "unread" \in hist.excuses
    BY DEF SavedCredsReachDriver
  <2>1. mgr # "off" /\ ~settle /\ ~arrived /\ http.pc = "idle" /\ provq = << >>
    BY PairProps DEF PortalAtRest
  <2>2. ~SaveQueued
    BY <2>1, EmptyProps DEF SaveQueued
  <2> QED  BY <2>1, <2>2 DEF IInv, DriverInv, Heard
<1> QED  BY <1>1, AlwaysIInv, PTL

=============================================================================
