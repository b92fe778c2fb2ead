------------------------------ MODULE WifiProv ------------------------------
(***************************************************************************)
(* The provisioning portal: the bb_fsm table of wifi_prov_policy.c, its    *)
(* task and queue (wifi_prov_mgr.c) and the routes and SoftAP they bring   *)
(* up and down (bb_wifi_prov.c).                                           *)
(*                                                                         *)
(* The manager task runs an entry as up to three hops (SoftAP, routes,     *)
(* commit to ACTIVE); the HTTP server task serves POST /save as soon as    *)
(* that route is registered, which is before the entry has finished.  The  *)
(* SoftAP and the HTTP server are external and may refuse.                 *)
(***************************************************************************)
EXTENDS Naturals, Sequences

CONSTANTS ProvQueueLen      \* BB_WIFI_PROV_QUEUE_DEPTH

ASSUME ProvQueueAssumption == ProvQueueLen \in Nat \ {0}

VARIABLES
    wp,             \* s_ctx.fsm: IDLE, ACTIVE or CLOSING
    settle,         \* the settle timer is armed
    mgr,            \* the manager task: off, idle, or inside an entry
    provq,          \* s_queue
    ap,             \* the SoftAP is up
    routes,         \* the portal's routes that httpd holds
    s_prov_active,  \* what wifi_prov_mgr_is_active() answers
    arrived,        \* EV_CREDS_ARRIVED posted to the reconnect manager
    saveLost        \* history: the last save's event reached no row

provVars == <<wp, settle, mgr, provq, ap, routes, s_prov_active, arrived, saveLost>>

EntryEvents == {"FIRST_BOOT", "DEPROV_ANOMALY", "USER_REQUESTED"}
ProvEvents == EntryEvents \cup {"SAVE_SUCCESS"}
PortalRoutes == {"save", "wildcard"}

ProvTypeOK ==
    /\ wp \in {"IDLE", "ACTIVE", "CLOSING"}
    /\ mgr \in {"off", "idle", "hop2", "register", "hop3"}
    /\ provq \in Seq(ProvEvents) /\ Len(provq) <= ProvQueueLen
    /\ routes \subseteq PortalRoutes
    /\ {settle, ap, s_prov_active, arrived, saveLost} \subseteq BOOLEAN

(* Static zero-initialisation: the state after every reset.                *)
ProvReset ==
    /\ wp' = "IDLE" /\ settle' = FALSE /\ mgr' = "off" /\ provq' = << >>
    /\ ap' = FALSE /\ routes' = {} /\ s_prov_active' = FALSE
    /\ arrived' = FALSE /\ saveLost' = FALSE

ProvInit ==
    /\ wp = "IDLE" /\ settle = FALSE /\ mgr = "off" /\ provq = << >>
    /\ ap = FALSE /\ routes = {} /\ s_prov_active = FALSE
    /\ arrived = FALSE /\ saveLost = FALSE

(* post_event: no queue, or a full one, and the event is gone.             *)
Posted(event) == mgr # "off" /\ Len(provq) < ProvQueueLen
post_event(event) ==
    provq' = IF Posted(event) THEN Append(provq, event) ELSE provq

-----------------------------------------------------------------------------
(* bb_wifi_prov_autoinit with wifi_prov_entry_decision: stored credentials *)
(* mean no portal and no manager.  The queue is new, so the post fits.     *)
wifi_prov_autoinit(has_creds, provisioned) ==
    /\ mgr = "off"
    /\ ~has_creds
    /\ mgr' = "idle"
    /\ provq' = <<IF provisioned THEN "DEPROV_ANOMALY" ELSE "FIRST_BOOT">>
    /\ UNCHANGED <<wp, settle, ap, routes, s_prov_active, arrived, saveLost>>

request_portal ==
    /\ post_event("USER_REQUESTED")
    /\ UNCHANGED <<wp, settle, mgr, ap, routes, s_prov_active, arrived, saveLost>>

(* The end of prov_save_handler: wifi_prov_mgr_on_save.                    *)
on_save ==
    /\ post_event("SAVE_SUCCESS")
    /\ saveLost' = (saveLost \/ ~Posted("SAVE_SUCCESS"))
    /\ UNCHANGED <<wp, settle, mgr, ap, routes, s_prov_active, arrived>>

(* ... or the consumer's save callback failed, and the handler returned    *)
(* before it.                                                              *)
SaveUnheard ==
    /\ saveLost' = TRUE
    /\ UNCHANGED <<wp, settle, mgr, provq, ap, routes, s_prov_active, arrived>>

-----------------------------------------------------------------------------
(* prov_mgr_task, one event at a time.                                     *)
Received(event) == mgr = "idle" /\ provq # << >> /\ Head(provq) = event

(* act_try_ap_start, hop 1 of wifi_prov_fsm_drive_entry.                   *)
DriveEntry ==
    /\ \E e \in EntryEvents : Received(e)
    /\ wp = "IDLE"
    /\ provq' = Tail(provq)
    /\ \/ ap' = TRUE /\ mgr' = "hop2"
       \/ UNCHANGED <<ap, mgr>>                    \* ap_start_fn failed
    /\ UNCHANGED <<wp, settle, routes, s_prov_active, arrived, saveLost>>

(* act_try_prov_start up to the first route.  httpd refuses a handler it   *)
(* already holds; the failure stops the SoftAP and ends the entry.         *)
RegisterSave ==
    /\ mgr = "hop2"
    /\ \/ "save" \notin routes /\ routes' = routes \cup {"save"}
          /\ mgr' = "register" /\ UNCHANGED ap
       \/ mgr' = "idle" /\ ap' = FALSE /\ UNCHANGED routes
    /\ UNCHANGED <<wp, settle, provq, s_prov_active, arrived, saveLost>>

(* The rest of bb_wifi_prov_start: scan route, the consumer's extra        *)
(* routes, the asset wildcard.  A failure returns with /save registered.   *)
RegisterRest ==
    /\ mgr = "register"
    /\ \/ "wildcard" \notin routes /\ routes' = routes \cup {"wildcard"}
          /\ mgr' = "hop3" /\ UNCHANGED ap
       \/ mgr' = "idle" /\ ap' = FALSE /\ UNCHANGED routes
    /\ UNCHANGED <<wp, settle, provq, s_prov_active, arrived, saveLost>>

(* Hop 3 and wp_active_on_entry.                                           *)
CommitActive ==
    /\ mgr = "hop3"
    /\ wp' = "ACTIVE" /\ s_prov_active' = TRUE /\ mgr' = "idle"
    /\ UNCHANGED <<settle, provq, ap, routes, arrived, saveLost>>

(* EV_SAVE_SUCCESS moves ACTIVE to CLOSING, whose entry hook arms the      *)
(* settle timer.                                                           *)
\* Mutant: the settle timer is armed by the row's action, and the
\* transition clears it.
SaveSuccess_TimerCleared ==
    /\ Received("SAVE_SUCCESS") /\ wp = "ACTIVE"
    /\ provq' = Tail(provq) /\ wp' = "CLOSING" /\ settle' = FALSE
    /\ UNCHANGED <<mgr, ap, routes, s_prov_active, arrived, saveLost>>

SaveSuccess ==
    /\ Received("SAVE_SUCCESS") /\ wp = "ACTIVE"
    /\ provq' = Tail(provq) /\ wp' = "CLOSING" /\ settle' = TRUE
    /\ UNCHANGED <<mgr, ap, routes, s_prov_active, arrived, saveLost>>

(* Events without a row, and the re-entry row that only logs.              *)
Unmatched(e) ==
    IF e = "SAVE_SUCCESS" THEN wp # "ACTIVE" ELSE wp # "IDLE"

Ignore ==
    \E e \in ProvEvents :
        /\ Received(e) /\ Unmatched(e)
        /\ provq' = Tail(provq)
        /\ saveLost' = (saveLost \/ (e = "SAVE_SUCCESS" /\ wp = "IDLE"))
        /\ UNCHANGED <<wp, settle, mgr, ap, routes, s_prov_active, arrived>>

(* The receive timed out: act_close_portal, then wp_idle_on_entry.         *)
SettleTimeout ==
    /\ mgr = "idle" /\ provq = << >> /\ settle
    /\ routes' = {} /\ ap' = FALSE /\ arrived' = TRUE
    /\ wp' = "IDLE" /\ s_prov_active' = FALSE /\ settle' = FALSE
    /\ UNCHANGED <<mgr, provq, saveLost>>

ManagerStep ==
    \/ DriveEntry \/ RegisterSave \/ RegisterRest \/ CommitActive
    \/ SaveSuccess \/ Ignore \/ SettleTimeout

=============================================================================
