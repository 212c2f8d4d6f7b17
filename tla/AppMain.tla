------------------------------ MODULE AppMain ------------------------------
(***************************************************************************)
(* main/main.c: app_main starts the parts of the program one after the     *)
(* other and then loops.  It checks the NVS partition (where the WiFi      *)
(* driver keeps its calibration), starts the I/O driver, sets up the gate  *)
(* driver and prints its settings, starts the WiFi station and waits for   *)
(* it, and starts the TCP client.  An ESP_ERROR_CHECK that fails aborts,   *)
(* which restarts the chip; only the flash survives that.                  *)
(*                                                                         *)
(* The station is WifiStation.  What the tasks do that are started here is *)
(* in GateController and ProcessData.                                      *)
(***************************************************************************)
EXTENDS WifiStation

CONSTANTS
  NUM_GATES,    \* entries of gate_setting_array, 2
  BootFaults    \* "nvs" (an NVS partition that cannot be used as it is),
                \* "heap" (an allocation or a check fails, anywhere)

ASSUME AppAssumption ==
  /\ NUM_GATES \in Nat \ {0}
  /\ BootFaults \subseteq {"nvs", "heap"}

VARIABLES
  app_pc,               \* where app_main is
  nvs,                  \* the flash: what nvs_flash_init finds there
  nvs_ready,            \* NVS is initialised
  state,                \* driver_state_t of the gate driver
  gate,                 \* entries of the gate array; 0 when it is NULL
  gate_driver_setting,  \* entries of the settings array; 0 when it is NULL
  num_gate              \* gate_driver_instance.num_gate

gateSetup == <<state, gate, gate_driver_setting, num_gate>>
bootVars == <<app_pc, nvs, nvs_ready, gateSetup>>
appVars == <<bootVars, wifiVars>>

(* "no_free_pages" and "new_version" are cured by erasing the partition. *)
NvsState == {"ok", "no_free_pages", "new_version", "broken"}

AppPcs == {"nvs_init", "netif", "io_start", "gate_init", "gate_print",
           "gate_start", "wifi_nvs", "wifi", "tcp_start", "loop"}

AppTypeOK ==
  /\ WifiTypeOK
  /\ app_pc \in AppPcs
  /\ nvs \in NvsState
  /\ nvs_ready \in BOOLEAN
  /\ state \in {"BOOT_UP", "INIT", "READY"}
  /\ gate \in {0, NUM_GATES}
  /\ gate_driver_setting \in {0, NUM_GATES}
  /\ num_gate \in {0, NUM_GATES}

AppInit ==
  /\ WifiInit
  /\ app_pc = "nvs_init"
  /\ nvs \in IF "nvs" \in BootFaults THEN NvsState ELSE {"ok"}
  /\ nvs_ready = FALSE
  /\ state = "BOOT_UP"
  /\ gate = 0
  /\ gate_driver_setting = 0
  /\ num_gate = 0

AppRestart ==
  /\ WifiRestart
  /\ app_pc' = "nvs_init"
  /\ nvs' = nvs
  /\ nvs_ready' = FALSE
  /\ state' = "BOOT_UP"
  /\ gate' = 0
  /\ gate_driver_setting' = 0
  /\ num_gate' = 0

GoesOnAt(pc, next) == app_pc = pc /\ app_pc' = next

-----------------------------------------------------------------------------
(* app_main, step by step *)

(* Slip: the result is not checked. *)
app_nvs_init_unchecked ==
  /\ GoesOnAt("nvs_init", "netif")
  /\ nvs_ready' = (nvs = "ok")
  /\ UNCHANGED <<nvs, gateSetup, wifiVars>>

(* ESP_ERROR_CHECK(nvs_flash_init()): anything but success restarts. *)
app_nvs_init ==
  \/ /\ nvs = "ok"
     /\ GoesOnAt("nvs_init", "netif")
     /\ nvs_ready' = TRUE
     /\ UNCHANGED <<nvs, gateSetup, wifiVars>>
  \/ /\ nvs # "ok"
     /\ app_pc = "nvs_init"
     /\ AppRestart

(* The network interface layer and the event loop, then io_scan_task. *)
app_start_io ==
  /\ GoesOnAt("netif", "io_start") \/ GoesOnAt("io_start", "gate_init")
  /\ UNCHANGED <<nvs, nvs_ready, gateSetup, wifiVars>>

(* Slip: num_gate is assigned before the allocations are looked at. *)
gate_driver_init_count_first ==
  /\ GoesOnAt("gate_init", "gate_print")
  /\ gate' \in {NUM_GATES, 0}
  /\ gate_driver_setting' \in {NUM_GATES, 0}
  /\ num_gate' = NUM_GATES
  /\ state' = IF 0 \in {gate', gate_driver_setting'} THEN "INIT" ELSE "READY"
  /\ UNCHANGED <<nvs, nvs_ready, wifiVars>>

(* gate_driver_init: two arrays, either of which may be refused; then the  *)
(* driver stays in INIT with no gates, and app_main does not look at the   *)
(* result.  uninit_gate_driver has nothing to free here.                   *)
gate_driver_init ==
  /\ GoesOnAt("gate_init", "gate_print")
  /\ \E g, s \in {NUM_GATES, 0} :
       /\ 0 \in {g, s} => "heap" \in BootFaults
       /\ gate' = g
       /\ gate_driver_setting' = s
       /\ IF 0 \in {g, s}
            THEN state' = "INIT" /\ UNCHANGED num_gate
            ELSE state' = "READY" /\ num_gate' = NUM_GATES
  /\ UNCHANGED <<nvs, nvs_ready, wifiVars>>

(* The settings of num_gate gates are printed, READY or not. *)
print_gate_driver_setting ==
  /\ GoesOnAt("gate_print", "gate_start")
  /\ UNCHANGED <<nvs, nvs_ready, gateSetup, wifiVars>>

(* The rest of gate_driver_start_task: the gate queue and the gate task.   *)
app_start_gates ==
  /\ GoesOnAt("gate_start", "wifi_nvs")
  /\ UNCHANGED <<nvs, nvs_ready, gateSetup, wifiVars>>

(* start_wifi_station initialises NVS again.  Once it is initialised that  *)
(* is a success; a partition that has no room or is of another version     *)
(* would be erased and tried again.                                        *)
app_wifi_nvs ==
  /\ GoesOnAt("wifi_nvs", "wifi")
  /\ nvs_ready \/ nvs # "broken"
  /\ nvs' = IF nvs_ready THEN nvs ELSE "ok"
  /\ nvs_ready' = TRUE
  /\ UNCHANGED <<gateSetup, wifiVars>>

(* wifi_init_sta, which returns with an address or without. *)
app_wifi ==
  /\ app_pc = "wifi"
  /\ \/ /\ wifi_start \/ wifi_wait
        /\ UNCHANGED bootVars
     \/ /\ main_pc = "on"
        /\ app_pc' = "tcp_start"
        /\ UNCHANGED <<nvs, nvs_ready, gateSetup, wifiVars>>

(* tcp_client_start_task; what follows is app_process_data_loop. *)
app_start_tcp ==
  /\ GoesOnAt("tcp_start", "loop")
  /\ UNCHANGED <<nvs, nvs_ready, gateSetup, wifiVars>>

app_main ==
  \/ app_nvs_init
  \/ app_start_io
  \/ gate_driver_init
  \/ print_gate_driver_setting
  \/ app_start_gates
  \/ app_wifi_nvs
  \/ app_wifi
  \/ app_start_tcp

Station == station /\ UNCHANGED bootVars

(* A check of app_main or of any other task fails. *)
AppAborts ==
  /\ "heap" \in BootFaults
  /\ AppRestart

AppNext == app_main \/ Station \/ AppAborts

AppSpec == AppInit /\ [][AppNext]_appVars

(* app_main and the event loop's task run, and the driver answers every    *)
(* connect.  Nothing says that an association gets an address, or that a   *)
(* connection lasts, or is lost.                                           *)
AppFairSpec ==
  /\ AppSpec
  /\ WF_appVars(app_main)
  /\ WF_appVars(ConnectEnds /\ UNCHANGED bootVars)
  /\ WF_appVars(event_handler /\ UNCHANGED bootVars)

-----------------------------------------------------------------------------
(* Properties *)

(* The erase-and-retry of start_wifi_station never runs: app_main has      *)
(* initialised NVS with success before, or has restarted.  A partition     *)
(* that an erase would cure makes the board restart for good.              *)
NvsIsNeverErased == [][nvs' = nvs]_appVars

(* What print_gate_driver_setting walks is there: after allocations that   *)
(* failed there is nothing to print.                                       *)
SettingsPrintable ==
  app_pc = "gate_print" =>
    num_gate <= gate /\ num_gate <= gate_driver_setting

(* A boot that gets past NVS reaches the loop that takes the host's        *)
(* commands, connected or given up, unless the chip restarts.  The wait    *)
(* for the station has no timeout, and one thing keeps app_main in it for  *)
(* good: an association that neither gets an address nor is lost, which    *)
(* sets neither bit.                                                       *)
BootReachesLoop ==
  []<>(link # "associated") =>
    (app_pc = "netif" ~> app_pc \in {"loop", "nvs_init"})
=============================================================================
