--------------------------- MODULE AppMainProofs ---------------------------
(***************************************************************************)
(* Theorems about the start of the application and the WiFi station, for   *)
(* every number of retries and of gates and every set of faults: from the  *)
(* flash as it may be found, through restarts at any step.                 *)
(***************************************************************************)
EXTENDS AppMain, TLAPS, SequenceTheorems

(* How the driver, the events on their way to the handler and the          *)
(* handler's count fit together: there is one cause for a connect at any   *)
(* time, and none once the handler has given up.                           *)
StationShape ==
  /\ main_pc = "start" => /\ link = "off" /\ events = <<>> /\ bits = {}
                          /\ s_retry_num = 0 /\ attempts = 0
  /\ link = "off" => main_pc = "start"
  /\ link \in {"connecting", "associated"} => events = <<>>
  /\ link = "up" => events = <<>> \/ events = <<"GOT_IP">>
  /\ link = "idle" =>
       \/ events = <<"STA_START">> /\ attempts = 0 /\ s_retry_num = 0
       \/ events = <<"STA_DISCONNECTED">>
       \/ events = <<"GOT_IP", "STA_DISCONNECTED">>
       \/ events = <<>> /\ "FAIL" \in bits
  /\ attempts = s_retry_num \/ attempts = s_retry_num + 1
  /\ "FAIL" \in bits => /\ s_retry_num = MAXIMUM_RETRY
                        /\ link = "idle" /\ events = <<>>

(* How far app_main is and what it has set up.                             *)
BootShape ==
  /\ app_pc # "nvs_init" => nvs_ready
  /\ app_pc \in {"nvs_init", "netif", "io_start", "gate_init"} =>
       num_gate = 0
  /\ num_gate # 0 => /\ gate = num_gate
                     /\ gate_driver_setting = num_gate

WifiInv == WifiTypeOK /\ StationShape

AppInv == AppTypeOK /\ StationShape /\ BootShape

-----------------------------------------------------------------------------
(* The station *)

(* Events go in at the end of the queue and come out at the front.         *)
LEMMA EventQueue ==
  /\ <<>> \in Seq(Event) /\ Len(<<>>) = 0
  /\ \A e \in Event : /\ <<e>> \in Seq(Event) /\ Len(<<e>>) = 1
                      /\ Append(<<>>, e) = <<e>>
                      /\ Head(<<e>>) = e /\ Tail(<<e>>) = <<>>
                      /\ <<e>> # <<>>
  /\ \A e, f \in Event : /\ <<e, f>> \in Seq(Event) /\ Len(<<e, f>>) = 2
                         /\ Append(<<e>>, f) = <<e, f>>
                         /\ Head(<<e, f>>) = e /\ Tail(<<e, f>>) = <<f>>
                         /\ <<e, f>> # <<>>
<1>1. <<>> \in Seq(Event) /\ Len(<<>>) = 0
  OBVIOUS
<1>2. ASSUME NEW e \in Event
      PROVE  <<e>> \in Seq(Event) /\ Len(<<e>>) = 1 /\ <<e>>[1] = e
  OBVIOUS
<1>3. ASSUME NEW e \in Event
      PROVE  Head(<<e>>) = e /\ <<e>> # <<>>
  OBVIOUS
<1>4. ASSUME NEW e \in Event
      PROVE  Tail(<<e>>) = <<>>
  OBVIOUS
<1>5. ASSUME NEW e \in Event
      PROVE  Append(<<>>, e) = <<e>>
  OBVIOUS
<1>6. ASSUME NEW e \in Event, NEW f \in Event
      PROVE  <<e, f>> \in Seq(Event) /\ Len(<<e, f>>) = 2
  OBVIOUS
<1>7. ASSUME NEW e \in Event, NEW f \in Event
      PROVE  Head(<<e, f>>) = e /\ <<e, f>> # <<>>
  OBVIOUS
<1>8. ASSUME NEW e \in Event, NEW f \in Event
      PROVE  Tail(<<e, f>>) = <<f>>
  OBVIOUS
<1>9. ASSUME NEW e \in Event, NEW f \in Event
      PROVE  Append(<<e>>, f) = <<e, f>>
  <2>1. /\ <<e>> \in Seq(Event) /\ Len(<<e>>) = 1 /\ <<e>>[1] = e
        /\ <<e, f>> \in Seq(Event) /\ Len(<<e, f>>) = 2
        /\ <<e, f>>[1] = e /\ <<e, f>>[2] = f
    OBVIOUS
  <2> DEFINE a == Append(<<e>>, f)
             b == <<e, f>>
  <2>2. a \in Seq(Event) /\ Len(a) = 2 /\ a[1] = e /\ a[2] = f
    BY <2>1, AppendProperties
  <2>3. \A i \in 1 .. 2 : a[i] = b[i]
    BY <2>1, <2>2
  <2> HIDE DEF a
  <2>4. a = b
    BY <2>1, <2>2, <2>3, SeqEqual
  <2>5. QED
    BY <2>4 DEF a
<1>10. QED
  BY <1>1, <1>2, <1>3, <1>4, <1>5, <1>6, <1>7, <1>8, <1>9

(* A station that has not been started.                                    *)
LEMMA StationOff ==
  /\ WifiInit => WifiInv
  /\ WifiRestart => WifiInv'
<1>1. MAXIMUM_RETRY \in Nat
  BY WifiAssumption
<1>2. <<>> \in Seq(Event) /\ Len(<<>>) = 0
  BY EventQueue
<1>3. WifiInit => WifiInv
  <2> SUFFICES ASSUME WifiInit
               PROVE  WifiInv
    OBVIOUS
  <2>1. 0 \in 0 .. MAXIMUM_RETRY /\ 0 \in 0 .. MAXIMUM_RETRY + 2
    BY <1>1
  <2>2. WifiTypeOK
    BY <1>2, <2>1 DEF WifiInit, WifiTypeOK
  <2>3. StationShape
    BY DEF WifiInit, StationShape
  <2>4. QED
    BY <2>2, <2>3 DEF WifiInv
<1>4. WifiRestart => WifiInv'
  <2> SUFFICES ASSUME WifiRestart
               PROVE  WifiInv'
    OBVIOUS
  <2>1. 0 \in 0 .. MAXIMUM_RETRY /\ 0 \in 0 .. MAXIMUM_RETRY + 2
    BY <1>1
  <2>2. WifiTypeOK'
    BY <1>2, <2>1 DEF WifiRestart, WifiTypeOK
  <2>3. StationShape'
    BY DEF WifiRestart, StationShape
  <2>4. QED
    BY <2>2, <2>3 DEF WifiInv
<1>5. QED
  BY <1>3, <1>4

(* Every step of the station, the driver and the handler keeps the shape.  *)
LEMMA StationInv ==
  ASSUME WifiInv,
         wifi_start \/ wifi_wait \/ station \/ UNCHANGED wifiVars
  PROVE  WifiInv'
<1> USE DEF WifiInv
<1> DEFINE S == "STA_START"
           D == "STA_DISCONNECTED"
           G == "GOT_IP"
<1>1. /\ MAXIMUM_RETRY \in Nat /\ s_retry_num \in Nat
      /\ s_retry_num <= MAXIMUM_RETRY
      /\ attempts \in Nat /\ attempts <= s_retry_num + 1
  BY WifiAssumption DEF WifiTypeOK, StationShape
<1>2. S \in Event /\ D \in Event /\ G \in Event
  BY DEF Event
<1>3. /\ <<>> \in Seq(Event) /\ Len(<<>>) = 0
      /\ \A e \in {S, D, G} :
           /\ <<e>> \in Seq(Event) /\ Len(<<e>>) = 1
           /\ Append(<<>>, e) = <<e>>
           /\ Head(<<e>>) = e /\ Tail(<<e>>) = <<>> /\ <<e>> # <<>>
      /\ <<G, D>> \in Seq(Event) /\ Len(<<G, D>>) = 2
      /\ Append(<<G>>, D) = <<G, D>>
      /\ Head(<<G, D>>) = G /\ Tail(<<G, D>>) = <<D>> /\ <<G, D>> # <<>>
  BY <1>2, EventQueue
<1>4. \A q \in {<<>>, <<S>>, <<D>>, <<G>>, <<G, D>>} :
        q \in Seq(Event) /\ Len(q) <= 2
  <2>1. /\ Len(<<>>) <= 2 /\ Len(<<S>>) <= 2 /\ Len(<<D>>) <= 2
        /\ Len(<<G>>) <= 2 /\ Len(<<G, D>>) <= 2
    BY <1>3
  <2>2. /\ <<>> \in Seq(Event) /\ <<S>> \in Seq(Event)
        /\ <<D>> \in Seq(Event) /\ <<G>> \in Seq(Event)
        /\ <<G, D>> \in Seq(Event)
    BY <1>3
  <2>3. QED
    BY <2>1, <2>2, Zenon
<1>5. CASE wifi_start
  <2>1. /\ events' = <<S>> /\ link' = "idle" /\ main_pc' = "waiting"
        /\ attempts' = 0 /\ s_retry_num' = 0 /\ bits' = {}
    BY <1>5 DEF wifi_start, StationShape
  <2>2. WifiTypeOK'
    BY <1>1, <1>3, <2>1 DEF WifiTypeOK
  <2>3. StationShape'
    BY <2>1 DEF StationShape
  <2>4. QED
    BY <2>2, <2>3
<1>6. CASE wifi_wait
  BY <1>6 DEF wifi_wait, WifiTypeOK, StationShape
<1>7. CASE ConnectEnds \/ AddressComes
  <2>1. /\ events = <<>> /\ "FAIL" \notin bits /\ main_pc # "start"
        /\ UNCHANGED <<main_pc, bits, s_retry_num, attempts>>
    BY <1>7 DEF ConnectEnds, AddressComes, StationShape
  <2>2. \/ link' = "associated" /\ events' = <<>>
        \/ link' = "up" /\ events' = <<G>>
        \/ link' = "idle" /\ events' = <<D>>
    BY <1>3, <1>7, <2>1 DEF ConnectEnds, AddressComes
  <2>3. events' \in Seq(Event) /\ Len(events') <= 2
    BY <1>4, <2>2
  <2>4. WifiTypeOK'
    BY <2>1, <2>2, <2>3 DEF WifiTypeOK
  <2>5. StationShape'
    BY <2>1, <2>2 DEF StationShape
  <2>6. QED
    BY <2>4, <2>5
<1>8. CASE LinkLost
  <2>1. /\ events = <<>> \/ events = <<G>>
        /\ "FAIL" \notin bits /\ main_pc # "start" /\ link' = "idle"
        /\ UNCHANGED <<main_pc, bits, s_retry_num, attempts>>
    BY <1>8 DEF LinkLost, StationShape
  <2>2. events' = <<D>> \/ events' = <<G, D>>
    BY <1>3, <1>8, <2>1 DEF LinkLost
  <2>3. events' \in Seq(Event) /\ Len(events') <= 2
    BY <1>4, <2>2
  <2>4. WifiTypeOK'
    BY <2>1, <2>2, <2>3 DEF WifiTypeOK
  <2>5. StationShape'
    BY <2>1, <2>2 DEF StationShape
  <2>6. QED
    BY <2>4, <2>5
<1>9. CASE on_start
  <2>1. /\ events = <<S>> /\ link = "idle" /\ attempts = 0
        /\ s_retry_num = 0 /\ "FAIL" \notin bits /\ main_pc # "start"
    BY <1>3, <1>9 DEF on_start, Handle, StationShape, WifiTypeOK
  <2>2. /\ events' = <<>> /\ link' = "connecting" /\ attempts' = 1
        /\ UNCHANGED <<main_pc, bits, s_retry_num>>
    BY <1>1, <1>3, <1>9, <2>1 DEF on_start, Handle, Connect
  <2>3. WifiTypeOK'
    BY <1>1, <1>3, <2>1, <2>2 DEF WifiTypeOK
  <2>4. StationShape'
    BY <2>1, <2>2 DEF StationShape
  <2>5. QED
    BY <2>3, <2>4
<1>10. CASE on_disconnected
  <2>1. /\ events = <<D>> /\ link = "idle"
        /\ "FAIL" \notin bits /\ main_pc # "start"
    BY <1>3, <1>10 DEF on_disconnected, Handle, StationShape, WifiTypeOK
  <2>2. events' = <<>> /\ main_pc' = main_pc
    BY <1>3, <1>10, <2>1 DEF on_disconnected, Handle
  <2>3. CASE s_retry_num < MAXIMUM_RETRY
    <3>1. /\ link' = "connecting" /\ attempts' = attempts + 1
          /\ s_retry_num' = s_retry_num + 1 /\ bits' = bits
      BY <1>1, <1>10, <2>3 DEF on_disconnected, Connect
    <3>2. WifiTypeOK'
      BY <1>1, <1>3, <2>2, <2>3, <3>1 DEF WifiTypeOK
    <3>3. StationShape'
      BY <1>1, <2>1, <2>2, <3>1 DEF StationShape
    <3>4. QED
      BY <3>2, <3>3
  <2>4. CASE ~(s_retry_num < MAXIMUM_RETRY)
    <3>1. /\ bits' = bits \cup {"FAIL"}
          /\ UNCHANGED <<link, s_retry_num, attempts>>
          /\ s_retry_num = MAXIMUM_RETRY
      BY <1>1, <1>10, <2>4 DEF on_disconnected
    <3>2. WifiTypeOK'
      BY <1>3, <2>2, <3>1 DEF WifiTypeOK
    <3>3. StationShape'
      BY <2>1, <2>2, <3>1 DEF StationShape
    <3>4. QED
      BY <3>2, <3>3
  <2>5. QED
    BY <2>3, <2>4
<1>11. CASE on_got_ip
  <2>1. /\ \/ events = <<G>> /\ link = "up"
           \/ events = <<G, D>> /\ link = "idle"
        /\ "FAIL" \notin bits /\ main_pc # "start"
    BY <1>3, <1>11 DEF on_got_ip, Handle, StationShape, WifiTypeOK
  <2>2. /\ link' = link /\ main_pc' = main_pc
        /\ bits' = bits \cup {"CONNECTED"}
        /\ s_retry_num' = 0 /\ attempts' = 0
        /\ \/ events' = <<>> /\ link = "up"
           \/ events' = <<D>> /\ link = "idle"
    BY <1>3, <1>11, <2>1 DEF on_got_ip, Handle
  <2>3. events' \in Seq(Event) /\ Len(events') <= 2
    BY <1>4, <2>2
  <2>4. WifiTypeOK'
    BY <1>1, <2>2, <2>3 DEF WifiTypeOK
  <2>5. StationShape'
    BY <2>1, <2>2 DEF StationShape
  <2>6. QED
    BY <2>4, <2>5
<1>12. CASE UNCHANGED wifiVars
  BY <1>12 DEF wifiVars, WifiTypeOK, StationShape
<1>13. QED
  BY <1>5, <1>6, <1>7, <1>8, <1>9, <1>10, <1>11, <1>12
     DEF station, event_handler

(* What the shape says of the retries, in the words of the property.       *)
LEMMA ShapeGivesUpOnce == WifiInv => GivesUpOnce
<1>1. WifiInv => /\ MAXIMUM_RETRY \in Nat /\ s_retry_num \in Nat
                 /\ s_retry_num <= MAXIMUM_RETRY
  BY WifiAssumption DEF WifiInv, WifiTypeOK
<1>2. QED
  BY <1>1 DEF WifiInv, StationShape, GivesUpOnce

-----------------------------------------------------------------------------
(* app_main *)

(* A restart, of whatever cause, leaves only the flash.                    *)
LEMMA AppRestartInv ==
  ASSUME AppInv, AppRestart
  PROVE  AppInv'
<1>1. WifiInv'
  BY StationOff DEF AppRestart
<1>2. AppTypeOK'
  BY <1>1 DEF AppInv, AppTypeOK, AppRestart, AppPcs, WifiInv
<1>3. BootShape'
  BY DEF AppRestart, BootShape
<1>4. QED
  BY <1>1, <1>2, <1>3 DEF AppInv, WifiInv

(* The board as it is when it is switched on.                              *)
LEMMA AppInitInv == AppInit => AppInv
<1> SUFFICES ASSUME AppInit
             PROVE  AppInv
  OBVIOUS
<1>1. WifiInv
  BY StationOff DEF AppInit
<1>2. AppTypeOK
  BY <1>1 DEF AppInit, AppTypeOK, AppPcs, NvsState, WifiInv
<1>3. BootShape
  BY DEF AppInit, BootShape
<1>4. QED
  BY <1>1, <1>2, <1>3 DEF AppInv, WifiInv

(* Every step of the start, of the station and every restart keeps the     *)
(* invariant.                                                              *)
LEMMA AppStepInv == AppInv /\ [AppNext]_appVars => AppInv'
<1> SUFFICES ASSUME AppInv, [AppNext]_appVars
             PROVE  AppInv'
  OBVIOUS
<1>1. WifiInv /\ AppTypeOK /\ BootShape /\ NUM_GATES # 0
  BY AppAssumption DEF AppInv, AppTypeOK, WifiInv
<1>2. ASSUME UNCHANGED wifiVars \/ wifi_start \/ wifi_wait \/ station
      PROVE  WifiInv'
  BY <1>1, <1>2, StationInv
<1>3. ASSUME WifiInv', AppTypeOK', BootShape'
      PROVE  AppInv'
  BY <1>3 DEF AppInv, WifiInv
<1> HIDE DEF AppInv
<1>4. CASE app_nvs_init
  <2>1. CASE AppRestart
    BY <2>1, AppRestartInv
  <2>2. CASE /\ GoesOnAt("nvs_init", "netif")
             /\ nvs_ready' = TRUE
             /\ UNCHANGED <<nvs, gateSetup, wifiVars>>
    <3>1. WifiInv'
      BY <1>2, <2>2
    <3>2. AppTypeOK'
      BY <1>1, <2>2, <3>1
         DEF AppTypeOK, AppPcs, WifiInv, GoesOnAt, gateSetup
    <3>3. BootShape'
      BY <1>1, <2>2 DEF BootShape, GoesOnAt, gateSetup
    <3>4. QED
      BY <1>3, <3>1, <3>2, <3>3
  <2>3. QED
    BY <1>4, <2>1, <2>2 DEF app_nvs_init
<1>5. CASE gate_driver_init
  <2>1. PICK g \in {NUM_GATES, 0}, s \in {NUM_GATES, 0} :
          /\ gate' = g
          /\ gate_driver_setting' = s
          /\ IF 0 \in {g, s}
               THEN state' = "INIT" /\ UNCHANGED num_gate
               ELSE state' = "READY" /\ num_gate' = NUM_GATES
    BY <1>5 DEF gate_driver_init
  <2>2. /\ app_pc = "gate_init" /\ app_pc' = "gate_print"
        /\ UNCHANGED <<nvs, nvs_ready, wifiVars>>
    BY <1>5 DEF gate_driver_init, GoesOnAt
  <2>3. WifiInv'
    BY <1>2, <2>2
  <2>4. num_gate = 0
    BY <1>1, <2>2 DEF BootShape
  <2>5. AppTypeOK'
    BY <1>1, <2>1, <2>2, <2>3, <2>4 DEF AppTypeOK, AppPcs, WifiInv
  <2>6. BootShape'
    BY <1>1, <2>1, <2>2, <2>4 DEF BootShape
  <2>7. QED
    BY <1>3, <2>3, <2>5, <2>6
<1>6. CASE \/ app_start_io
           \/ print_gate_driver_setting
           \/ app_start_gates
           \/ app_start_tcp
  <2>1. /\ app_pc' \in AppPcs
        /\ app_pc # "nvs_init"
        /\ app_pc' \in {"nvs_init", "netif", "io_start", "gate_init"} =>
             app_pc \in {"nvs_init", "netif", "io_start", "gate_init"}
        /\ UNCHANGED <<nvs, nvs_ready, gateSetup, wifiVars>>
    BY <1>6 DEF app_start_io, print_gate_driver_setting, app_start_gates,
                app_start_tcp, GoesOnAt, AppPcs
  <2>2. WifiInv'
    BY <1>2, <2>1
  <2>3. AppTypeOK'
    BY <1>1, <2>1, <2>2 DEF AppTypeOK, WifiInv, gateSetup
  <2>4. BootShape'
    BY <1>1, <2>1 DEF BootShape, gateSetup
  <2>5. QED
    BY <1>3, <2>2, <2>3, <2>4
<1>7. CASE app_wifi_nvs
  <2>1. /\ app_pc' = "wifi" /\ nvs_ready' = TRUE
        /\ nvs' \in NvsState
        /\ UNCHANGED <<gateSetup, wifiVars>>
    BY <1>1, <1>7 DEF app_wifi_nvs, GoesOnAt, AppTypeOK, NvsState
  <2>2. WifiInv'
    BY <1>2, <2>1
  <2>3. AppTypeOK'
    BY <1>1, <2>1, <2>2 DEF AppTypeOK, AppPcs, WifiInv, gateSetup
  <2>4. BootShape'
    BY <1>1, <2>1 DEF BootShape, gateSetup
  <2>5. QED
    BY <1>3, <2>2, <2>3, <2>4
<1>8. CASE app_wifi
  <2>1. /\ wifi_start \/ wifi_wait \/ UNCHANGED wifiVars
        /\ app_pc = "wifi"
        /\ app_pc' = "wifi" \/ app_pc' = "tcp_start"
        /\ UNCHANGED <<nvs, nvs_ready, gateSetup>>
    BY <1>8 DEF app_wifi, bootVars
  <2>2. WifiInv'
    BY <1>2, <2>1
  <2>3. AppTypeOK'
    BY <1>1, <2>1, <2>2 DEF AppTypeOK, AppPcs, WifiInv, gateSetup
  <2>4. BootShape'
    BY <1>1, <2>1 DEF BootShape, gateSetup
  <2>5. QED
    BY <1>3, <2>2, <2>3, <2>4
<1>9. CASE Station \/ UNCHANGED appVars
  <2>1. /\ station \/ UNCHANGED wifiVars
        /\ UNCHANGED bootVars
    BY <1>9 DEF Station, appVars
  <2>2. WifiInv'
    BY <1>2, <2>1
  <2>3. AppTypeOK'
    BY <1>1, <2>1, <2>2 DEF AppTypeOK, WifiInv, bootVars, gateSetup
  <2>4. BootShape'
    BY <1>1, <2>1 DEF BootShape, bootVars, gateSetup
  <2>5. QED
    BY <1>3, <2>2, <2>3, <2>4
<1>10. CASE AppAborts
  BY <1>10, AppRestartInv DEF AppAborts
<1>11. QED
  BY <1>4, <1>5, <1>6, <1>7, <1>8, <1>9, <1>10 DEF AppNext, app_main

(* The inductive invariant of the start and the station.                   *)
THEOREM AppInvariant == AppSpec => []AppInv
<1>1. QED
  BY AppInitInv, AppStepInv, PTL DEF AppSpec

-----------------------------------------------------------------------------
(* The properties the run checks, and what follows a WIFI_FAIL_BIT *)

(* The start and the station keep their types.                             *)
THEOREM AppTypesCorrect == AppSpec => []AppTypeOK
<1>1. AppInv => AppTypeOK
  BY DEF AppInv
<1>2. QED
  BY <1>1, AppInvariant, PTL

(* print_gate_driver_setting walks arrays that are there, whichever of     *)
(* the two allocations of gate_driver_init failed.                         *)
THEOREM PrintedSettingsExist == AppSpec => []SettingsPrintable
<1>1. AppInv => SettingsPrintable
  <2>1. SUFFICES ASSUME AppInv
                 PROVE  num_gate <= gate /\ num_gate <= gate_driver_setting
    BY DEF SettingsPrintable
  <2>2. /\ gate \in Nat /\ gate_driver_setting \in Nat /\ num_gate \in Nat
        /\ num_gate # 0 => /\ gate = num_gate
                           /\ gate_driver_setting = num_gate
    BY <2>1, AppAssumption DEF AppInv, AppTypeOK, BootShape
  <2>3. QED
    BY <2>2
<1>2. QED
  BY <1>1, AppInvariant, PTL

(* The station tries no more often than it should, and has tried as often  *)
(* as it should when it gives up.                                          *)
THEOREM RetriesBounded == AppSpec => []GivesUpOnce
<1>1. AppInv => GivesUpOnce
  BY ShapeGivesUpOnce DEF AppInv, AppTypeOK, WifiInv
<1>2. QED
  BY <1>1, AppInvariant, PTL

(* nvs_flash_erase in start_wifi_station is never called: NVS is ready     *)
(* when it is reached, and so the flash is never written.                  *)
THEOREM FlashKept == AppSpec => NvsIsNeverErased
<1>1. AppInv /\ [AppNext]_appVars => [nvs' = nvs]_appVars
  <2> SUFFICES ASSUME AppInv, AppNext
               PROVE  nvs' = nvs
    BY DEF appVars, bootVars
  <2>1. CASE app_wifi_nvs
    BY <2>1 DEF app_wifi_nvs, GoesOnAt, AppInv, BootShape
  <2>2. CASE AppNext /\ ~app_wifi_nvs
    BY <2>2 DEF AppNext, app_main, app_nvs_init, app_start_io,
         gate_driver_init, print_gate_driver_setting, app_start_gates,
         app_wifi, app_start_tcp, Station, AppAborts, AppRestart, bootVars
  <2>3. QED
    BY <2>1, <2>2
<1>2. QED
  BY <1>1, AppInvariant, PTL DEF AppSpec, NvsIsNeverErased

(* Once WIFI_FAIL_BIT is set nothing moves in the station any more, the    *)
(* driver and the handler included, until the chip restarts.               *)
THEOREM GivenUpForGood ==
  AppSpec => [][\/ "FAIL" \notin bits
                \/ UNCHANGED <<bits, s_retry_num, link, events, attempts>>
                \/ AppRestart]_appVars
<1> DEFINE Still ==
             \/ "FAIL" \notin bits
             \/ UNCHANGED <<bits, s_retry_num, link, events, attempts>>
             \/ AppRestart
<1>1. AppInv /\ [AppNext]_appVars => [Still]_appVars
  <2> SUFFICES ASSUME AppInv, AppNext, "FAIL" \in bits, ~AppRestart
               PROVE  UNCHANGED <<bits, s_retry_num, link, events, attempts>>
    OBVIOUS
  <2>1. link = "idle" /\ events = <<>> /\ main_pc # "start"
    BY DEF AppInv, StationShape
  <2>2. ~station
    BY <2>1 DEF station, ConnectEnds, AddressComes, LinkLost,
                event_handler, on_start, on_disconnected, on_got_ip, Handle
  <2>3. wifi_wait \/ UNCHANGED wifiVars
    BY <2>1, <2>2 DEF AppNext, app_main, app_nvs_init, app_start_io,
         gate_driver_init, print_gate_driver_setting, app_start_gates,
         app_wifi_nvs, app_wifi, app_start_tcp, Station, AppAborts,
         wifi_start, wifiVars
  <2>4. QED
    BY <2>3 DEF wifi_wait, wifiVars
<1>2. QED
  BY <1>1, AppInvariant, PTL DEF AppSpec

=============================================================================
