---------------------------- MODULE WifiStation ----------------------------
(***************************************************************************)
(* main/wifi_station.c: app_main starts the WiFi station and waits for an  *)
(* event group; event_handler, in the event loop's task, answers the       *)
(* driver's events, retries a number of times and sets the bits.           *)
(*                                                                         *)
(* The WiFi driver is modelled from how the handler uses it: a connect     *)
(* ends in a disconnection or in an association, for which there is an     *)
(* event the handler does not look at; an address may follow or not; an    *)
(* association may be lost, with an address or without; and events are     *)
(* delivered in order.                                                     *)
(***************************************************************************)
EXTENDS Integers, Sequences

CONSTANT MAXIMUM_RETRY   \* EXAMPLE_ESP_MAXIMUM_RETRY, 10

ASSUME WifiAssumption == MAXIMUM_RETRY \in Nat

VARIABLES
  main_pc,      \* app_main: "start", "waiting" for the bits, or "on"
  bits,         \* the event group
  s_retry_num,
  link,         \* the driver: "off", "idle", "connecting", "associated"
                \* (with no address yet) or "up"
  events,       \* posted to the event loop and not handled yet
  attempts      \* history: connects since the last address

wifiVars == <<main_pc, bits, s_retry_num, link, events, attempts>>

Event == {"STA_START", "STA_DISCONNECTED", "GOT_IP"}

WifiTypeOK ==
  /\ main_pc \in {"start", "waiting", "on"}
  /\ bits \subseteq {"CONNECTED", "FAIL"}
  /\ s_retry_num \in 0 .. MAXIMUM_RETRY
  /\ link \in {"off", "idle", "connecting", "associated", "up"}
  /\ events \in Seq(Event) /\ Len(events) <= 2
  /\ attempts \in 0 .. MAXIMUM_RETRY + 2

WifiInit ==
  /\ main_pc = "start"
  /\ bits = {}
  /\ s_retry_num = 0
  /\ link = "off"
  /\ events = <<>>
  /\ attempts = 0

(* The chip restarts; the access point forgets the station. *)
WifiRestart ==
  /\ main_pc' = "start"
  /\ bits' = {}
  /\ s_retry_num' = 0
  /\ link' = "off"
  /\ events' = <<>>
  /\ attempts' = 0

(* wifi_init_sta up to esp_wifi_start. *)
wifi_start ==
  /\ main_pc = "start"
  /\ main_pc' = "waiting"
  /\ link' = "idle"
  /\ events' = <<"STA_START">>
  /\ UNCHANGED <<bits, s_retry_num, attempts>>

(* xEventGroupWaitBits, which leaves the bits set. *)
wifi_wait ==
  /\ main_pc = "waiting"
  /\ bits # {}
  /\ main_pc' = "on"
  /\ UNCHANGED <<bits, s_retry_num, link, events, attempts>>

-----------------------------------------------------------------------------
(* The driver *)

(* The access point answers, or does not. *)
ConnectEnds ==
  /\ link = "connecting"
  /\ \/ link' = "associated" /\ UNCHANGED events
     \/ link' = "idle" /\ events' = Append(events, "STA_DISCONNECTED")
  /\ UNCHANGED <<main_pc, bits, s_retry_num, attempts>>

(* DHCP has an address for the station. *)
AddressComes ==
  /\ link = "associated"
  /\ link' = "up"
  /\ events' = Append(events, "GOT_IP")
  /\ UNCHANGED <<main_pc, bits, s_retry_num, attempts>>

LinkLost ==
  /\ link \in {"associated", "up"}
  /\ link' = "idle"
  /\ events' = Append(events, "STA_DISCONNECTED")
  /\ UNCHANGED <<main_pc, bits, s_retry_num, attempts>>

(* esp_wifi_connect *)
Connect ==
  /\ link' = "connecting"
  /\ attempts' = IF attempts < MAXIMUM_RETRY + 2 THEN attempts + 1
                                                  ELSE attempts

-----------------------------------------------------------------------------
(* event_handler *)

Handle(event) ==
  /\ events # <<>>
  /\ Head(events) = event
  /\ events' = Tail(events)
  /\ UNCHANGED main_pc

on_start ==
  /\ Handle("STA_START")
  /\ Connect
  /\ UNCHANGED <<bits, s_retry_num>>

(* Slip: the retries are not counted. *)
on_disconnected_uncounted ==
  /\ Handle("STA_DISCONNECTED")
  /\ Connect
  /\ UNCHANGED <<s_retry_num, bits>>

(* Slip: the bit is set and another connect is tried all the same. *)
on_disconnected_goes_on ==
  /\ Handle("STA_DISCONNECTED")
  /\ Connect
  /\ IF s_retry_num < MAXIMUM_RETRY
       THEN s_retry_num' = s_retry_num + 1 /\ UNCHANGED bits
       ELSE bits' = bits \cup {"FAIL"} /\ UNCHANGED s_retry_num

on_disconnected ==
  /\ Handle("STA_DISCONNECTED")
  /\ IF s_retry_num < MAXIMUM_RETRY
       THEN /\ Connect
            /\ s_retry_num' = s_retry_num + 1
            /\ UNCHANGED bits
       ELSE /\ bits' = bits \cup {"FAIL"}
            /\ UNCHANGED <<link, s_retry_num, attempts>>

on_got_ip ==
  /\ Handle("GOT_IP")
  /\ s_retry_num' = 0
  /\ bits' = bits \cup {"CONNECTED"}
  /\ attempts' = 0
  /\ UNCHANGED link

event_handler == on_start \/ on_disconnected \/ on_got_ip

(* The steps of the driver and of the event loop's task; wifi_start and    *)
(* wifi_wait are app_main's.                                               *)
station == ConnectEnds \/ AddressComes \/ LinkLost \/ event_handler

-----------------------------------------------------------------------------
(* Properties *)

(* No more than the first connect and MAXIMUM_RETRY retries are made       *)
(* without getting an address in between; only after as many, or as many   *)
(* retries since a connection was lost, is WIFI_FAIL_BIT set; and that is  *)
(* final: nothing is under way and nothing starts again, so a board that   *)
(* loses its access point for that long stays off the network until it     *)
(* restarts.                                                               *)
GivesUpOnce ==
  /\ attempts <= MAXIMUM_RETRY + 1
  /\ "FAIL" \in bits =>
       attempts >= MAXIMUM_RETRY /\ link = "idle" /\ events = <<>>
=============================================================================
