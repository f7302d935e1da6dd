------------------------------ MODULE Network ------------------------------
(***************************************************************************)
(* The device from its start to the MQTT client: main/main.c starts the    *)
(* flash and the blackboard, and each network task connects to Wi-Fi       *)
(* (components/network/wifi_prov.c) before it looks up the broker          *)
(* (mqtt_on_init in mqtt_task.c).  Other threads register data as well.    *)
(* The demo of main.c creates no network task: Tasks are those that a      *)
(* program with the network component starts once app_main is that far.    *)
(*                                                                         *)
(* The Wi-Fi driver and the provisioning manager are external: they post   *)
(* events, which the event loop's task hands to event_handler one by one.  *)
(* The credentials are kept in the flash beside the blackboard's entries;  *)
(* the access point may refuse them.                                       *)
(* A write through NULL or a check that fails restarts the device.         *)
(***************************************************************************)
EXTENDS Blackboard, Sequences

CONSTANTS Tasks,    \* the network tasks
          UriKey    \* "mqtt_broker_uri"

ASSUME NetworkAssumption == Tasks \subseteq Threads /\ UriKey \in Keys

VARIABLES
  up,       \* app_main has initialised the blackboard: tasks may be started
  creds,    \* the Wi-Fi credentials in the flash: none, right or wrong
  called,   \* g_wifi_prov_called
  owner,    \* the task whose parameter event_handler got the address of
  mgr,      \* the provisioning manager: off, idle or serving
  sta,      \* the station: off, idle, connecting or connected
  events,   \* what is posted to the event loop
  bits,     \* the event group of each task
  at        \* where each task is in mqtt_on_init

wifiVars == <<creds, called, owner, mgr, sta, events, bits>>
vars     == <<bbVars, up, wifiVars, at>>

Off ==
  /\ called = FALSE /\ owner = None /\ mgr = "off" /\ sta = "off" /\ events = <<>>
  /\ bits = [t \in Tasks |-> {}] /\ at = [t \in Tasks |-> "start"]

Init ==
  /\ BlackboardStart /\ nvs \in {{}, {UriKey}}
  /\ up = FALSE /\ creds \in {"none", "right", "wrong"} /\ Off

\* The device restarts: memory is lost, the flash is not.
Restart ==
  /\ BlackboardReset /\ up' = FALSE
  /\ called' = FALSE /\ owner' = None /\ mgr' = "off" /\ sta' = "off" /\ events' = <<>>
  /\ bits' = [t \in Tasks |-> {}] /\ at' = [t \in Tasks |-> "start"]

Crash == Restart /\ UNCHANGED <<nvs, creds>>

\* app_main: if blackboard_init erases the flash the credentials go with it.
Boot ==
  /\ ~up /\ BlackboardInit
  /\ IF nvs = {} THEN up' = TRUE /\ UNCHANGED creds ELSE creds' = "none" /\ UNCHANGED up
  /\ UNCHANGED <<wrPos, map, claims, reg, called, owner, mgr, sta, events, bits, at>>

Goes(t, to) == at' = [at EXCEPT ![t] = to]

-----------------------------------------------------------------------------
(* wifi_sta_start_provision.                                                *)

\* g_wifi_prov_called is read; whoever comes later is told that all is well.
ReadCalled(t) ==
  /\ up /\ at[t] = "start"
  /\ Goes(t, IF called THEN "lookup" ELSE "enter")
  /\ UNCHANGED <<bbVars, up, wifiVars>>

\* It is set, the handler gets the address of the parameter, the station's
\* interface and the manager are created.  A second time this fails.
Enter(t) ==
  /\ at[t] = "enter"
  /\ IF owner # None THEN Crash
     ELSE /\ called' = TRUE /\ owner' = t /\ mgr' = "idle"
          /\ Goes(t, IF creds = "none" THEN "service" ELSE "station")
          /\ UNCHANGED <<bbVars, up, creds, sta, events, bits>>

\* Not provisioned: the manager serves until somebody sends credentials.
StartProvisioning(t) ==
  /\ at[t] = "service" /\ mgr' = "serving" /\ Goes(t, "wait")
  /\ UNCHANGED <<bbVars, up, creds, called, owner, sta, events, bits>>

\* Provisioned: the manager is released and the station started.
InitSta(t) ==
  /\ at[t] = "station"
  /\ mgr' = "off" /\ sta' = "idle" /\ events' = Append(events, "start") /\ Goes(t, "wait")
  /\ UNCHANGED <<bbVars, up, creds, called, owner, bits>>

\* The bit is not cleared.
WaitBits(t) ==
  /\ at[t] = "wait" /\ "connect" \in bits[t]
  /\ Goes(t, "lookup")
  /\ UNCHANGED <<bbVars, up, wifiVars>>

-----------------------------------------------------------------------------
(* event_handler.  Once the owner has returned, the address it gave away    *)
(* is that of a word on its stack: the word may still be there, or not.     *)

Inside(t) == at[t] \in {"service", "station", "wait"}

SetBits(bit, station) ==
  \/ /\ bits' = [bits EXCEPT ![owner] = @ \cup {bit}]
     /\ sta' = station /\ events' = Tail(events)
     /\ UNCHANGED <<bbVars, up, creds, called, owner, mgr, at>>
  \/ ~Inside(owner) /\ Crash

Event(name) == events # <<>> /\ Head(events) = name

HandleStart ==
  /\ Event("start") /\ events' = Tail(events) /\ sta' = "connecting"
  /\ UNCHANGED <<bbVars, up, creds, called, owner, mgr, bits, at>>

HandleGotIp == Event("gotip") /\ SetBits("connect", sta)

\* Mutant: the station is not told to connect again.
HandleDisconnectedOnly == Event("disconnected") /\ SetBits("disconnect", sta)

HandleDisconnected == Event("disconnected") /\ SetBits("disconnect", "connecting")

HandleProvEnd ==
  /\ Event("end") /\ events' = Tail(events) /\ mgr' = "off"
  /\ UNCHANGED <<bbVars, up, creds, called, owner, sta, bits, at>>

\* The failure is only logged; the message asks for a factory reset.
HandleCredFail ==
  /\ Event("credfail") /\ events' = Tail(events)
  /\ UNCHANGED <<bbVars, up, creds, called, owner, mgr, sta, bits, at>>

EventLoop ==
  HandleStart \/ HandleGotIp \/ HandleDisconnected \/ HandleProvEnd \/ HandleCredFail

-----------------------------------------------------------------------------
(* The driver and the manager.                                              *)

Credentials ==
  /\ mgr = "serving" /\ creds = "none"
  /\ creds' \in {"right", "wrong"} /\ sta' = "connecting"
  /\ UNCHANGED <<bbVars, up, called, owner, mgr, events, bits, at>>

\* The manager ends its service when the station has got its address.
GotIp ==
  /\ sta = "connecting" /\ creds = "right" /\ sta' = "connected"
  /\ events' = events \o (IF mgr = "serving" THEN <<"gotip", "end">> ELSE <<"gotip">>)
  /\ mgr' = IF mgr = "serving" THEN "idle" ELSE mgr
  /\ UNCHANGED <<bbVars, up, creds, called, owner, bits, at>>

Disconnect ==
  /\ sta \in {"connecting", "connected"} /\ sta' = "idle"
  /\ events' = events \o
       (IF mgr = "serving" /\ creds = "wrong" THEN <<"disconnected", "credfail">>
        ELSE <<"disconnected">>)
  /\ UNCHANGED <<bbVars, up, creds, called, owner, mgr, bits, at>>

\* Somebody does as the message says: the flash is erased.
FactoryReset == up /\ creds = "wrong" /\ Restart /\ nvs' = {} /\ creds' = "none"

-----------------------------------------------------------------------------
(* mqtt_on_init, and the other threads.                                     *)

\* The broker's address is looked up, and registered if it is not there.
LookUp(t) ==
  /\ at[t] = "lookup"
  /\ IF Get(UriKey) = None
       THEN \E size \in Sizes : Register(t, UriKey, size) /\ Goes(t, "register")
       ELSE Goes(t, "client") /\ UNCHANGED bbVars
  /\ UNCHANGED <<up, wifiVars>>

\* The address is written to where the key is found now: through NULL if it is
\* not.  If it was not registered the task ends.
Persist(t) ==
  /\ at[t] = "register" /\ reg[t].at \in {"ok", "lack"}
  /\ IF reg[t].at = "lack"
       THEN Registered(t) /\ Goes(t, "failed") /\ UNCHANGED <<up, wifiVars>>
     ELSE IF Get(UriKey) = None THEN Crash
     ELSE /\ Flush(UriKey) /\ Goes(t, "client") /\ UNCHANGED <<up, wifiVars>>

RegisterStep(t) ==
  /\ Claim(t) \/ Check(t)
  /\ UNCHANGED <<up, wifiVars, at>>

\* Any other thread registers its data.
Other(t) ==
  /\ up
  /\ \/ \E key \in Keys \ {UriKey}, size \in Sizes : Register(t, key, size)
     \/ reg[t].at \in {"ok", "lack"} /\ Registered(t)
  /\ UNCHANGED <<up, wifiVars, at>>

TaskStep(t) ==
  \/ ReadCalled(t) \/ Enter(t) \/ StartProvisioning(t) \/ InitSta(t) \/ WaitBits(t)
  \/ LookUp(t) \/ Persist(t)

Next ==
  \/ Boot
  \/ \E t \in Tasks : TaskStep(t)
  \/ \E t \in Threads : RegisterStep(t)
  \/ \E t \in Threads \ Tasks : Other(t)
  \/ EventLoop
  \/ Credentials \/ GotIp \/ Disconnect \/ FactoryReset

\* Threads run and events are handled; somebody provisions the device, and resets
\* it if that was wrong; the access point answers one attempt to connect in the end.
Fairness ==
  /\ WF_vars(Boot) /\ WF_vars(EventLoop) /\ WF_vars(Credentials) /\ WF_vars(FactoryReset)
  /\ SF_vars(GotIp)
  /\ \A t \in Tasks : WF_vars(TaskStep(t))
  /\ \A t \in Threads : WF_vars(RegisterStep(t))

Spec == Init /\ [][Next]_vars /\ Fairness

=============================================================================
