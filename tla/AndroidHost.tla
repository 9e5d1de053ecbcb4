----------------------------- MODULE AndroidHost -----------------------------
(***************************************************************************)
(* The Android accessory host (demo_aoa_can/src/AndroidAccessoryHost.c) on *)
(* top of the USB host library.  A turn of the main loop calls the USB     *)
(* task, androidHost_task and canpt_task.  The session with the Android    *)
(* application begins with its command CMD_CONNECT and ends with           *)
(* CMD_DISCONNECT or when the device goes away; the interrupt handler then *)
(* only schedules the disconnect, and the main loop carries it out a       *)
(* second later: it empties the table of subscriptions.                    *)
(*                                                                         *)
(* The messages sent to the device are left out, and so are the requests   *)
(* to the nodes: at this commit canpt_subscribe, canpt_unsubscribe and     *)
(* canpt_getValue only fill in txMsg, the call that would send it is       *)
(* commented out.  So is the line of canpt_init that stores the callbacks; *)
(* that the bridge calls them is external.                                 *)
(***************************************************************************)
EXTENDS UsbHost

CONSTANTS DisconnectMs,           \* the 1000 ms a disconnect is put off
          TimeMod,                \* getMsTicks() counts modulo this (2^32)
          Sub,                    \* subscriptions: a node and a number
          NoSub,                  \* a free entry, reqId = 0
          MAX_NUM_SUBSCRIPTIONS,  \* entries of subs: 50
          MaxPlugs                \* bound: devices attached

\* What the deferred disconnect relies on: the enumeration of a device, with
\* its busy waits, takes longer than the disconnect is put off.
ASSUME DelayAssumption == /\ DisconnectMs \in Nat \ {0}
                          /\ DisconnectMs < SettleTurns + 2 * ResetMs
ASSUME TimeAssumption == TimeMod \in Nat /\ TimeMod > DisconnectMs
ASSUME TableAssumption == /\ MAX_NUM_SUBSCRIPTIONS \in Nat /\ MaxPlugs \in Nat
                          /\ NoSub \notin Sub

Time == 0 .. TimeMod - 1
Entries == 1 .. MAX_NUM_SUBSCRIPTIONS

VARIABLES
  connected, doDisconnect, scheduleDisconnect,
  subs,      \* table of the subscriptions that were started
  now,       \* getMsTicks()
  owed,      \* history: a disconnect was scheduled and not carried out
  wrapped,   \* history: getMsTicks() wrapped since the disconnect was scheduled
  plugs      \* devices attached so far

flagVars == <<connected, doDisconnect, scheduleDisconnect, owed, wrapped>>
appVars == <<flagVars, subs, now, plugs>>
vars == <<hostVars, appVars>>

TypeOK == /\ HostTypeOK
          /\ connected \in BOOLEAN /\ doDisconnect \in BOOLEAN
          /\ scheduleDisconnect \in Time /\ now \in Time
          /\ subs \in [Entries -> Sub \cup {NoSub}]
          /\ owed \in BOOLEAN /\ wrapped \in BOOLEAN
          /\ plugs \in 0 .. MaxPlugs

\* androidHost_init
Init == /\ HostInit
        /\ connected = FALSE /\ doDisconnect = FALSE /\ scheduleDisconnect = 0
        /\ subs = [i \in Entries |-> NoSub]
        /\ owed = FALSE /\ wrapped = FALSE /\ now = 0 /\ plugs = 0

-----------------------------------------------------------------------------
(* The hardware and the clock.                                             *)

Attach(m) == /\ plugs < MaxPlugs
             /\ plugs' = plugs + 1
             /\ Plug(m)
             /\ UNCHANGED <<flagVars, subs, now>>

Detach == Unplug /\ UNCHANGED appVars

Redetect == Detect /\ UNCHANGED appVars

Tick == /\ now' = (now + 1) % TimeMod
        /\ wrapped' = (owed /\ (wrapped \/ now' = 0))
        /\ DelayPasses
        /\ UNCHANGED <<connected, doDisconnect, scheduleDisconnect, owed,
                       subs, plugs>>

-----------------------------------------------------------------------------
(* The events of the USB host library.                                     *)

\* Mutant of DeviceUnattached: the deadline does not wrap.
DeviceUnattachedWide == /\ connected' = FALSE
                        /\ scheduleDisconnect' = now + DisconnectMs
                        /\ owed' = TRUE
                        /\ wrapped' = (now + DisconnectMs >= TimeMod)
                        /\ UNCHANGED <<doDisconnect, subs, now, plugs>>

\* EVENT_USB_Host_DeviceUnattached
DeviceUnattached == /\ connected' = FALSE
                    /\ scheduleDisconnect' = (now + DisconnectMs) % TimeMod
                    /\ owed' = TRUE
                    /\ wrapped' = (now + DisconnectMs >= TimeMod)
                    /\ UNCHANGED <<doDisconnect, subs, now, plugs>>

Interrupt == \/ USB_Host_Enumerate /\ UNCHANGED appVars
             \/ USB_Host_DeEnumerate /\ DeviceUnattached

\* EVENT_USB_Host_DeviceEnumerationComplete: a device in accessory mode is
\* configured, any other is asked to switch its mode and to come back.
ProcessDeviceDescriptor ==
  Request("complete", IF port = "accessory" THEN "config" ELSE "tail")

EnumerationComplete == \/ ProcessDeviceDescriptor
                       \/ Request("config", "setconf")
                       \/ Request("setconf", "configured")
                       \/ SetConfigured

UsbTask == \/ /\ NextHostState \/ EnumerationComplete \/ NoError
                 \/ ResetController \/ ResetState
              /\ UNCHANGED appVars
           \/ EnumerationFailed /\ DeviceUnattached

-----------------------------------------------------------------------------
(* androidHost_task.                                                       *)

\* The main loop goes on; the library's variables but stale are left alone.
Step(from, to) == /\ At(from)
                  /\ Goto(to)
                  /\ UNCHANGED <<portVars, waitVars, USB_HostState, err, delay,
                                 pipe>>

Due == scheduleDisconnect > 0 /\ scheduleDisconnect < now

monitor_task ==
  /\ Step("android", IF Due THEN "cancel" ELSE "flags")
  /\ UNCHANGED <<changed, stale, appVars>>

\* Every entry is given to canpt_unsubscribe, which sends nothing, and freed.
handleDeviceDisconnected ==
  /\ Step("cancel", "flags")
  /\ scheduleDisconnect' = 0 /\ owed' = FALSE /\ wrapped' = FALSE
  /\ subs' = [i \in Entries |-> NoSub]
  /\ UNCHANGED <<connected, doDisconnect, now, plugs, changed, stale>>

\* The rest of monitor_task.
monitor_flags ==
  /\ Step("flags", "check")
  /\ IF connected /\ doDisconnect
     THEN /\ doDisconnect' = FALSE /\ connected' = FALSE
          /\ stale' = stale \ {"connected"}
     ELSE UNCHANGED <<doDisconnect, connected, stale>>
  /\ UNCHANGED <<scheduleDisconnect, owed, wrapped, subs, now, plugs,
                 changed>>

CheckConfigured ==
  /\ Step("check", IF USB_HostState = "Configured" THEN "packet" ELSE "canpt")
  /\ changed' = FALSE
  /\ UNCHANGED <<stale, appVars>>

\* A packet may have been received: CMD_CONNECT, CMD_DISCONNECT, or one that
\* does not concern the session.
ReadPacket ==
  \/ Step("packet", "canpt") /\ UNCHANGED <<changed, stale, appVars>>
  \/ /\ port = "accessory"
     /\ Step("packet", "connect")
     /\ UNCHANGED <<changed, stale, appVars>>
  \/ /\ port = "accessory"
     /\ Step("packet", "canpt")
     /\ doDisconnect' = TRUE
     /\ UNCHANGED <<connected, scheduleDisconnect, owed, wrapped, subs,
                    now, plugs, changed, stale>>

\* CMD_CONNECT; handleDeviceConnected changes no state of the host.
Connect ==
  /\ Step("connect", "canpt")
  /\ connected' = TRUE
  /\ stale' = IF changed THEN stale \cup {"connected"} ELSE stale \ {"connected"}
  /\ UNCHANGED <<doDisconnect, scheduleDisconnect, owed, wrapped, subs, now,
                 plugs, changed>>

-----------------------------------------------------------------------------
(* The callbacks of the CAN bridge.  nodeAttached and value change no      *)
(* state of the host.                                                      *)

\* handleNodeDetached clears the whole table, also the entries of other nodes.
nodeDetached == connected /\ subs' = [i \in Entries |-> NoSub]

\* The first free entry takes the subscription; with none, it is forgotten.
subStarted(s) ==
  \/ \E i \in Entries :
       /\ subs[i] = NoSub /\ \A j \in 1 .. i - 1 : subs[j] # NoSub
       /\ subs' = [subs EXCEPT ![i] = s]
  \/ (\A i \in Entries : subs[i] # NoSub) /\ UNCHANGED subs

canpt_callbacks ==
  /\ Step("canpt", "switch")
  /\ \/ nodeDetached
     \/ \E s \in Sub : subStarted(s)
     \/ UNCHANGED subs
  /\ UNCHANGED <<flagVars, now, plugs, changed, stale>>

-----------------------------------------------------------------------------
AndroidTask == \/ monitor_task \/ handleDeviceDisconnected \/ monitor_flags
               \/ CheckConfigured \/ ReadPacket \/ Connect

Main == UsbTask \/ AndroidTask \/ canpt_callbacks

Next == \/ \E m \in Modes : Attach(m)
        \/ Detach
        \/ Redetect
        \/ Tick
        \/ Interrupt
        \/ Main

\* The controller detects a device, the handler runs when it is pending, the
\* main loop keeps running and time passes.
Fairness == /\ WF_vars(Redetect) /\ WF_vars(Interrupt)
            /\ WF_vars(Main) /\ WF_vars(Tick)

Spec == Init /\ [][Next]_vars
FairSpec == Spec /\ Fairness

-----------------------------------------------------------------------------
(* Properties.                                                             *)

\* The disconnect of the previous session is carried out before the next one
\* begins, so it never clears the subscriptions of a new session, although it
\* is put off and the device may be back at once.  The exceptions: the
\* main loop wrote over a change the interrupt handler made, or the clock
\* wrapped.
DisconnectBeforeConnect ==
  connected /\ owed => stale # {} \/ wrapped

\* There is a session only with a configured device, and a configured device
\* only while one is attached or its interrupt is pending, wherever interrupts
\* hit the enumeration.  The exception: the main loop wrote over a change.
SessionIsLive ==
  /\ connected => USB_HostState = "Configured" \/ stale # {}
  /\ USB_HostState = "Configured" => port # "none" \/ csc \/ stale # {}

Serving == {"Addressed", "Configured"}

\* The enumeration ends: an attached device is served, unless a step failed,
\* and without a device the library is back in Unattached.  The exceptions:
\* the main loop wrote over a change the interrupt handler made, or it is
\* caught in a control transfer that never ends.
HostSettles ==
  /\ port # "none" ~> \/ USB_HostState \in Serving \/ port = "none"
                      \/ err \/ queued \/ "state" \in stale
  /\ port = "none" ~> \/ USB_HostState = "Unattached" \/ port # "none"
                      \/ "state" \in stale
==============================================================================
