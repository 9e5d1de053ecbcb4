-------------------------- MODULE AndroidHostProofs --------------------------
(***************************************************************************)
(* Proofs about the Android accessory host, for every length of the waits  *)
(* and delays, every clock width and every size of the subscription table. *)
(***************************************************************************)
EXTENDS AndroidHost, TLAPS

-----------------------------------------------------------------------------
(* The inductive invariant.                                                *)

\* No interrupt wrote the state since the main loop read it: where the main
\* loop is says what the state is.
AtState ==
  /\ mpc \in HostStates => USB_HostState = mpc
  /\ mpc = "DoReset.wait" => USB_HostState = "DoReset"
  /\ mpc = "Default.wait" => USB_HostState = "Default"
  /\ mpc \in {"PostReset.address", "PostReset.wait"} => USB_HostState = "PostReset"
  /\ mpc \in {"complete", "config", "setconf", "configured"}
       => USB_HostState = "Addressed"
  /\ mpc \in {"packet", "connect"} => USB_HostState = "Configured"

\* What the interrupt handler writes.
Noticed == USB_HostState \in {"Powered", "Unattached"}

LabelInv == IF changed
            THEN "state" \in stale \/ Noticed
            ELSE AtState

\* A case of the switch assigns the state in its last step only.
CaseInv == changed /\ mpc \in HostStates \cup {"DoReset.wait", "Default.wait",
                                               "PostReset.address",
                                               "PostReset.wait"} => Noticed

\* No wait leads to a configured device or back to the time it settles.
WaitInv == PostWaitState \notin {"Configured", "WaitForDeviceSettle"}

\* A session that began with no interrupt in between.
Live == connected /\ "connected" \notin stale

LiveInv == Live => /\ ~changed
                   /\ USB_HostState = "Configured"
                   /\ csc <=> port = "none"

HiddenInv == hidden => /\ port # "none" /\ ~csc /\ ~changed /\ ~connected
                       /\ mpc = "unattached" \/ USB_HostState = "Unattached"

PortInv == mpc \in {"connect", "configured"} => changed \/ port # "none" \/ csc

FailInv == /\ err => mpc = "tail" /\ USB_HostState # "Configured"
           /\ mpc \in {"init", "unattached"} =>
                ~connected /\ USB_HostState # "Configured"

ConfInv == USB_HostState = "Configured" =>
             port # "none" \/ csc \/ "state" \in stale

SessionInv == /\ LabelInv /\ CaseInv /\ WaitInv /\ LiveInv /\ HiddenInv
              /\ PortInv /\ FailInv /\ ConfInv

\* A disconnect is owed, and its deadline and the clock can be compared.
Counting == owed /\ ~wrapped

\* Milliseconds since the disconnect was scheduled.
Elapsed == now + DisconnectMs - scheduleDisconnect

ClockInv == Counting => scheduleDisconnect > 0 /\ Elapsed >= 0

\* The state is one of S, or will be after the wait.
Passing(S) == \/ USB_HostState \in S
              \/ USB_HostState = "WaitForDevice" /\ PostWaitState \in S

Enumerated == Passing({"PostReset", "PostAddressSet", "Addressed", "Configured"})

\* How far the enumeration has come, with e milliseconds since the disconnect
\* was scheduled, the rest of a busy wait included.
Reached(e) ==
  /\ USB_HostState = "WaitForDeviceSettle" => e >= SettleTurns - WaitMSRemaining
  /\ Passing({"WaitForConnect", "DoReset"}) => e >= SettleTurns
  /\ Passing({"ConfigPipe", "Default"}) \/ (mpc = "DoReset.wait" /\ ~changed) =>
       e >= SettleTurns + ResetMs
  /\ Enumerated \/ (mpc = "Default.wait" /\ ~changed) =>
       e >= SettleTurns + 2 * ResetMs

\* While the disconnect is owed the enumeration has not come further than that.
ProgressInv ==
  Counting /\ "state" \notin stale /\ mpc \notin {"init", "unattached"} =>
    Reached(Elapsed + delay)

\* Behind monitor_task a disconnect is no longer owed if a device is there.
OwedInv ==
  Counting /\ "state" \notin stale /\ mpc \in {"flags", "check", "packet", "connect"}
    => USB_HostState # "Configured"

-----------------------------------------------------------------------------
(* Types.                                                                  *)

\* A clock that gains one makes up for a wait that loses one.
LEMMA NoLoss ==
  ASSUME NEW e \in Int, NEW d \in Int, NEW f \in Int, NEW c \in Int,
         f = e + 1, c + 1 >= d
  PROVE  f + c >= e + d
OBVIOUS

USE TurnsAssumption, DelayAssumption, TimeAssumption, TableAssumption

\* A remainder is smaller than the modulus.
LEMMA Remainder ==
  ASSUME NEW a \in Int, NEW m \in Nat \ {0}
  PROVE  (a % m) \in 0 .. m - 1
OBVIOUS

\* The actions of the host state machine, with the application left alone.
HostStep == /\ NextHostState \/ EnumerationComplete \/ NoError
               \/ ResetController \/ ResetState
            /\ UNCHANGED appVars

\* The variables of the USB host library keep their types in its own steps.
LEMMA HostTypes == HostTypeOK /\ HostStep => HostTypeOK'
<1> SUFFICES ASSUME HostTypeOK, HostStep
             PROVE  HostTypeOK'
  OBVIOUS
<1> USE DEF HostTypeOK, HostStates, Labels, portVars, waitVars, stateVars, At, Goto,
            SetState, NonblockWait
<1>1. CASE Switch
  BY <1>1 DEF Switch
<1>2. CASE WaitTurn
  <2>1. USB_HostState' \in HostStates /\ stale' \subseteq {"state", "connected"}
    BY <1>2 DEF WaitTurn
  <2>2. WaitMSRemaining' \in 0 .. WaitMod - 1
    BY <1>2 DEF WaitTurn
  <2> QED
    BY <1>2, <2>1, <2>2 DEF WaitTurn
<1>3. CASE Powered
  BY <1>3 DEF Powered
<1>4. CASE Settle
  <2>1. WaitMSRemaining' \in 0 .. WaitMod - 1
    BY <1>4, Remainder DEF Settle
  <2>2. USB_HostState' \in HostStates /\ stale' \subseteq {"state", "connected"}
    BY <1>4 DEF Settle
  <2>3. delay' \in 0 .. ResetMs
    BY <1>4 DEF Settle
  <2> QED
    BY <1>4, <2>1, <2>2, <2>3 DEF Settle
<1>5. CASE WaitForConnect
  BY <1>5 DEF WaitForConnect
<1>6. CASE DoReset
  BY <1>6 DEF DoReset
<1>7. CASE ConfigPipe
  BY <1>7 DEF ConfigPipe
<1>8. CASE Default
  <2>1. mpc' \in HostStates \cup Labels /\ delay' \in 0 .. ResetMs
    BY <1>8 DEF Default
  <2>2. err' \in BOOLEAN /\ pipe' \in BOOLEAN
    BY <1>8 DEF Default
  <2> QED
    BY <1>8, <2>1, <2>2 DEF Default
<1>9. CASE PostReset
  <2>1. mpc' \in HostStates \cup Labels
    BY <1>9 DEF PostReset
  <2>2. err' \in BOOLEAN /\ pipe' \in BOOLEAN
    BY <1>9 DEF PostReset
  <2> QED
    BY <1>9, <2>1, <2>2 DEF PostReset
<1>20. CASE SetAddress
  <2>1. mpc' \in HostStates \cup Labels
    BY <1>20 DEF SetAddress
  <2>2. err' \in BOOLEAN /\ pipe' \in BOOLEAN
    BY <1>20 DEF SetAddress
  <2> QED
    BY <1>20, <2>1, <2>2 DEF SetAddress
<1>21. CASE TransferHangs
  BY <1>21 DEF TransferHangs
<1>10. CASE EndCase
  <2>1. WaitMSRemaining' \in 0 .. WaitMod - 1 /\ PostWaitState' \in HostStates
    BY <1>10 DEF EndCase
  <2>2. USB_HostState' \in HostStates /\ stale' \subseteq {"state", "connected"}
    BY <1>10 DEF EndCase
  <2> QED
    BY <1>10, <2>1, <2>2 DEF EndCase
<1>11. CASE PostAddressSet
  BY <1>11 DEF PostAddressSet
<1>12. CASE OtherStates
  BY <1>12 DEF OtherStates
<1>13. CASE SetConfigured
  BY <1>13 DEF SetConfigured
<1>14. CASE NoError
  BY <1>14 DEF NoError
<1>15. CASE ResetController
  BY <1>15 DEF ResetController
<1>16. CASE ResetState
  BY <1>16 DEF ResetState
<1>17. CASE ProcessDeviceDescriptor
  <2>1. mpc' \in HostStates \cup Labels
    BY <1>17 DEF ProcessDeviceDescriptor, Request
  <2> QED
    BY <1>17, <2>1 DEF ProcessDeviceDescriptor, Request
<1>18. CASE Request("config", "setconf")
  BY <1>18 DEF Request
<1>19. CASE Request("setconf", "configured")
  BY <1>19 DEF Request
<1> QED
  BY <1>1, <1>2, <1>3, <1>4, <1>5, <1>6, <1>7, <1>8, <1>9, <1>10, <1>11, <1>12,
     <1>13, <1>14, <1>15, <1>16, <1>17, <1>18, <1>19, <1>20, <1>21
     DEF HostStep, NextHostState, EnumerationComplete

\* Every step of the interrupt handler, of the application and of the hardware
\* keeps the types of both.
LEMMA StepTypes == TypeOK /\ Next => TypeOK'
<1> SUFFICES ASSUME TypeOK, Next
             PROVE  TypeOK'
  OBVIOUS
<1> USE DEF TypeOK
<1>1. CASE \E m \in Modes : Attach(m)
  <2> PICK m \in Modes : Attach(m)
    BY <1>1
  <2>1. HostTypeOK'
    BY DEF Attach, Plug, Idle, HostTypeOK, waitVars, stateVars
  <2> QED
    BY <2>1 DEF Attach, flagVars
<1>2. CASE Detach
  <2>1. HostTypeOK'
    BY <1>2 DEF Detach, Unplug, Idle, HostTypeOK, waitVars, stateVars
  <2> QED
    BY <1>2, <2>1 DEF Detach, appVars, flagVars
<1>3. CASE Redetect
  <2>1. HostTypeOK'
    BY <1>3 DEF Redetect, Detect, Idle, HostTypeOK, waitVars, stateVars
  <2> QED
    BY <1>3, <2>1 DEF Redetect, appVars, flagVars
<1>4. CASE Tick
  <2>1. HostTypeOK'
    BY <1>4 DEF Tick, DelayPasses, Idle, HostTypeOK, waitVars, stateVars, portVars
  <2>2. now' \in Time /\ wrapped' \in BOOLEAN
    BY <1>4, Remainder DEF Tick, Time
  <2> QED
    BY <1>4, <2>1, <2>2 DEF Tick
<1>5. ASSUME DeviceUnattached
      PROVE  /\ connected' \in BOOLEAN /\ doDisconnect' \in BOOLEAN
             /\ scheduleDisconnect' \in Time /\ now' \in Time
             /\ owed' \in BOOLEAN /\ wrapped' \in BOOLEAN
             /\ UNCHANGED <<subs, plugs>>
  <2>1. scheduleDisconnect' \in Time
    BY <1>5, Remainder DEF DeviceUnattached, Time
  <2>2. connected' \in BOOLEAN /\ owed' \in BOOLEAN
    BY <1>5 DEF DeviceUnattached
  <2>3. wrapped' \in BOOLEAN
    BY <1>5 DEF DeviceUnattached
  <2>4. UNCHANGED <<doDisconnect, now, subs, plugs>>
    BY <1>5 DEF DeviceUnattached
  <2> QED
    BY <2>1, <2>2, <2>3, <2>4
<1>6. CASE Interrupt
  <2>1. CASE USB_Host_Enumerate /\ UNCHANGED appVars
    <3>1. HostTypeOK'
      BY <2>1 DEF USB_Host_Enumerate, IsrState, HostTypeOK, HostStates, waitVars
    <3> QED
      BY <2>1, <3>1 DEF appVars, flagVars
  <2>2. CASE USB_Host_DeEnumerate /\ DeviceUnattached
    <3>1. HostTypeOK'
      BY <2>2 DEF USB_Host_DeEnumerate, IsrState, HostTypeOK, HostStates, waitVars
    <3> QED
      BY <2>2, <1>5, <3>1
  <2> QED
    BY <1>6, <2>1, <2>2 DEF Interrupt
<1>7. CASE UsbTask
  <2>1. CASE HostStep
    BY <2>1, HostTypes DEF HostStep, appVars, flagVars
  <2>2. CASE EnumerationFailed /\ DeviceUnattached
    <3>1. mpc' \in Labels /\ stale' \subseteq {"state", "connected"}
      BY <2>2 DEF EnumerationFailed, Goto, HostTypeOK, Labels
    <3>2. HostTypeOK'
      BY <2>2, <3>1 DEF EnumerationFailed, HostTypeOK, portVars, waitVars
    <3> QED
      BY <2>2, <1>5, <3>2
  <2> QED
    BY <1>7, <2>1, <2>2 DEF UsbTask, HostStep
<1>8. ASSUME NEW from, NEW to \in Labels, Step(from, to), changed' \in BOOLEAN,
             stale' \subseteq {"state", "connected"}
      PROVE  HostTypeOK'
  BY <1>8 DEF Step, Goto, HostTypeOK, portVars, waitVars
<1>9. CASE AndroidTask
  <2>1. CASE monitor_task
    <3>1. HostTypeOK'
      BY <2>1, <1>8 DEF monitor_task, Labels, HostTypeOK
    <3> QED
      BY <2>1, <3>1 DEF monitor_task, appVars, flagVars
  <2>2. CASE handleDeviceDisconnected
    <3>1. HostTypeOK'
      BY <2>2, <1>8 DEF handleDeviceDisconnected, Labels, HostTypeOK
    <3>2. scheduleDisconnect' \in Time
      BY <2>2 DEF handleDeviceDisconnected, Time
    <3>3. subs' \in [Entries -> Sub \cup {NoSub}]
      BY <2>2 DEF handleDeviceDisconnected
    <3> QED
      BY <2>2, <3>1, <3>2, <3>3 DEF handleDeviceDisconnected
  <2>3. CASE monitor_flags
    <3>1. HostTypeOK'
      BY <2>3, <1>8 DEF monitor_flags, Labels, HostTypeOK
    <3>2. connected' \in BOOLEAN /\ doDisconnect' \in BOOLEAN
      BY <2>3 DEF monitor_flags
    <3> QED
      BY <2>3, <3>1, <3>2 DEF monitor_flags
  <2>4. CASE CheckConfigured
    <3>1. HostTypeOK'
      BY <2>4, <1>8 DEF CheckConfigured, Labels, HostTypeOK
    <3> QED
      BY <2>4, <3>1 DEF CheckConfigured, appVars, flagVars
  <2>5. CASE ReadPacket
    <3>1. HostTypeOK'
      BY <2>5, <1>8 DEF ReadPacket, Labels, HostTypeOK
    <3>2. CASE UNCHANGED appVars
      BY <3>1, <3>2 DEF appVars, flagVars
    <3>3. CASE ~UNCHANGED appVars
      BY <2>5, <3>1, <3>3 DEF ReadPacket
    <3> QED
      BY <3>2, <3>3
  <2>6. CASE Connect
    <3>1. HostTypeOK'
      BY <2>6, <1>8 DEF Connect, Labels, HostTypeOK
    <3> QED
      BY <2>6, <3>1 DEF Connect
  <2> QED
    BY <1>9, <2>1, <2>2, <2>3, <2>4, <2>5, <2>6 DEF AndroidTask
<1>10. CASE canpt_callbacks
  <2>1. HostTypeOK'
    BY <1>10, <1>8 DEF canpt_callbacks, Labels, HostTypeOK
  <2>2. subs' \in [Entries -> Sub \cup {NoSub}]
    <3>1. CASE nodeDetached
      BY <3>1 DEF nodeDetached
    <3>2. CASE \E t \in Sub : subStarted(t)
      BY <3>2 DEF subStarted
    <3>3. CASE UNCHANGED subs
      BY <3>3
    <3> QED
      BY <1>10, <3>1, <3>2, <3>3 DEF canpt_callbacks
  <2> QED
    BY <1>10, <2>1, <2>2 DEF canpt_callbacks, flagVars
<1> QED
  BY <1>1, <1>2, <1>3, <1>4, <1>6, <1>7, <1>9, <1>10 DEF Next, Main

\* The variables of the host library and of the Android host keep their types,
\* and the deadline of the deferred disconnect stays a time.
THEOREM TypeCorrect == Spec => []TypeOK
<1>1. Init => TypeOK
  <2> SUFFICES ASSUME Init
               PROVE  TypeOK
    OBVIOUS
  <2>1. /\ USB_HostState \in HostStates /\ PostWaitState \in HostStates
        /\ mpc \in HostStates \cup Labels
    BY DEF Init, HostInit, HostStates, Labels
  <2>2. WaitMSRemaining \in 0 .. WaitMod - 1 /\ delay \in 0 .. ResetMs
    BY DEF Init, HostInit
  <2>3. HostTypeOK
    BY <2>1, <2>2 DEF Init, HostInit, HostTypeOK
  <2>4. scheduleDisconnect \in Time /\ now \in Time /\ plugs \in 0 .. MaxPlugs
    BY DEF Init, Time
  <2>5. subs \in [Entries -> Sub \cup {NoSub}]
    BY DEF Init
  <2> QED
    BY <2>3, <2>4, <2>5 DEF Init, TypeOK
<1>2. TypeOK /\ UNCHANGED vars => TypeOK'
  BY DEF TypeOK, HostTypeOK, vars, hostVars, portVars, waitVars, stateVars,
         appVars, flagVars
<1> QED
  BY <1>1, <1>2, StepTypes, PTL DEF Spec

-----------------------------------------------------------------------------
(* Sessions.                                                               *)

\* The steps of the host state machine keep the relation between the session,
\* the state, the port and the place of the main loop.
LEMMA HostSession == TypeOK /\ SessionInv /\ HostStep => SessionInv'
<1> SUFFICES ASSUME TypeOK, SessionInv, HostStep
             PROVE  SessionInv'
  OBVIOUS
<1> connected' = connected
  BY DEF HostStep, appVars, flagVars
<1> USE DEF TypeOK, HostTypeOK, SessionInv, LabelInv, AtState, Noticed, CaseInv,
            WaitInv, Live, LiveInv, HiddenInv, PortInv, FailInv, ConfInv, portVars,
            waitVars, stateVars, At, Goto, SetState, NonblockWait
<1>1. CASE Switch
  BY <1>1 DEF Switch, HostStates
<1>2. CASE WaitTurn
  <2>1. ~err /\ (changed \/ USB_HostState = "WaitForDevice")
    BY <1>2 DEF WaitTurn, HostStates
  <2>2. CASE SetState(PostWaitState)
    <3>1. LabelInv' /\ CaseInv' /\ WaitInv' /\ FailInv'
      BY <1>2, <2>1, <2>2 DEF WaitTurn, HostStates
    <3>2. LiveInv' /\ HiddenInv' /\ PortInv'
      BY <1>2, <2>1, <2>2 DEF WaitTurn
    <3>3. ConfInv'
      BY <1>2, <2>1, <2>2 DEF WaitTurn
    <3> QED
      BY <3>1, <3>2, <3>3
  <2>3. CASE UNCHANGED stateVars
    BY <1>2, <2>1, <2>3 DEF WaitTurn, HostStates
  <2> QED
    BY <1>2, <2>2, <2>3 DEF WaitTurn
<1>3. CASE Powered
  BY <1>3 DEF Powered, HostStates
<1>4. CASE Settle
  BY <1>4 DEF Settle, HostStates
<1>5. CASE WaitForConnect
  BY <1>5 DEF WaitForConnect, HostStates
<1>6. CASE DoReset
  BY <1>6 DEF DoReset, HostStates
<1>7. CASE ConfigPipe
  <2>1. ~err /\ (changed \/ USB_HostState = "ConfigPipe")
    BY <1>7 DEF ConfigPipe, HostStates
  <2>2. CASE SetState("Default") /\ UNCHANGED err
    BY <1>7, <2>1, <2>2 DEF ConfigPipe, HostStates
  <2>3. CASE err' = TRUE /\ UNCHANGED stateVars
    BY <1>7, <2>1, <2>3 DEF ConfigPipe, HostStates
  <2> QED
    BY <1>7, <2>2, <2>3 DEF ConfigPipe
<1>8. CASE Default
  <2>1. ~err /\ (changed \/ USB_HostState = "Default")
    BY <1>8 DEF Default, HostStates
  <2>2. CASE mpc' = "Default.wait" /\ UNCHANGED err
    BY <1>8, <2>1, <2>2 DEF Default, HostStates
  <2>3. CASE mpc' = "tail" /\ err' = TRUE
    BY <1>8, <2>1, <2>3 DEF Default, HostStates
  <2> QED
    BY <1>8, <2>2, <2>3 DEF Default
<1>9. CASE PostReset
  <2>1. ~err /\ (changed \/ USB_HostState = "PostReset")
    BY <1>9 DEF PostReset, HostStates
  <2>2. CASE mpc' = "PostReset.address" /\ UNCHANGED err
    BY <1>9, <2>1, <2>2 DEF PostReset, HostStates
  <2>3. CASE mpc' = "tail" /\ err' = TRUE
    BY <1>9, <2>1, <2>3 DEF PostReset, HostStates
  <2> QED
    BY <1>9, <2>2, <2>3 DEF PostReset
<1>20. CASE SetAddress
  <2>1. ~err /\ (changed \/ USB_HostState = "PostReset")
    BY <1>20 DEF SetAddress, HostStates
  <2>2. CASE mpc' = "PostReset.wait" /\ UNCHANGED err
    BY <1>20, <2>1, <2>2 DEF SetAddress, HostStates
  <2>3. CASE mpc' = "tail" /\ err' = TRUE
    BY <1>20, <2>1, <2>3 DEF SetAddress, HostStates
  <2> QED
    BY <1>20, <2>2, <2>3 DEF SetAddress
<1>21. CASE TransferHangs
  BY <1>21 DEF TransferHangs
<1>10. CASE EndCase
  BY <1>10 DEF EndCase, HostStates
<1>11. CASE PostAddressSet
  BY <1>11 DEF PostAddressSet, HostStates
<1>12. CASE OtherStates
  BY <1>12 DEF OtherStates, HostStates
<1>13. CASE SetConfigured
  BY <1>13 DEF SetConfigured, HostStates
<1>14. CASE NoError
  BY <1>14 DEF NoError, HostStates, Failed
<1>15. CASE ResetController
  BY <1>15 DEF ResetController, HostStates
<1>16. CASE ResetState
  BY <1>16 DEF ResetState, HostStates
<1>17. CASE ProcessDeviceDescriptor
  BY <1>17 DEF ProcessDeviceDescriptor, Request, CanTransfer, HostStates
<1>18. CASE Request("config", "setconf")
  BY <1>18 DEF ProcessDeviceDescriptor, Request, CanTransfer, HostStates
<1>19. CASE Request("setconf", "configured")
  BY <1>19 DEF ProcessDeviceDescriptor, Request, CanTransfer, HostStates
<1> QED
  BY <1>1, <1>2, <1>3, <1>4, <1>5, <1>6, <1>7, <1>8, <1>9, <1>10, <1>11, <1>12,
     <1>13, <1>14, <1>15, <1>16, <1>17, <1>18, <1>19, <1>20, <1>21
     DEF HostStep, NextHostState, EnumerationComplete

\* So do the steps of the hardware, of the interrupt handler and of the
\* application.
LEMMA SessionStep == TypeOK /\ SessionInv /\ [Next]_vars => SessionInv'
<1> SUFFICES ASSUME TypeOK, SessionInv, [Next]_vars
             PROVE  SessionInv'
  OBVIOUS
<1> USE DEF TypeOK, HostTypeOK, SessionInv, LabelInv, AtState, Noticed, CaseInv,
            WaitInv, Live, LiveInv, HiddenInv, PortInv, FailInv, ConfInv, portVars,
            waitVars, stateVars, At, Goto, appVars, flagVars
<1>1. CASE \E m \in Modes : Attach(m)
  <2> PICK m \in Modes : Attach(m)
    BY <1>1
  <2> QED
    BY DEF Attach, Plug, Idle
<1>2. CASE Detach
  BY <1>2 DEF Detach, Unplug, Idle
<1>3. CASE Redetect
  BY <1>3 DEF Redetect, Detect, Idle
<1>4. CASE Tick
  BY <1>4 DEF Tick, DelayPasses, Idle
<1>5. CASE USB_Host_Enumerate /\ UNCHANGED appVars
  BY <1>5 DEF USB_Host_Enumerate, IsrState
<1>6. CASE USB_Host_DeEnumerate /\ DeviceUnattached
  BY <1>6 DEF USB_Host_DeEnumerate, IsrState, DeviceUnattached
<1>7. CASE HostStep
  BY <1>7, HostSession
<1>8. CASE EnumerationFailed /\ DeviceUnattached
  BY <1>8 DEF EnumerationFailed, Failed, DeviceUnattached, HostStates
<1>9. CASE monitor_task
  BY <1>9 DEF monitor_task, Step, HostStates
<1>10. CASE handleDeviceDisconnected
  BY <1>10 DEF handleDeviceDisconnected, Step, HostStates
<1>11. CASE monitor_flags
  BY <1>11 DEF monitor_flags, Step, HostStates
<1>12. CASE CheckConfigured
  BY <1>12 DEF CheckConfigured, Step, HostStates
<1>13. CASE ReadPacket
  BY <1>13 DEF ReadPacket, Step, HostStates
<1>14. CASE Connect
  BY <1>14 DEF Connect, Step, HostStates
<1>15. CASE canpt_callbacks
  BY <1>15 DEF canpt_callbacks, Step, HostStates
<1>16. CASE UNCHANGED vars
  BY <1>16 DEF vars, hostVars
<1> QED
  BY <1>1, <1>2, <1>3, <1>4, <1>5, <1>6, <1>7, <1>8, <1>9, <1>10, <1>11, <1>12,
     <1>13, <1>14, <1>15, <1>16
     DEF Next, Interrupt, Main, UsbTask, HostStep, AndroidTask

\* The place of the main loop, the state and the session agree in every
\* reachable state, wherever the interrupt handler ran.
LEMMA SessionsAgree == Spec => []SessionInv
<1>1. Init => SessionInv
  BY DEF Init, HostInit, SessionInv, LabelInv, AtState, Noticed, CaseInv, WaitInv,
         Live, LiveInv, HiddenInv, PortInv, FailInv, ConfInv, HostStates
<1> QED
  BY <1>1, SessionStep, TypeCorrect, PTL DEF Spec

\* A session exists only with a configured device, and a configured device only
\* while one is attached or its interrupt is pending, unless the main loop wrote
\* over a change of USB_HostState the interrupt handler made.
THEOREM SessionsAreLive == Spec => []SessionIsLive
<1>1. TypeOK /\ SessionInv => SessionIsLive
  BY DEF TypeOK, SessionInv, LiveInv, Live, ConfInv, SessionIsLive
<1> QED
  BY <1>1, SessionsAgree, TypeCorrect, PTL

-----------------------------------------------------------------------------
(* The deferred disconnect.                                                *)

\* What the deadline is compared with, and the enumeration's own variables.
deadlineVars == <<scheduleDisconnect, owed, wrapped, now>>
progressVars == <<USB_HostState, WaitMSRemaining, PostWaitState, delay>>

\* The invariant that the deferred disconnect rests on.
DisconnectInv == ClockInv /\ ProgressInv /\ OwedInv /\ DisconnectBeforeConnect

\* The interrupt handler and a failed enumeration schedule a disconnect at a
\* deadline ahead, or one that has wrapped.
LEMMA Scheduled == TypeOK /\ DeviceUnattached => ClockInv' /\ ~connected'
<1> SUFFICES ASSUME TypeOK, DeviceUnattached
             PROVE  ClockInv' /\ ~connected'
  OBVIOUS
<1>1. CASE now + DisconnectMs < TimeMod
  <2>1. (now + DisconnectMs) % TimeMod = now + DisconnectMs
    BY <1>1 DEF TypeOK, Time
  <2> QED
    BY <2>1 DEF DeviceUnattached, ClockInv, Counting, Elapsed, TypeOK, Time
<1>2. CASE now + DisconnectMs >= TimeMod
  BY <1>2 DEF DeviceUnattached, ClockInv, Counting
<1> QED
  BY <1>1, <1>2 DEF TypeOK, Time

\* A millisecond of the clock is at most a millisecond of a busy wait, so the
\* time that the enumeration takes cannot fall behind.
LEMMA TickProgress == TypeOK /\ DisconnectInv /\ Tick => DisconnectInv'
<1> SUFFICES ASSUME TypeOK, DisconnectInv, Tick
             PROVE  DisconnectInv'
  OBVIOUS
<1>1. UNCHANGED <<USB_HostState, WaitMSRemaining, PostWaitState, stale, changed,
                  mpc, owed, connected, scheduleDisconnect>>
  BY DEF Tick, DelayPasses, Idle, waitVars, stateVars
<1>2. (wrapped \/ now' = 0) /\ owed => wrapped'
  BY DEF Tick
<1>10. Counting' => Counting
  BY <1>1, <1>2 DEF Counting
<1>3. delay' \in Nat /\ delay' + 1 >= delay
  BY DEF Tick, DelayPasses, TypeOK, HostTypeOK
<1>4. Counting' => now' = now + 1
  <2>1. CASE now + 1 = TimeMod
    <3>1. now' = 0
      BY <2>1 DEF Tick
    <3> QED
      BY <3>1, <1>1, <1>2 DEF Counting
  <2>2. CASE now + 1 < TimeMod
    BY <2>2 DEF Tick, TypeOK, Time
  <2> QED
    BY <2>1, <2>2 DEF TypeOK, Time
<1>5. Counting' => /\ Elapsed' = Elapsed + 1 /\ Elapsed \in Int
                   /\ Elapsed' + delay' >= Elapsed + delay
  <2> SUFFICES ASSUME Counting'
               PROVE  /\ Elapsed' = Elapsed + 1 /\ Elapsed \in Int
                      /\ Elapsed' + delay' >= Elapsed + delay
    OBVIOUS
  <2>1. now' = now + 1
    BY <1>4
  <2>2. now \in Int /\ scheduleDisconnect \in Int /\ delay \in Int
    BY DEF TypeOK, HostTypeOK, Time
  <2>3. Elapsed \in Int /\ Elapsed' = Elapsed + 1
    <3>1. scheduleDisconnect' = scheduleDisconnect /\ DisconnectMs \in Int
      BY <1>1
    <3> QED
      BY <2>1, <2>2, <3>1 DEF Elapsed
  <2>4. Elapsed' \in Int /\ delay' \in Int
    BY <1>3, <2>3
  <2> QED
    BY <1>3, <2>2, <2>3, <2>4, NoLoss
<1>6. ClockInv'
  BY <1>1, <1>10, <1>5 DEF DisconnectInv, ClockInv
<1>7. ProgressInv'
  <2> SUFFICES ASSUME Counting', "state" \notin stale', mpc' \notin {"init", "unattached"}
               PROVE  ProgressInv'
    BY DEF ProgressInv
  <2>1. Reached(Elapsed + delay)
    BY <1>1, <1>10 DEF DisconnectInv, ProgressInv
  <2>2. /\ Elapsed + delay \in Int /\ Elapsed' + delay' \in Int
        /\ Elapsed' + delay' >= Elapsed + delay
    BY <1>3, <1>5 DEF TypeOK, HostTypeOK
  <2>3. Passing({"WaitForConnect", "DoReset"})' = Passing({"WaitForConnect", "DoReset"})
    BY <1>1 DEF Passing
  <2>4. Passing({"ConfigPipe", "Default"})' = Passing({"ConfigPipe", "Default"})
    BY <1>1 DEF Passing
  <2>5. Enumerated' = Enumerated
    BY <1>1 DEF Enumerated, Passing
  <2> QED
    BY <1>1, <2>1, <2>2, <2>3, <2>4, <2>5 DEF ProgressInv, Reached, TypeOK, HostTypeOK
<1>8. OwedInv'
  BY <1>1, <1>10 DEF DisconnectInv, OwedInv
<1>9. DisconnectBeforeConnect'
  BY <1>1, <1>2 DEF DisconnectInv, DisconnectBeforeConnect
<1> QED
  BY <1>6, <1>7, <1>8, <1>9 DEF DisconnectInv

\* A step of the host state machine passes a stage of the enumeration only
\* with the delays of that stage behind it, or begins them.
LEMMA HostReached ==
  ASSUME TypeOK, SessionInv, NextHostState \/ EnumerationComplete \/ NoError,
         NEW e \in Nat, Reached(e + delay), "state" \notin stale'
  PROVE  Reached(e + delay)'
<1> USE DEF TypeOK, HostTypeOK, SessionInv, LabelInv, AtState, Noticed, CaseInv,
            portVars, waitVars, stateVars, At, Goto, SetState, NonblockWait,
            Reached, Passing, Enumerated
<1>1. CASE Switch
  BY <1>1 DEF Switch, HostStates
<1>2. CASE WaitTurn
  <2>1. CASE SetState(PostWaitState) /\ WaitMSRemaining = 1
    <3>1. ~changed /\ USB_HostState = "WaitForDevice"
      BY <1>2, <2>1 DEF WaitTurn, HostStates
    <3> QED
      BY <1>2, <2>1, <3>1 DEF WaitTurn, WaitInv
  <2>2. CASE UNCHANGED stateVars
    <3>1. USB_HostState = "WaitForDevice" \/ Noticed
      BY <1>2, <2>2 DEF WaitTurn, HostStates
    <3> QED
      BY <1>2, <2>2, <3>1 DEF WaitTurn
  <2> QED
    BY <1>2, <2>1, <2>2 DEF WaitTurn
<1>3. CASE Powered
  BY <1>3 DEF Powered, HostStates
<1>4. CASE Settle
  <2>1. CASE WaitMSRemaining > 0
    <3>1. WaitMSRemaining' = WaitMSRemaining - 1
      BY <1>4, <2>1 DEF Settle
    <3>2. delay' = delay + 1 /\ mpc' = "tail" /\ UNCHANGED <<stateVars, PostWaitState>>
      BY <1>4, <2>1 DEF Settle
    <3>3. USB_HostState = "WaitForDeviceSettle" \/ Noticed
      BY <1>4, <3>2 DEF Settle, HostStates
    <3> QED
      BY <3>1, <3>2, <3>3
  <2>2. CASE WaitMSRemaining = 0
    <3>1. SetState("WaitForConnect") /\ mpc' = "tail" /\ delay' = delay
      BY <1>4, <2>2 DEF Settle
    <3>2. ~changed /\ USB_HostState = "WaitForDeviceSettle"
      BY <1>4, <3>1 DEF Settle, HostStates
    <3> QED
      BY <2>2, <3>1, <3>2
  <2> QED
    BY <2>1, <2>2
<1>5. CASE WaitForConnect
  BY <1>5 DEF WaitForConnect, HostStates
<1>6. CASE DoReset
  BY <1>6 DEF DoReset, HostStates
<1>7. CASE ConfigPipe
  BY <1>7 DEF ConfigPipe, HostStates
<1>8. CASE Default
  BY <1>8 DEF Default, HostStates
<1>9. CASE PostReset
  BY <1>9 DEF PostReset, HostStates
<1>17. CASE SetAddress
  BY <1>17 DEF SetAddress, HostStates
<1>18. CASE TransferHangs
  BY <1>18 DEF TransferHangs
<1>10. CASE EndCase
  BY <1>10 DEF EndCase, HostStates
<1>11. CASE PostAddressSet
  BY <1>11 DEF PostAddressSet, HostStates
<1>12. CASE OtherStates
  BY <1>12 DEF OtherStates, HostStates
<1>13. CASE SetConfigured
  BY <1>13 DEF SetConfigured, HostStates
<1>14. CASE NoError
  BY <1>14 DEF NoError, HostStates
<1>15. CASE ProcessDeviceDescriptor
  BY <1>15 DEF ProcessDeviceDescriptor, Request, CanTransfer, HostStates
<1>16. CASE Request("config", "setconf") \/ Request("setconf", "configured")
  BY <1>16 DEF Request, CanTransfer, HostStates
<1> QED
  BY <1>1, <1>2, <1>3, <1>4, <1>5, <1>6, <1>7, <1>8, <1>9, <1>10, <1>11, <1>12, <1>13,
     <1>14, <1>15, <1>16, <1>17, <1>18 DEF NextHostState, EnumerationComplete

\* A step that leaves the deadline, the clock and the enumeration alone.
LEMMA QuietStep ==
  ASSUME DisconnectInv, UNCHANGED <<deadlineVars, progressVars>>,
         "state" \notin stale' => "state" \notin stale,
         mpc \notin {"init", "unattached"} \/ mpc' = mpc,
         mpc' \notin {"DoReset.wait", "Default.wait"} \/ UNCHANGED <<mpc, changed>>
  PROVE  ClockInv' /\ ProgressInv'
<1>1. Counting' = Counting /\ Elapsed' = Elapsed
  BY DEF Counting, Elapsed, deadlineVars
<1>2. ClockInv'
  BY <1>1 DEF DisconnectInv, ClockInv, deadlineVars
<1>3. ASSUME Counting', "state" \notin stale', mpc' \notin {"init", "unattached"}
      PROVE  Reached(Elapsed + delay)'
  <2>1. Reached(Elapsed + delay)
    BY <1>1, <1>3 DEF DisconnectInv, ProgressInv
  <2>2. /\ Passing({"WaitForConnect", "DoReset"})' = Passing({"WaitForConnect", "DoReset"})
        /\ Passing({"ConfigPipe", "Default"})' = Passing({"ConfigPipe", "Default"})
        /\ Enumerated' = Enumerated
    BY DEF Passing, Enumerated, progressVars
  <2> QED
    BY <1>1, <2>1, <2>2 DEF Reached, progressVars
<1> QED
  BY <1>2, <1>3 DEF ProgressInv

\* The host state machine reaches a configured device no earlier than the
\* delays of the enumeration allow.
LEMMA HostDisconnect ==
  TypeOK /\ SessionInv /\ DisconnectInv /\ HostStep => DisconnectInv'
<1> SUFFICES ASSUME TypeOK, SessionInv, DisconnectInv, HostStep
             PROVE  DisconnectInv'
  OBVIOUS
<1>1. UNCHANGED <<deadlineVars, connected>>
  BY DEF HostStep, appVars, flagVars, deadlineVars
<1>2. Counting' = Counting /\ Elapsed' = Elapsed /\ Elapsed \in Int
  <2>1. now \in Int /\ scheduleDisconnect \in Int /\ DisconnectMs \in Int
    BY DEF TypeOK, Time
  <2> QED
    BY <1>1, <2>1 DEF Counting, Elapsed, deadlineVars
<1>3. ClockInv'
  BY <1>1, <1>2 DEF DisconnectInv, ClockInv, deadlineVars
<1>4. CASE ResetController
  <2>1. mpc' = "unattached" /\ ~connected
    BY <1>4 DEF ResetController, At, Goto, SessionInv, FailInv
  <2> QED
    BY <1>1, <1>3, <2>1 DEF DisconnectInv, ProgressInv, OwedInv, DisconnectBeforeConnect
<1>5. CASE ResetState
  <2>1. mpc' = "android" /\ USB_HostState' = "Unattached" /\ ~connected
    BY <1>5 DEF ResetState, SetState, At, Goto, SessionInv, FailInv
  <2>2. Reached(Elapsed + delay)'
    BY <2>1 DEF Reached, Passing, Enumerated
  <2> QED
    BY <1>1, <1>3, <2>1, <2>2
       DEF DisconnectInv, ProgressInv, OwedInv, DisconnectBeforeConnect
<1>6. CASE NextHostState \/ EnumerationComplete \/ NoError
  <2> USE DEF At, Goto, SetState, NonblockWait, stateVars
  <2>1. stale \subseteq stale' /\ mpc \notin {"init", "unattached"}
    BY <1>6 DEF NextHostState, EnumerationComplete, NoError, Switch, WaitTurn, Powered,
         Settle, WaitForConnect, DoReset, ConfigPipe, Default, PostReset, EndCase,
         PostAddressSet, OtherStates, ProcessDeviceDescriptor, Request, SetConfigured,
         SetAddress, TransferHangs, Transfers
  <2>2. mpc' \notin {"flags", "check", "packet", "connect"}
    BY <1>6 DEF NextHostState, EnumerationComplete, NoError, Switch, WaitTurn, Powered,
         Settle, WaitForConnect, DoReset, ConfigPipe, Default, PostReset, EndCase,
         PostAddressSet, OtherStates, ProcessDeviceDescriptor, Request, SetConfigured,
         SetAddress, TransferHangs, Transfers, TypeOK, HostTypeOK, HostStates
  <2>3. ASSUME Counting', "state" \notin stale'
        PROVE  Reached(Elapsed + delay)'
    <3>1. Elapsed \in Nat
      BY <1>2, <2>3 DEF DisconnectInv, ClockInv
    <3>2. Reached(Elapsed + delay)
      BY <1>2, <2>1, <2>3 DEF DisconnectInv, ProgressInv
    <3>3. PICK e \in Nat : e = Elapsed
      BY <3>1
    <3>4. Reached(e + delay)
      BY <3>2, <3>3
    <3>5. Reached(e + delay)'
      BY <1>6, <2>3, <3>4, HostReached
    <3> QED
      BY <1>2, <3>3, <3>5
  <2> QED
    BY <1>1, <1>3, <2>1, <2>2, <2>3
       DEF DisconnectInv, ProgressInv, OwedInv, DisconnectBeforeConnect, deadlineVars
<1> QED
  BY <1>4, <1>5, <1>6 DEF HostStep

\* Every step keeps the owed disconnect ahead of the next session: monitor_task
\* finds it due before the main loop looks at a configured device.
LEMMA DisconnectStep ==
  TypeOK /\ SessionInv /\ DisconnectInv /\ [Next]_vars => DisconnectInv'
<1> SUFFICES ASSUME TypeOK, SessionInv, DisconnectInv, [Next]_vars
             PROVE  DisconnectInv'
  OBVIOUS
<1> USE DEF deadlineVars, progressVars, portVars, waitVars, stateVars, appVars, flagVars,
            At, Goto
<1>1. CASE (\E m \in Modes : Attach(m)) \/ Detach \/ Redetect \/ UNCHANGED vars
  <2>1. UNCHANGED <<deadlineVars, progressVars, stale, mpc, changed, connected>>
    BY <1>1 DEF Attach, Plug, Detach, Unplug, Redetect, Detect, Idle, vars, hostVars
  <2>2. ClockInv' /\ ProgressInv'
    BY <2>1, QuietStep
  <2> QED
    BY <2>1, <2>2 DEF DisconnectInv, OwedInv, DisconnectBeforeConnect, Counting
<1>2. CASE Tick
  BY <1>2, TickProgress
<1>3. CASE USB_Host_Enumerate /\ UNCHANGED appVars
  <2>1. USB_HostState' = "Powered" /\ changed' = TRUE /\ stale' = stale \ {"state"}
    BY <1>3 DEF USB_Host_Enumerate, IsrState
  <2>2. Reached(Elapsed + delay)'
    BY <2>1 DEF Reached, Passing, Enumerated
  <2>3. ClockInv'
    BY <1>3 DEF DisconnectInv, ClockInv, Counting, Elapsed
  <2>4. ~Live
    BY <1>3 DEF USB_Host_Enumerate, IsrState, SessionInv, LiveInv
  <2>5. DisconnectBeforeConnect'
    BY <1>3, <2>1, <2>4 DEF Live, DisconnectInv, DisconnectBeforeConnect
  <2> QED
    BY <2>1, <2>2, <2>3, <2>5 DEF DisconnectInv, ProgressInv, OwedInv
<1>4. CASE USB_Host_DeEnumerate /\ DeviceUnattached
  <2>1. USB_HostState' = "Unattached" /\ changed' = TRUE
    BY <1>4 DEF USB_Host_DeEnumerate, IsrState
  <2>2. Reached(Elapsed + delay)'
    BY <2>1 DEF Reached, Passing, Enumerated
  <2> QED
    BY <1>4, <2>1, <2>2, Scheduled
       DEF DisconnectInv, ProgressInv, OwedInv, DisconnectBeforeConnect
<1>5. CASE HostStep
  BY <1>5, HostDisconnect
<1>6. CASE EnumerationFailed /\ DeviceUnattached
  <2>1. mpc' = "init"
    BY <1>6 DEF EnumerationFailed
  <2> QED
    BY <1>6, <2>1, Scheduled
       DEF DisconnectInv, ProgressInv, OwedInv, DisconnectBeforeConnect
<1>7. CASE monitor_task
  <2>1. UNCHANGED <<deadlineVars, progressVars, stale, changed, connected>>
    BY <1>7 DEF monitor_task, Step
  <2>2. mpc = "android" /\ delay = 0 /\ mpc' = IF Due THEN "cancel" ELSE "flags"
    BY <1>7 DEF monitor_task, Step
  <2>3. ClockInv' /\ ProgressInv'
    BY <2>1, <2>2, QuietStep
  <2>4. ASSUME Counting, "state" \notin stale, USB_HostState = "Configured"
        PROVE  Due
    <3>1. Reached(Elapsed + delay) /\ Enumerated
      BY <2>2, <2>4 DEF DisconnectInv, ProgressInv, Enumerated, Passing
    <3>2. now \in Int /\ scheduleDisconnect \in Int /\ scheduleDisconnect > 0
      BY <2>4 DEF DisconnectInv, ClockInv, TypeOK, Time
    <3>3. Elapsed >= SettleTurns + 2 * ResetMs
      BY <2>2, <3>1, <3>2 DEF Reached, Elapsed
    <3> QED
      BY <3>2, <3>3 DEF Elapsed, Due
  <2>5. OwedInv'
    BY <2>1, <2>2, <2>4 DEF OwedInv, Counting
  <2> QED
    BY <2>1, <2>3, <2>5 DEF DisconnectInv, DisconnectBeforeConnect
<1>8. CASE handleDeviceDisconnected
  <2>1. owed' = FALSE
    BY <1>8 DEF handleDeviceDisconnected
  <2> QED
    BY <2>1 DEF DisconnectInv, ClockInv, ProgressInv, OwedInv, DisconnectBeforeConnect,
                Counting
<1>9. CASE monitor_flags \/ CheckConfigured \/ ReadPacket
  <2>1. UNCHANGED <<deadlineVars, progressVars>> /\ stale' \subseteq stale
    BY <1>9 DEF monitor_flags, CheckConfigured, ReadPacket, Step
  <2>2. /\ mpc \in {"flags", "check", "packet"}
        /\ mpc' \in {"check", "packet", "connect", "canpt"}
    BY <1>9 DEF monitor_flags, CheckConfigured, ReadPacket, Step
  <2>3. "state" \in stale' <=> "state" \in stale
    BY <1>9 DEF monitor_flags, CheckConfigured, ReadPacket
  <2>4. connected' = FALSE \/ UNCHANGED <<connected, stale>>
    BY <1>9 DEF monitor_flags, CheckConfigured, ReadPacket
  <2>5. ClockInv' /\ ProgressInv'
    BY <2>1, <2>2, <2>3, QuietStep
  <2>6. OwedInv'
    BY <2>1, <2>2, <2>3 DEF DisconnectInv, OwedInv, Counting
  <2> QED
    BY <2>1, <2>4, <2>5, <2>6 DEF DisconnectInv, DisconnectBeforeConnect
<1>10. CASE Connect
  <2>1. /\ UNCHANGED <<deadlineVars, progressVars, changed>>
        /\ mpc = "connect" /\ mpc' = "canpt"
    BY <1>10 DEF Connect, Step
  <2>2. stale' = IF changed THEN stale \cup {"connected"} ELSE stale \ {"connected"}
    BY <1>10 DEF Connect
  <2>3. "state" \in stale' <=> "state" \in stale
    BY <2>2
  <2>4. ClockInv' /\ ProgressInv'
    BY <2>1, <2>3, QuietStep
  <2>5. CASE changed
    BY <2>1, <2>2, <2>4, <2>5 DEF DisconnectInv, OwedInv, DisconnectBeforeConnect
  <2>6. CASE ~changed
    <3>1. USB_HostState = "Configured"
      BY <2>1, <2>6 DEF SessionInv, LabelInv, AtState
    <3>2. ~Counting \/ "state" \in stale
      BY <2>1, <3>1 DEF DisconnectInv, OwedInv
    <3> QED
      BY <2>1, <2>3, <2>4, <3>2 DEF DisconnectInv, OwedInv, DisconnectBeforeConnect, Counting
  <2> QED
    BY <2>5, <2>6
<1>11. CASE canpt_callbacks
  <2>1. /\ UNCHANGED <<deadlineVars, progressVars, stale, changed, connected>>
        /\ mpc = "canpt" /\ mpc' = "switch"
    BY <1>11 DEF canpt_callbacks, Step
  <2>2. ClockInv' /\ ProgressInv'
    BY <2>1, QuietStep
  <2> QED
    BY <2>1, <2>2 DEF DisconnectInv, OwedInv, DisconnectBeforeConnect
<1> QED
  BY <1>1, <1>2, <1>3, <1>4, <1>5, <1>6, <1>7, <1>8, <1>9, <1>10, <1>11
     DEF Next, Interrupt, Main, UsbTask, HostStep, AndroidTask

\* The deferred disconnect of a session is carried out before the next session
\* begins, for every settle delay and reset time that together are longer than
\* the time it is put off.  The exceptions: the main loop wrote over a change of
\* the interrupt handler, or getMsTicks() wrapped.
THEOREM DisconnectComesFirst == Spec => []DisconnectBeforeConnect
<1>1. Init => DisconnectInv
  BY DEF Init, HostInit, DisconnectInv, ClockInv, ProgressInv, OwedInv,
         DisconnectBeforeConnect, Counting
<1>2. DisconnectInv => DisconnectBeforeConnect
  BY DEF DisconnectInv
<1> QED
  BY <1>1, <1>2, DisconnectStep, SessionsAgree, TypeCorrect, PTL DEF Spec
==============================================================================
