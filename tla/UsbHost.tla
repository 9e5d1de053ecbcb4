------------------------------- MODULE UsbHost -------------------------------
(***************************************************************************)
(* The USB host library as the Android host uses it (Host_LPC.c of         *)
(* nxpUSBlib).  USB_Host_ProcessNextHostState, called once per turn of the *)
(* main loop, takes an attached device from state to state until it has an *)
(* address.  The interrupt handler of the host controller runs             *)
(* USB_Host_Enumerate and USB_Host_DeEnumerate, which write the same       *)
(* variable USB_HostState at any moment, also between the switch on it and *)
(* the assignment at the end of a case.                                    *)
(*                                                                         *)
(* The events the library raises are handlers of the application;          *)
(* AndroidHost joins them to the actions of this module.                   *)
(***************************************************************************)
EXTENDS Integers

CONSTANTS SettleTurns,   \* HOST_DEVICE_SETTLE_DELAY_MS: 1000
          ConnectTurns,  \* turns waited before the reset: 100,
          ResetTurns,    \*   after a reset: 200,
          AddressTurns,  \*   after the address is set: 100
          WaitMod,       \* WaitMSRemaining counts modulo this (2^16)
          ResetMs,       \* duration of HcdRhPortReset
          Modes          \* kinds of devices that are attached

ASSUME TurnsAssumption == /\ WaitMod \in Nat
                          /\ SettleTurns \in 1 .. WaitMod - 1
                          /\ ConnectTurns \in 1 .. WaitMod - 1
                          /\ ResetTurns \in 1 .. WaitMod - 1
                          /\ AddressTurns \in 1 .. WaitMod - 1
                          /\ ResetMs \in Nat \ {0}
                          /\ "none" \notin Modes

HostStates == {"WaitForDevice", "Unattached", "Powered", "WaitForDeviceSettle",
               "WaitForConnect", "DoReset", "ConfigPipe", "Default", "PostReset",
               "PostAddressSet", "Addressed", "Configured"}

Labels == {"switch", "DoReset.wait", "Default.wait", "PostReset.address",
           "PostReset.wait", "complete", "config", "setconf", "configured", "tail", "init",
           "unattached", "android", "cancel", "flags", "check", "packet",
           "connect", "canpt"}

VARIABLES
  USB_HostState,
  WaitMSRemaining, PostWaitState,
  mpc,      \* where the main loop is; in a case of the switch, the state's name
  err,      \* ErrorCode # HOST_ENUMERROR_NoError
  delay,    \* milliseconds left of a busy wait of the main loop
  pipe,     \* the control pipe is open
  port,     \* the device at the port, or "none" (hardware)
  csc,      \* ConnectStatusChange, the interrupt is pending (hardware)
  hidden,   \* the controller was reset and has not detected the device yet
  queued,   \* the control pipe's status is HCD_STATUS_TRANSFER_QUEUED and the
            \* controller is not going to change it
  changed,  \* an interrupt wrote USB_HostState since the main loop read it
  stale     \* variables the main loop wrote over such a change

portVars == <<port, csc, hidden, queued>>
waitVars == <<WaitMSRemaining, PostWaitState>>
stateVars == <<USB_HostState, stale>>
hostVars == <<portVars, waitVars, stateVars, mpc, err, delay, pipe, changed>>

HostTypeOK ==
  /\ USB_HostState \in HostStates
  /\ WaitMSRemaining \in 0 .. WaitMod - 1 /\ PostWaitState \in HostStates
  /\ mpc \in HostStates \cup Labels
  /\ err \in BOOLEAN
  /\ delay \in 0 .. ResetMs
  /\ pipe \in BOOLEAN /\ changed \in BOOLEAN
  /\ port \in Modes \cup {"none"} /\ csc \in BOOLEAN /\ hidden \in BOOLEAN
  /\ queued \in BOOLEAN
  /\ stale \subseteq {"state", "connected"}

\* After USB_Init.
HostInit ==
  /\ USB_HostState = "Unattached"
  /\ WaitMSRemaining = 0 /\ PostWaitState = "WaitForDevice"
  /\ mpc = "switch" /\ err = FALSE /\ delay = 0
  /\ pipe = FALSE /\ port = "none" /\ csc = FALSE /\ hidden = FALSE
  /\ queued = FALSE
  /\ changed = FALSE /\ stale = {}

-----------------------------------------------------------------------------
(* The hardware.  The handler is done with a change of the connection      *)
(* before the next one.                                                    *)

Idle == UNCHANGED <<waitVars, stateVars, mpc, err, pipe, changed>>

Plug(m) == /\ port = "none" /\ ~csc
           /\ port' = m /\ csc' = TRUE
           /\ Idle /\ UNCHANGED <<hidden, queued, delay>>

Unplug == /\ port # "none" /\ ~csc
          /\ port' = "none" /\ csc' = ~hidden /\ hidden' = FALSE
          /\ Idle /\ UNCHANGED <<queued, delay>>

\* After a reset the controller reports a device that is there once more.
Detect == /\ hidden
          /\ hidden' = FALSE /\ csc' = TRUE
          /\ Idle /\ UNCHANGED <<port, queued, delay>>

\* A millisecond of a busy wait passes.
DelayPasses == /\ delay' = IF delay > 0 THEN delay - 1 ELSE 0
               /\ Idle /\ UNCHANGED portVars

-----------------------------------------------------------------------------
(* The interrupt handler.                                                  *)

IsrState(s) == /\ csc
               /\ csc' = FALSE
               /\ USB_HostState' = s
               /\ changed' = TRUE
               /\ UNCHANGED <<port, hidden, waitVars, mpc, err, delay>>

USB_Host_Enumerate == /\ port # "none"
                      /\ IsrState("Powered")
                      /\ stale' = stale \ {"state"}
                      /\ UNCHANGED <<pipe, queued>>

\* Mutant of USB_Host_DeEnumerate: the state is left as it is.
USB_Host_DeEnumerateKeeps == /\ port = "none"
                             /\ IsrState(USB_HostState)
                             /\ stale' = {}
                             /\ pipe' = FALSE
                             /\ queued' = (queued /\ ~pipe)

\* The pipes are closed, which ends the wait for a transfer on them (FreeED);
\* the application clears connected.
USB_Host_DeEnumerate == /\ port = "none"
                        /\ IsrState("Unattached")
                        /\ stale' = {}
                        /\ pipe' = FALSE
                        /\ queued' = (queued /\ ~pipe)

-----------------------------------------------------------------------------
(* USB_Host_ProcessNextHostState.                                          *)

\* The main loop runs on at l: it is not in a busy wait and not interrupted.
At(l) == mpc = l /\ delay = 0 /\ ~queued /\ ~csc

Goto(l) == mpc' = l

\* The main loop assigns USB_HostState, whatever an interrupt wrote meanwhile.
SetState(s) == /\ USB_HostState' = s
               /\ stale' = IF changed THEN stale \cup {"state"} ELSE stale

\* HOST_TASK_NONBLOCK_WAIT
NonblockWait(turns, next) == /\ SetState("WaitForDevice")
                             /\ WaitMSRemaining' = turns
                             /\ PostWaitState' = next

\* A control transfer may fail, and does without the device or the pipe; it
\* may also not end at all (TransferHangs).
CanTransfer == pipe /\ port # "none"

Switch == /\ At("switch")
          /\ changed' = FALSE
          /\ Goto(USB_HostState)
          /\ UNCHANGED <<portVars, waitVars, stateVars, err, delay, pipe>>

\* Mutant of WaitTurn: the counter is tested before it is decremented.
WaitTurnLate ==
  /\ At("WaitForDevice")
  /\ WaitMSRemaining' = IF WaitMSRemaining > 0 THEN WaitMSRemaining - 1 ELSE 0
  /\ Goto("tail")
  /\ UNCHANGED <<portVars, stateVars, PostWaitState, err, delay, pipe, changed>>

\* USB_Host_WaitMS returns at once: the wait counts turns of the main loop.
WaitTurn ==
  /\ At("WaitForDevice")
  /\ IF WaitMSRemaining = 1 THEN SetState(PostWaitState) ELSE UNCHANGED stateVars
  /\ WaitMSRemaining' = IF WaitMSRemaining > 0 THEN WaitMSRemaining - 1 ELSE 0
  /\ Goto("tail")
  /\ UNCHANGED <<portVars, PostWaitState, err, delay, pipe, changed>>

\* Mutant of Powered: the device is not given time to settle.
PoweredNoSettle ==
  /\ At("Powered")
  /\ SetState("WaitForDeviceSettle")
  /\ WaitMSRemaining' = 0
  /\ Goto("tail")
  /\ UNCHANGED <<portVars, PostWaitState, err, delay, pipe, changed>>

Powered ==
  /\ At("Powered")
  /\ SetState("WaitForDeviceSettle")
  /\ WaitMSRemaining' = SettleTurns
  /\ Goto("tail")
  /\ UNCHANGED <<portVars, PostWaitState, err, delay, pipe, changed>>

\* WaitMSRemaining-- wraps on the last turn.
Settle ==
  /\ At("WaitForDeviceSettle")
  /\ IF WaitMSRemaining > 0
     THEN delay' = 1 /\ UNCHANGED stateVars
     ELSE SetState("WaitForConnect") /\ UNCHANGED delay
  /\ WaitMSRemaining' = (WaitMSRemaining - 1) % WaitMod
  /\ Goto("tail")
  /\ UNCHANGED <<portVars, PostWaitState, err, pipe, changed>>

WaitForConnect ==
  /\ At("WaitForConnect")
  /\ NonblockWait(ConnectTurns, "DoReset")
  /\ Goto("tail")
  /\ UNCHANGED <<portVars, err, delay, pipe, changed>>

DoReset ==
  /\ At("DoReset")
  /\ delay' = ResetMs
  /\ Goto("DoReset.wait")
  /\ UNCHANGED <<portVars, waitVars, stateVars, err, pipe, changed>>

\* Pipe_ConfigurePipe may fail.
ConfigPipe ==
  /\ At("ConfigPipe")
  /\ \/ pipe' = TRUE /\ SetState("Default") /\ UNCHANGED err
     \/ err' = TRUE /\ UNCHANGED <<pipe, stateVars>>
  /\ Goto("tail")
  /\ UNCHANGED <<portVars, waitVars, delay, changed>>

\* The size of the control pipe is asked for; the pipe is closed and the port
\* is reset once more.
Default ==
  /\ At("Default")
  /\ \/ /\ CanTransfer
        /\ pipe' = FALSE
        /\ delay' = ResetMs
        /\ Goto("Default.wait")
        /\ UNCHANGED err
     \/ /\ err' = TRUE
        /\ Goto("tail")
        /\ UNCHANGED <<pipe, delay>>
  /\ UNCHANGED <<portVars, waitVars, stateVars, changed>>

\* The pipe is opened again; Pipe_ConfigurePipe may fail.
PostReset ==
  /\ At("PostReset")
  /\ \/ pipe' = TRUE /\ Goto("PostReset.address") /\ UNCHANGED err
     \/ err' = TRUE /\ Goto("tail") /\ UNCHANGED pipe
  /\ UNCHANGED <<portVars, waitVars, stateVars, delay, changed>>

\* The address is set and the pipe is closed.
SetAddress ==
  /\ At("PostReset.address")
  /\ \/ /\ CanTransfer
        /\ pipe' = FALSE
        /\ Goto("PostReset.wait")
        /\ UNCHANGED err
     \/ /\ err' = TRUE
        /\ Goto("tail")
        /\ UNCHANGED pipe
  /\ UNCHANGED <<portVars, waitVars, stateVars, delay, changed>>

\* The wait at the end of three of the cases.
EndCase ==
  /\ \/ At("DoReset.wait") /\ NonblockWait(ResetTurns, "ConfigPipe")
     \/ At("Default.wait") /\ NonblockWait(ResetTurns, "PostReset")
     \/ At("PostReset.wait") /\ NonblockWait(AddressTurns, "PostAddressSet")
  /\ Goto("tail")
  /\ UNCHANGED <<portVars, err, delay, pipe, changed>>

\* Whether the pipe could be opened is not looked at.  The event
\* EnumerationComplete follows.
PostAddressSet ==
  /\ At("PostAddressSet")
  /\ pipe' \in BOOLEAN
  /\ SetState("Addressed")
  /\ Goto("complete")
  /\ UNCHANGED <<portVars, waitVars, err, delay, changed>>

OtherStates ==
  /\ \E s \in {"Unattached", "Addressed", "Configured"} : At(s)
  /\ Goto("tail")
  /\ UNCHANGED <<portVars, waitVars, stateVars, err, delay, pipe, changed>>

\* Where the main loop makes a control transfer.
Transfers == {"Default", "PostReset.address", "complete", "config", "setconf"}

\* WaitForTransferComplete has no timeout.  The main loop stays in it when the
\* device never finishes the transfer, until the device is removed, and for
\* good when the interrupt handler closed the pipe after HcdControlTransfer
\* checked it: the status that FreeED wrote is then overwritten.
TransferHangs ==
  /\ \E l \in Transfers : At(l)
  /\ CanTransfer \/ (changed /\ ~pipe)
  /\ queued' = TRUE
  /\ UNCHANGED <<port, csc, hidden, waitVars, stateVars, mpc, err, delay, pipe,
                 changed>>

NextHostState == \/ Switch
                 \/ WaitTurn \/ Powered \/ Settle \/ WaitForConnect \/ DoReset
                 \/ ConfigPipe \/ Default \/ PostReset \/ SetAddress \/ EndCase
                 \/ PostAddressSet \/ OtherStates \/ TransferHangs

Failed == err /\ USB_HostState # "Unattached"

NoError == /\ At("tail") /\ ~Failed
           /\ Goto("android")
           /\ err' = FALSE
           /\ UNCHANGED <<portVars, waitVars, stateVars, delay, pipe, changed>>

\* The events EnumerationFailed and DeviceUnattached are raised.
EnumerationFailed ==
  /\ At("tail") /\ Failed
  /\ Goto("init")
  /\ err' = FALSE
  /\ stale' = stale \ {"connected"}
  /\ UNCHANGED <<portVars, waitVars, USB_HostState, delay, pipe, changed>>

\* USB_ResetInterface: HcdInitDriver resets the controller; then the state is
\* assigned, with the interrupt enabled.
ResetController ==
  /\ At("init")
  /\ hidden' = (port # "none")
  /\ changed' = FALSE
  /\ stale' = stale \ {"state"}
  /\ pipe' = FALSE
  /\ Goto("unattached")
  /\ UNCHANGED <<port, csc, queued, waitVars, USB_HostState, err, delay>>

ResetState ==
  /\ At("unattached")
  /\ SetState("Unattached")
  /\ Goto("android")
  /\ UNCHANGED <<portVars, waitVars, err, delay, pipe, changed>>

-----------------------------------------------------------------------------
(* Requests of the application on the control pipe.                        *)

\* A request that leads to label ok, or that fails and ends the event.
Request(l, ok) ==
  /\ At(l)
  /\ \/ CanTransfer /\ Goto(ok)
     \/ Goto("tail")
  /\ UNCHANGED <<portVars, waitVars, stateVars, err, delay, pipe, changed>>

\* USB_Host_SetDeviceConfiguration, after its transfer
SetConfigured ==
  /\ At("configured")
  /\ SetState("Configured")
  /\ Goto("tail")
  /\ UNCHANGED <<portVars, waitVars, err, delay, pipe, changed>>
==============================================================================
