----------------------------- MODULE Emulators -----------------------------
(***************************************************************************)
(* The Android emulators as the service sees them through adb              *)
(* (src/adb/adb.go), and the Play Store inside each of them, which is not  *)
(* part of the repository: it installs and updates packages on its own, at *)
(* any moment, one emulator at a time.                                     *)
(*                                                                         *)
(* A version is its version code; the version name travels with it and is  *)
(* never compared by the code.  Code 0 stands for "not installed":         *)
(* parseVersionInfo returns an error when no code is found, and reads an   *)
(* explicit 0 the same way (adb.go:159).                                   *)
(***************************************************************************)
EXTENDS Naturals

CONSTANTS
    Emu,        \* the emulators of config.yaml (one adb.Device each)
    Pkg,        \* package names
    Name,       \* base names of the APK files a package is made of
    MaxCode,    \* bound: the highest version code the Play Store reaches
    MaxFaults,  \* bound: how many faults a behaviour may contain
    Layout      \* Layout[e][c]: the APK files "pm path" lists for code c on e

Code == 1..MaxCode
Codes0 == 0..MaxCode          \* with 0 for "none"

ASSUME EmulatorsAssumption ==
    /\ MaxCode \in Nat \ {0}
    /\ MaxFaults \in Nat
    /\ Layout \in [Emu -> [Code -> (SUBSET Name) \ {{}}]]

VARIABLES
    installed,  \* installed[e][p]: the code the Play Store has installed
    up,         \* emulators that run and accept adb connections
    attached,   \* emulators "adb devices" lists (Client.IsConnected)
    faults      \* faults so far; every fault of the system spends one

emuVars == <<installed, up, attached>>

EmuTypeOK ==
    /\ installed \in [Emu -> [Pkg -> Codes0]]
    /\ up \subseteq Emu
    /\ attached \subseteq up
    /\ faults \in 0..MaxFaults

EmuInit ==
    /\ installed \in [Emu -> [Pkg -> {0, 1}]]
    /\ up = Emu
    /\ attached = Emu
    /\ faults = 0

(***************************************************************************)
(* Every failure of the environment or of an I/O call spends one unit of a *)
(* finite budget, so that faults come at any point but not for ever.       *)
(***************************************************************************)
Fault ==
    /\ faults < MaxFaults
    /\ faults' = faults + 1

-----------------------------------------------------------------------------
(* What the adb client answers. *)

IsConnected(e) == e \in attached

(***************************************************************************)
(* Reconnect runs "adb connect" up to five times; it succeeds when the     *)
(* emulator is up.  Asking a client for a version (the goroutine of        *)
(* checkPackage) reconnects first when the emulator is not attached.       *)
(***************************************************************************)
Reconnect(e) == e \in up

ConnectIfNeeded(e) ==
    /\ IsConnected(e) \/ Reconnect(e)
    /\ attached' = attached \cup {e}

(* The code dumpsys reports; 0 when the package is not installed. *)
GetInstalledVersion(e, p) == installed[e][p]

(* The files "pm path" lists; none is an error (adb.go:177). *)
PullAPKPaths(e, p) ==
    IF installed[e][p] = 0 THEN {} ELSE Layout[e][installed[e][p]]

(***************************************************************************)
(* "adb pull" of a path listed when code c was installed.  The install     *)
(* directory of a version disappears when the package is updated, so the   *)
(* pull succeeds only while c is still installed.                          *)
(***************************************************************************)
PullFile(e, p, c) == e \in attached /\ installed[e][p] = c

(* main.connectEmulators tries every emulator once when the service starts *)
ConnectAll == attached' = up

-----------------------------------------------------------------------------
(* The emulators' own steps. *)

PlayUpdate(e, p) ==
    \E c \in Code :
        /\ c > installed[e][p]
        /\ installed' = [installed EXCEPT ![e][p] = c]
        /\ UNCHANGED <<up, attached, faults>>

Detach(e) ==        \* the adb transport drops; the emulator keeps running
    /\ e \in attached
    /\ Fault
    /\ attached' = attached \ {e}
    /\ UNCHANGED <<installed, up>>

Halt(e) ==          \* the emulator goes down
    /\ e \in up
    /\ Fault
    /\ up' = up \ {e}
    /\ attached' = attached \ {e}
    /\ UNCHANGED installed

Boot(e) ==          \* it is started again; adb does not attach by itself
    /\ e \notin up
    /\ up' = up \cup {e}
    /\ UNCHANGED <<installed, attached, faults>>

EmuNext ==
    \E e \in Emu :
        \/ \E p \in Pkg : PlayUpdate(e, p)
        \/ Detach(e)
        \/ Halt(e)
        \/ Boot(e)
=============================================================================
