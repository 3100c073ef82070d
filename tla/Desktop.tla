-------------------------------- MODULE Desktop --------------------------------
(***************************************************************************)
(* The desktop shell (src/shells/desktop/mod.ts): one process that starts  *)
(* a daemon with the UI port of the window (desktop-ui-port.ts), and the   *)
(* tray, window and pairing machines in it, under any use of their         *)
(* interfaces.  In this commit desktopMain builds the window's facade and  *)
(* bridge but calls no register(), and builds no tray: what a caller makes *)
(* of those is what the inputs of Tray and Webview are.                    *)
(*                                                                         *)
(* One daemon (Windowed) presents pairing codes in the window, or, on      *)
(* Windows and where the window cannot be built, by a stub that shows      *)
(* nothing and says it has; the others are daemons of the command line,    *)
(* whose UI port logs the code.                                            *)
(***************************************************************************)
EXTENDS Tray, Webview, Pairing

CONSTANTS
    Windowed,      \* the daemon that runs in the desktop shell
    MaxInputs      \* bound: what users, callers and peers start

ASSUME DesktopAssumption ==
    /\ Windowed \in Fingerprint /\ MaxInputs \in Nat
    /\ Message = Fingerprint \X Fingerprint

VARIABLES
    port,          \* the UI port of the shell
    shell,         \* progress of desktopMain
    code,          \* its exit code
    inputs         \* what the bound counts

vars == <<trayVars, webviewVars, pairVars, port, shell, code, inputs>>

Init ==
    /\ TrayInit /\ WebviewInit /\ PairInit
    /\ port \in {"window", "stub"} /\ shell = "off" /\ code = 0 /\ inputs = 0

Lives == shell \in {"starting", "stopping"}

Machines == <<trayVars, webviewVars, pairVars, port>>

\* --help, no arguments, no display server: nothing is built.
headlessGuard(linux, display) == linux => display

Launch ==
    /\ shell = "off"
    /\ \/ shell' = "exited" /\ code' \in {0, 2}                    \* --help, usage
       \/ \E linux, display \in BOOLEAN :
             /\ shell' = IF headlessGuard(linux, display) THEN "starting" ELSE "exited"
             /\ code'  = IF headlessGuard(linux, display) THEN 0 ELSE 1
    /\ UNCHANGED <<Machines, inputs>>

\* buildAndRunDaemon is over: desktopMain calls stop() on what it returns, and
\* exits when that has resolved, or rejected for a step of the shutdown.  A
\* daemon that cannot start ends the process.
Stop ==
    /\ shell = "starting"
    /\ \/ shell' = "stopping" /\ UNCHANGED code
       \/ shell' = "exited" /\ code' = 1
    /\ UNCHANGED <<Machines, inputs>>

Exit ==
    /\ shell = "stopping" /\ shell' = "exited" /\ code' \in {0, 1}
    /\ UNCHANGED <<Machines, inputs>>

-------------------------------------------------------------------------------
\* Mutant: the request goes out although the code could not be posted.
presentPairingCode_Lenient(n) == (Publish \/ PublishThrows) /\ Presented(n)

\* The UI port publishes; the promise of pairWith follows that of the window.
presentPairingCode(n) == (Publish /\ Presented(n)) \/ (PublishThrows /\ NotPresented(n))

\* The call of the UI port is made with the derivation of the code.
DeriveAndPresent(n) ==
    /\ Derive(n)
    /\ IF n = Windowed /\ port = "window" /\ pair'[n].at = "presenting"
       THEN Request("publish", Code(n))
       ELSE UNCHANGED webviewVars

PublishDue(n) ==
    /\ n = Windowed /\ Due("publish")
    /\ presentPairingCode(n)

\* The promise of the stub resolves.
StubPresents(n) ==
    /\ n = Windowed /\ port = "stub" /\ pair[n].at = "presenting"
    /\ Turn(n, "sending")
    /\ UNCHANGED <<shown, sent, webviewVars>>

ConsolePresents(n) == n # Windowed /\ Presented(n) /\ UNCHANGED webviewVars

-------------------------------------------------------------------------------
Input ==
    /\ inputs < MaxInputs /\ inputs' = inputs + 1
    /\ Lives
    /\ \/ TrayInput /\ UNCHANGED <<webviewVars, pairVars>>
       \/ port = "window" /\ WebviewInput /\ UNCHANGED <<trayVars, pairVars>>
       \/ PairInput /\ UNCHANGED <<trayVars, webviewVars>>
    /\ UNCHANGED <<port, shell, code>>

Follow ==
    /\ Lives
    /\ \/ TrayStep /\ UNCHANGED <<webviewVars, pairVars>>
       \/ WebviewStep /\ UNCHANGED <<trayVars, pairVars>>
       \/ \E n \in Fingerprint :
             \/ (LookUp(n) \/ Send(n)) /\ UNCHANGED <<trayVars, webviewVars>>
             \/ /\ \/ DeriveAndPresent(n) \/ PublishDue(n)
                   \/ StubPresents(n) \/ ConsolePresents(n)
                /\ UNCHANGED trayVars
    /\ UNCHANGED <<port, shell, code, inputs>>

Next == Launch \/ Stop \/ Exit \/ Input \/ Follow

Spec == Init /\ [][Next]_vars

\* Microtasks run, the timer fires, the daemon answers; the process may end first.
FairSpec == Spec /\ WF_vars(Follow)

-------------------------------------------------------------------------------
TypeOK ==
    /\ TrayTypeOK /\ WebviewTypeOK /\ PairTypeOK
    /\ port \in {"window", "stub"}
    /\ shell \in {"off", "starting", "stopping", "exited"} /\ code \in 0 .. 2
    /\ inputs \in 0 .. MaxInputs

(***************************************************************************)
(* pairWith asks a peer only after its own side has been given the code    *)
(* that the peer derives for the two of them: the command line has logged  *)
(* it, the desktop shell has posted it to a window.  A window that the     *)
(* facade has closed, has seen reload or never opened fails the pairing,   *)
(* in whatever order the calls were made, and nothing is sent.  The        *)
(* exception is the stub of mod.ts:87-94 and 118-123, whose promise        *)
(* resolves: the peer is asked, and nobody was given a code.               *)
(***************************************************************************)
Given(n, c) ==
    IF n = Windowed THEN port = "stub" \/ \E p \in posted : p.msg = c ELSE c \in shown[n]

AskedAfterCode ==
    \A n \in Fingerprint : \A m \in sent[n] : Given(n, derivePairingCode(m, n))

(***************************************************************************)
(* No window is open that the facade does not hold.  And what is posted    *)
(* goes to the page of that window, with its binding, in whatever order    *)
(* register, publish, close and the reloads were called and ran, except:   *)
(*   - the page has reloaded and its event is still to come;               *)
(*   - it has reloaded, and windows have no `reload' event (webview.ts:19, *)
(*     158-165): the facade goes on as if it were registered;              *)
(*   - the window was closed by its user, whom the facade does not hear.   *)
(***************************************************************************)
WindowHeld ==
    /\ open \subseteq {win}
    /\ \A p \in posted : /\ p.to = "unbound" => ~reloads
                         /\ p.to = "gone" => p.win \in userClosed

(***************************************************************************)
(* Unless the process ends before: a pairing comes to an outcome, whatever *)
(* becomes of the window, and the label "Quitting..." does not stay.       *)
(***************************************************************************)
PairingEnds(n) ==
    pair[n].at # "idle" ~> pair[n].at \in Outcomes \/ ~Lives

ShellSettles ==
    /\ \A n \in Fingerprint : PairingEnds(n)
    /\ menu.shows = "quitting" ~> menu.shows # "quitting" \/ ~Lives
===============================================================================
