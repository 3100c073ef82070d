--------------------------------- MODULE Tray ---------------------------------
(***************************************************************************)
(* The tray menu (src/shells/desktop/tray-menu.ts): what it offers follows *)
(* from the daemon's status and from the last pairing attempt; a pairing   *)
(* request is answered some time after the click, and quitting empties the *)
(* menu when a timer fires.                                                *)
(***************************************************************************)
EXTENDS Naturals

CONSTANTS MaxDevices    \* bound: the device count of a status

ASSUME TrayAssumption == MaxDevices \in Nat

VARIABLES
    status,         \* #isRunning and #deviceCount
    pairingError,   \* #pairingError
    menu,           \* what the tray shows
    requests,       \* admin.pair.request calls that are not answered
    timers          \* timers that will empty the menu

trayVars == <<status, pairingError, menu, requests, timers>>

Status == [up : BOOLEAN, devices : 0 .. MaxDevices]

\* A menu is the label "Quitting...", nothing at all, or the items of a status.
Menu == [shows : {"items", "quitting", "nothing"}, error : BOOLEAN, at : Status]

rebuildMenu(st, err) == menu' = [shows |-> "items", error |-> err, at |-> st]

\* What can be clicked.
OffersQuit == menu.shows = "items"
OffersPair == menu.shows = "items" /\ menu.at.up /\ menu.at.devices > 0

TrayInit ==
    /\ status = [up |-> FALSE, devices |-> 0] /\ pairingError = FALSE
    /\ menu = [shows |-> "items", error |-> FALSE, at |-> status]
    /\ requests = 0 /\ timers = 0

setStatus(st) ==
    /\ status' = st /\ pairingError' = FALSE
    /\ rebuildMenu(st, FALSE)
    /\ UNCHANGED <<requests, timers>>

handlePair ==
    /\ OffersPair
    /\ requests' = requests + 1
    /\ UNCHANGED <<status, pairingError, menu, timers>>

\* Mutant: the answer is waited for twice.
PairAnswered_Unasked ==
    /\ requests' = requests - 1
    /\ \/ UNCHANGED <<pairingError, menu>>
       \/ pairingError' = TRUE /\ rebuildMenu(status, TRUE)
    /\ UNCHANGED <<status, timers>>

\* An error, as an answer or thrown, shows the placeholder; success shows nothing.
PairAnswered ==
    /\ requests > 0 /\ requests' = requests - 1
    /\ \/ UNCHANGED <<pairingError, menu>>
       \/ pairingError' = TRUE /\ rebuildMenu(status, TRUE)
    /\ UNCHANGED <<status, timers>>

\* Mutant: nothing empties the menu.
handleQuit_NoTimer ==
    /\ OffersQuit
    /\ menu' = [menu EXCEPT !.shows = "quitting"]
    /\ UNCHANGED <<status, pairingError, requests, timers>>

handleQuit ==
    /\ OffersQuit
    /\ menu' = [menu EXCEPT !.shows = "quitting"]
    /\ timers' = timers + 1
    /\ UNCHANGED <<status, pairingError, requests>>

QuitTimer ==
    /\ timers > 0 /\ timers' = timers - 1
    /\ menu' = [menu EXCEPT !.shows = "nothing"]
    /\ UNCHANGED <<status, pairingError, requests>>

\* The user and the shell; the daemon and the timer.
TrayInput == (\E st \in Status : setStatus(st)) \/ handlePair \/ handleQuit
TrayStep  == PairAnswered \/ QuitTimer

TrayTypeOK ==
    /\ status \in Status /\ pairingError \in BOOLEAN /\ menu \in Menu
    /\ requests \in Nat /\ timers \in Nat

===============================================================================
