-------------------------------- MODULE Webview --------------------------------
(***************************************************************************)
(* The window of the desktop shell: the facade (src/shells/desktop/        *)
(* webview.ts), the bindings (bindings.ts) and the bridge that holds both  *)
(* (webview-bridge.ts).                                                    *)
(*                                                                         *)
(* Every method awaits once before its body, so calls made together run    *)
(* their bodies one after the other, and the second half of one register() *)
(* comes after the first halves of the calls behind it: `queue' is the     *)
(* microtask queue.                                                        *)
(*                                                                         *)
(* The window is external.  Its user may close it at any time, and the     *)
(* facade, which listens for no `close', goes on holding it.  Its page may *)
(* reload, which takes the binding away at once; the facade learns of that *)
(* by an event that comes later, when the queue is empty, and only from a  *)
(* window that has the event: the comments of the code say that            *)
(* BrowserWindow documents none.  What is posted is handed to the page:    *)
(* the one of this commit (assets/desktop/main.js) listens for no message. *)
(***************************************************************************)
EXTENDS Naturals, Sequences

CONSTANTS
    Message,       \* what is published
    NoMessage,
    MaxWindows,    \* bound: windows opened
    MaxQueue       \* bound: calls under way

ASSUME WebviewAssumption == {MaxWindows, MaxQueue} \subseteq Nat /\ NoMessage \notin Message

VARIABLES
    win,           \* #win, 0 when null
    registered,    \* #registered of the facade
    bridged,       \* #registered of the bridge
    exposed,       \* __clipruler on the facade
    handlers,      \* how many reload handlers there are: each registers the bridge again
    queue,         \* the calls whose bodies are due
    opened,        \* windows opened so far: they are numbered
    open,          \* windows that are open
    bound,         \* windows whose page has its binding
    listeners,     \* listeners for `reload' of each window
    reloads,       \* do the windows have a `reload' event; if not, on() throws or is in vain
    reloading,     \* `reload' events of each window that are still to come
    userClosed,    \* history: the windows that were closed by their user
    posted         \* history: what was posted, to which window, and what was there

facade      == <<win, registered, handlers>>
bridge      == <<bridged, exposed>>
windows     == <<opened, open, bound, listeners, reloads, reloading, userClosed>>
webviewVars == <<facade, bridge, queue, windows, posted>>

Windows == 1 .. MaxWindows
Call == [do : {"open", "expose", "publish", "close", "unregister"}, msg : Message \cup {NoMessage}]

Post == [msg : Message, win : Windows, to : {"page", "reloading", "unbound", "gone"}]

Do(c, m) == [do |-> c, msg |-> m]

WebviewInit ==
    /\ win = 0 /\ registered = FALSE /\ handlers = 0
    /\ bridged = FALSE /\ exposed = "absent"
    /\ queue = <<>>
    /\ opened = 0 /\ open = {} /\ bound = {}
    /\ listeners = [w \in Windows |-> 0] /\ reloading = [w \in Windows |-> 0]
    /\ reloads \in BOOLEAN
    /\ userClosed = {} /\ posted = {}

-------------------------------------------------------------------------------
(***************************************************************************)
(* The calls.                                                              *)
(***************************************************************************)
Request(c, m) ==
    /\ Len(queue) < MaxQueue
    /\ queue' = Append(queue, Do(c, m))
    /\ UNCHANGED <<facade, bridge, windows, posted>>

Listens(w) == listeners' = IF reloads THEN [listeners EXCEPT ![w] = @ + 1] ELSE listeners

\* onReload is no promise: it adds the handler and one more listener at once.
onReload ==
    /\ handlers' = handlers + 1
    /\ IF win = 0 THEN UNCHANGED listeners ELSE Listens(win)
    /\ UNCHANGED <<win, registered, bridge, queue, opened, open, bound, reloads, reloading,
                   userClosed, posted>>

Due(c) == queue # <<>> /\ Head(queue).do = c

\* The facade makes its window unless it has one, listens for its reloads if it
\* can, and binds; the bridge goes on when that has resolved.
OpenWindow ==
    IF win = 0 THEN /\ opened < MaxWindows /\ opened' = opened + 1 /\ win' = opened + 1
                    /\ open' = open \cup {win'}
               ELSE UNCHANGED <<opened, win, open>>

\* It throws when there is no BrowserWindow.  One that its user has closed is
\* taken to throw, or to do nothing.
Register ==
    /\ Due("open")
    /\ \/ /\ OpenWindow
          /\ bound' = bound \cup ({win'} \cap open')
          /\ Listens(win')
          /\ registered' = TRUE
          /\ queue' = Append(Tail(queue), Do("expose", NoMessage))
          /\ UNCHANGED <<handlers, bridge, reloads, reloading, userClosed, posted>>
       \/ /\ win \notin open
          /\ queue' = Tail(queue)
          /\ UNCHANGED <<facade, bridge, windows, posted>>

registerBindings ==
    /\ Due("expose")
    /\ exposed' = "invoke" /\ bridged' = TRUE
    /\ queue' = Tail(queue)
    /\ UNCHANGED <<facade, windows, posted>>

\* Mutant: whoever has a window posts to it.
Posts_Unregistered == win # 0

\* Otherwise, the error "called before register()".
Posts == registered /\ win # 0

\* What postMessage finds.
Target ==
    CASE win \notin open -> "gone"
      [] win \in bound   -> "page"
      [] OTHER           -> IF reloading[win] > 0 THEN "reloading" ELSE "unbound"

Publish ==
    /\ Due("publish") /\ Posts
    /\ posted' = posted \cup {[msg |-> Head(queue).msg, win |-> win, to |-> Target]}
    /\ queue' = Tail(queue)
    /\ UNCHANGED <<facade, bridge, windows>>

\* A window that is gone may throw, too.
PublishThrows ==
    /\ Due("publish") /\ (~Posts \/ win \notin open)
    /\ queue' = Tail(queue)
    /\ UNCHANGED <<facade, bridge, windows, posted>>

Close ==
    /\ Due("close")
    /\ \/ /\ win' = 0 /\ registered' = (registered /\ win = 0)
          /\ open' = open \ {win} /\ bound' = bound \ {win}
       \/ /\ win # 0 /\ win \notin open                \* it throws
          /\ UNCHANGED <<win, registered, open, bound>>
    /\ queue' = Tail(queue)
    /\ UNCHANGED <<handlers, bridge, opened, listeners, reloads, reloading, userClosed, posted>>

unregisterBindings ==
    /\ Due("unregister")
    /\ exposed' = "null" /\ bridged' = FALSE
    /\ queue' = Tail(queue)
    /\ UNCHANGED <<facade, windows, posted>>

\* bridge.invoke() reaches the admin command: otherwise it throws, for want of a
\* register(), or of the bindings.
Invokes == bridged /\ exposed = "invoke"

-------------------------------------------------------------------------------
(***************************************************************************)
(* The window.                                                             *)
(***************************************************************************)
UserCloses ==
    /\ win \in open
    /\ open' = open \ {win} /\ bound' = bound \ {win}
    /\ userClosed' = userClosed \cup {win}
    /\ UNCHANGED <<facade, bridge, queue, opened, listeners, reloads, reloading, posted>>

Reload ==
    /\ win \in open
    /\ bound' = bound \ {win}
    /\ reloading' = IF reloads THEN [reloading EXCEPT ![win] = @ + 1] ELSE reloading
    /\ UNCHANGED <<facade, bridge, queue, opened, open, listeners, reloads, userClosed, posted>>

\* Every listener clears the flag and calls every handler, whatever window the
\* facade holds by now.
ReloadEvent(w) ==
    /\ queue = <<>> /\ reloading[w] > 0
    /\ reloading' = [reloading EXCEPT ![w] = @ - 1]
    /\ registered' = (registered /\ listeners[w] = 0)
    /\ listeners[w] * handlers <= MaxQueue
    /\ queue' = [i \in 1 .. listeners[w] * handlers |-> Do("open", NoMessage)]
    /\ UNCHANGED <<win, handlers, bridge, opened, open, bound, listeners, reloads, userClosed,
                   posted>>

\* What others start, and what follows.  Publishing is left to the UI port.
WebviewInput == \/ \E c \in {"open", "close", "unregister"} : Request(c, NoMessage)
                \/ onReload \/ UserCloses \/ Reload
WebviewStep  == \/ Register \/ registerBindings \/ Close \/ unregisterBindings
                \/ \E w \in Windows : ReloadEvent(w)

WebviewTypeOK ==
    /\ win \in 0 .. MaxWindows /\ registered \in BOOLEAN /\ handlers \in Nat
    /\ bridged \in BOOLEAN /\ exposed \in {"absent", "invoke", "null"}
    /\ queue \in Seq(Call)
    /\ opened \in 0 .. MaxWindows /\ open \subseteq Windows /\ bound \subseteq open
    /\ reloads \in BOOLEAN /\ {listeners, reloading} \subseteq [Windows -> Nat]
    /\ userClosed \subseteq Windows /\ posted \subseteq Post
===============================================================================
