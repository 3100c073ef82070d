------------------------------- MODULE Reconnect -------------------------------
(***************************************************************************)
(* reconnect (src/infrastructure/transport/reconnect.ts): a loop per peer  *)
(* that dials until it succeeds, is cancelled or has failed too often,     *)
(* with a growing delay between two attempts.                              *)
(*                                                                         *)
(* A call for a peer that has an entry in `states` returns the loop of     *)
(* that entry.  The map `claiming` decides nothing: Map.set returns the    *)
(* map, so that every call takes its claim for lost and looks at `states`; *)
(* `pendingOutcomes` is never read.  Both are left out.                    *)
(***************************************************************************)
EXTENDS Integers, FiniteSets

CONSTANTS
    Peer,        \* fingerprints
    Loop,        \* bound: the loops that are started
    NoLoop,      \* no entry in states
    Attempts,    \* values of maxAttempts
    BaseDelay,   \* baseDelayMs
    CapDelay     \* capDelayMs

ASSUME ReconnectAssumption ==
    /\ NoLoop \notin Loop
    /\ Attempts \subseteq Nat \ {0}
    /\ BaseDelay \in Nat /\ CapDelay \in Nat /\ BaseDelay <= CapDelay

VARIABLES
    states,      \* the loop of each peer
    at,          \* where a loop is
    peer,        \* whose loop it is
    maxAttempts, \* its options.maxAttempts
    attempt,     \* its attempts so far
    aborted,     \* its AbortController
    outcome,     \* its outcome promise
    delay        \* history: the last delay it waited

vars == <<states, at, peer, maxAttempts, attempt, aborted, outcome, delay>>

Place   == {"none", "dialing", "waiting", "done"}
Outcome == {"pending", "resolved", "abandoned", "cancelled", "thrown"}

Init ==
    /\ states = [f \in Peer |-> NoLoop]
    /\ at = [l \in Loop |-> "none"]
    /\ peer \in [Loop -> Peer] /\ maxAttempts \in [Loop -> Attempts]
    /\ attempt = [l \in Loop |-> 0]
    /\ aborted = [l \in Loop |-> FALSE]
    /\ outcome = [l \in Loop |-> "pending"]
    /\ delay = [l \in Loop |-> 0]

-------------------------------------------------------------------------------
\* cleanup, and how the outcome is settled: "thrown" is an onConnected that
\* throws, after which nobody settles it.
settle(l, result) ==
    /\ states' = [states EXCEPT ![peer[l]] = NoLoop]
    /\ at' = [at EXCEPT ![l] = "done"]
    /\ outcome' = [outcome EXCEPT ![l] = result]

\* A loop dials.
dial(l) ==
    /\ at' = [at EXCEPT ![l] = "dialing"]
    /\ attempt' = [attempt EXCEPT ![l] = @ + 1]

\* Mutant: the entry is the promise, not the state that holds it.
reconnect_KeepsPromise(l) ==
    /\ at[l] = "none" /\ states[peer[l]] = NoLoop
    /\ states' = [states EXCEPT ![peer[l]] = outcome[l]]
    /\ dial(l)
    /\ UNCHANGED <<peer, maxAttempts, aborted, outcome, delay>>

\* Mutant: whether the peer has a loop is not asked.
reconnect_NoLookup(l) ==
    /\ at[l] = "none"
    /\ states' = [states EXCEPT ![peer[l]] = l]
    /\ dial(l)
    /\ UNCHANGED <<peer, maxAttempts, aborted, outcome, delay>>

\* A call for a peer without an entry: the loop starts and dials at once.
reconnect(l) ==
    /\ at[l] = "none" /\ states[peer[l]] = NoLoop
    /\ states' = [states EXCEPT ![peer[l]] = l]
    /\ dial(l)
    /\ UNCHANGED <<peer, maxAttempts, aborted, outcome, delay>>

\* Only the controller is aborted; the loop finds out by itself.
cancel(l) ==
    /\ at[l] # "none" /\ ~aborted[l]
    /\ aborted' = [aborted EXCEPT ![l] = TRUE]
    /\ UNCHANGED <<states, at, peer, maxAttempts, attempt, outcome, delay>>

-------------------------------------------------------------------------------
(***************************************************************************)
(* What follows the await of a dial.                                       *)
(***************************************************************************)
\* The delay before the next attempt: doubled with every attempt up to the
\* cap, and up to half of it on top.
rawDelay(n) == IF BaseDelay * 2 ^ (n - 1) < CapDelay THEN BaseDelay * 2 ^ (n - 1) ELSE CapDelay

backoff(n) == {rawDelay(n) + jitter : jitter \in 0 .. rawDelay(n) \div 2}

\* The signal was aborted: the loop ends, whether the dial succeeded or not.
DialCancelled(l) ==
    /\ at[l] = "dialing" /\ aborted[l]
    /\ settle(l, "cancelled")
    /\ UNCHANGED <<peer, maxAttempts, attempt, aborted, delay>>

DialSucceeds(l) ==
    /\ at[l] = "dialing" /\ ~aborted[l]
    /\ settle(l, "resolved") \/ settle(l, "thrown")
    /\ UNCHANGED <<peer, maxAttempts, attempt, aborted, delay>>

\* Mutant: the last failure cleans up and returns.
DialFails_Silent(l) ==
    /\ at[l] = "dialing" /\ ~aborted[l]
    /\ \/ /\ attempt[l] >= maxAttempts[l]
          /\ settle(l, "pending") /\ UNCHANGED delay
       \/ /\ attempt[l] < maxAttempts[l]
          /\ at' = [at EXCEPT ![l] = "waiting"]
          /\ \E d \in backoff(attempt[l]) : delay' = [delay EXCEPT ![l] = d]
          /\ UNCHANGED <<states, outcome>>
    /\ UNCHANGED <<peer, maxAttempts, attempt, aborted>>

DialFails(l) ==
    /\ at[l] = "dialing" /\ ~aborted[l]
    /\ \/ /\ attempt[l] >= maxAttempts[l]
          /\ settle(l, "abandoned") /\ UNCHANGED delay
       \/ /\ attempt[l] < maxAttempts[l]
          /\ at' = [at EXCEPT ![l] = "waiting"]
          /\ \E d \in backoff(attempt[l]) : delay' = [delay EXCEPT ![l] = d]
          /\ UNCHANGED <<states, outcome>>
    /\ UNCHANGED <<peer, maxAttempts, attempt, aborted>>

\* Mutant: the timer does not look at the signal.
TimerFires_Dials(l) ==
    /\ at[l] = "waiting"
    /\ dial(l)
    /\ UNCHANGED <<states, peer, maxAttempts, aborted, outcome, delay>>

\* The backoff is over.  After a cancel the timer only returns: nobody cleans
\* up, and nobody settles the outcome.
TimerFires(l) ==
    /\ at[l] = "waiting"
    /\ IF aborted[l] THEN at' = [at EXCEPT ![l] = "done"] /\ UNCHANGED attempt ELSE dial(l)
    /\ UNCHANGED <<states, peer, maxAttempts, aborted, outcome, delay>>

DialEnds(l) == DialCancelled(l) \/ DialSucceeds(l) \/ DialFails(l)

Next == \E l \in Loop : \/ reconnect(l) \/ cancel(l)
                        \/ DialCancelled(l) \/ DialSucceeds(l) \/ DialFails(l)
                        \/ TimerFires(l)

Spec == Init /\ [][Next]_vars

\* A dial ends, and a timer fires.
FairSpec == Spec /\ \A l \in Loop : WF_vars(DialEnds(l)) /\ WF_vars(TimerFires(l))

-------------------------------------------------------------------------------
(***************************************************************************)
(* PROPERTIES                                                              *)
(***************************************************************************)
\* Every variable has its type.
TypeOK ==
    /\ states \in [Peer -> Loop \union {NoLoop}]
    /\ at \in [Loop -> Place] /\ peer \in [Loop -> Peer]
    /\ maxAttempts \in [Loop -> Attempts]
    /\ attempt \in [Loop -> Nat] /\ delay \in [Loop -> Nat]
    /\ aborted \in [Loop -> BOOLEAN] /\ outcome \in [Loop -> Outcome]

(***************************************************************************)
(* reconnect.ts: "Single reconnect loop per fingerprint".  A peer is never *)
(* dialled by two loops at a time, cancelled ones included; a loop that    *)
(* dials or waits is the one that later calls find; and what they find is  *)
(* not settled.  One exception, in the code: a loop cancelled while it     *)
(* waits keeps its entry for good, and its outcome is never settled.       *)
(***************************************************************************)
OneLoopPerPeer ==
    /\ \A l \in Loop : at[l] \in {"dialing", "waiting"} => states[peer[l]] = l
    /\ \A f \in Peer : states[f] # NoLoop =>
          LET l == states[f]
          IN  outcome[l] = "pending" /\ (at[l] = "done" => aborted[l])

(***************************************************************************)
(* The test of reconnect.ts: "no further dial attempt occurs" after a      *)
(* cancel.  And attempts are paced: no delay is shorter than the base,     *)
(* longer than one and a half times the cap, or, until they reach the cap, *)
(* shorter than the one before it, for doubling outgrows the jitter.       *)
(***************************************************************************)
PacedUntilCancelled ==
    [][\A l \in Loop :
          /\ aborted[l] => attempt'[l] = attempt[l]
          /\ delay'[l] # delay[l] =>
                /\ delay'[l] >= BaseDelay /\ 2 * delay'[l] <= 3 * CapDelay
                /\ delay'[l] >= delay[l] \/ delay[l] >= CapDelay]_vars

(***************************************************************************)
(* A loop that nobody cancels, and whose callback does not throw, settles. *)
(***************************************************************************)
LoopSettles ==
    \A l \in Loop : (at[l] # "none") ~> (outcome[l] # "pending" \/ aborted[l])
================================================================================
