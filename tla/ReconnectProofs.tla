---------------------------- MODULE ReconnectProofs ----------------------------
(***************************************************************************)
(* Proofs about Reconnect for any number of peers, loops and attempts and  *)
(* any delays: its type invariant, that a peer has one loop, and how       *)
(* attempts are paced.                                                     *)
(***************************************************************************)
EXTENDS Reconnect, WellFoundedInduction, TLAPS

(***************************************************************************)
(* One loop per peer.  An entry is of a loop that was started for its      *)
(* peer, and only a loop that is done is settled.                          *)
(***************************************************************************)
\* Every variable that the registry of loops depends on has its type.
Placed ==
    /\ states \in [Peer -> Loop \union {NoLoop}]
    /\ at \in [Loop -> Place] /\ peer \in [Loop -> Peer]
    /\ aborted \in [Loop -> BOOLEAN] /\ outcome \in [Loop -> Outcome]
    /\ maxAttempts \in [Loop -> Attempts] /\ attempt \in [Loop -> Nat]

EntryOfPeer == \A f \in Peer : states[f] # NoLoop =>
                  peer[states[f]] = f /\ at[states[f]] # "none"

SettledWhenDone == \A l \in Loop : at[l] # "done" => outcome[l] = "pending"

Loops == Placed /\ EntryOfPeer /\ SettledWhenDone /\ OneLoopPerPeer

LEMMA SettleKeepsLoops ==
    ASSUME Loops, NEW l \in Loop, NEW r \in Outcome, at[l] \in {"dialing", "waiting"},
           settle(l, r), UNCHANGED <<peer, maxAttempts, attempt, aborted>>
    PROVE  Loops'
<1>1. states[peer[l]] = l /\ peer[l] \in Peer
  BY DEF Loops, OneLoopPerPeer, Placed
<1>2. /\ \A f \in Peer : states'[f] = IF f = peer[l] THEN NoLoop ELSE states[f]
      /\ \A m \in Loop : /\ at'[m] = IF m = l THEN "done" ELSE at[m]
                         /\ outcome'[m] = IF m = l THEN r ELSE outcome[m]
  BY DEF Loops, Placed, settle
<1>3. Placed'
  BY DEF Loops, Placed, settle, Place
<1>4. EntryOfPeer' /\ SettledWhenDone'
  BY <1>1, <1>2 DEF Loops, Placed, EntryOfPeer, SettledWhenDone
<1>5. OneLoopPerPeer'
  BY <1>1, <1>2 DEF Loops, Placed, EntryOfPeer, OneLoopPerPeer
<1> QED
  BY <1>3, <1>4, <1>5 DEF Loops

LEMMA NextLoops == ASSUME Loops, Next PROVE Loops'
<1> PICK l \in Loop : \/ reconnect(l) \/ cancel(l)
                      \/ DialCancelled(l) \/ DialSucceeds(l) \/ DialFails(l)
                      \/ TimerFires(l)
  BY DEF Next
<1> USE DEF Loops
<1>1. CASE reconnect(l)
  <2>1. Placed'
    BY <1>1, ReconnectAssumption DEF Placed, reconnect, dial, Place
  <2>2. EntryOfPeer' /\ SettledWhenDone' /\ OneLoopPerPeer'
    BY <1>1, ReconnectAssumption
    DEF Placed, reconnect, dial, EntryOfPeer, SettledWhenDone, OneLoopPerPeer
  <2> QED
    BY <2>1, <2>2
<1>2. CASE cancel(l)
  BY <1>2 DEF cancel, Placed, EntryOfPeer, SettledWhenDone, OneLoopPerPeer
<1>3. CASE DialCancelled(l)
  BY <1>3, SettleKeepsLoops DEF DialCancelled, Outcome
<1>4. CASE DialSucceeds(l)
  BY <1>4, SettleKeepsLoops DEF DialSucceeds, Outcome
<1>5. CASE DialFails(l)
  <2>1. CASE settle(l, "abandoned")
    BY <1>5, <2>1, SettleKeepsLoops DEF DialFails, Outcome
  <2>2. CASE at' = [at EXCEPT ![l] = "waiting"] /\ UNCHANGED <<states, outcome>>
    BY <1>5, <2>2 DEF DialFails, Placed, Place, EntryOfPeer, SettledWhenDone, OneLoopPerPeer
  <2> QED
    BY <1>5, <2>1, <2>2 DEF DialFails
<1>6. CASE TimerFires(l)
  <2>1. CASE aborted[l]
    BY <1>6, <2>1
    DEF TimerFires, Placed, Place, EntryOfPeer, SettledWhenDone, OneLoopPerPeer
  <2>2. CASE ~aborted[l]
    BY <1>6, <2>2
    DEF TimerFires, dial, Placed, Place, EntryOfPeer, SettledWhenDone, OneLoopPerPeer
  <2> QED
    BY <2>1, <2>2
<1> QED
  BY <1>1, <1>2, <1>3, <1>4, <1>5, <1>6

LEMMA LoopsInvariant == Spec => []Loops
<1>1. Init => Loops
  BY ReconnectAssumption
  DEF Init, Loops, Placed, Place, Outcome, EntryOfPeer, SettledWhenDone, OneLoopPerPeer
<1>2. Loops /\ [Next]_vars => Loops'
  <2>1. Loops /\ UNCHANGED vars => Loops'
    BY DEF vars, Loops, Placed, EntryOfPeer, SettledWhenDone, OneLoopPerPeer
  <2> QED
    BY <2>1, NextLoops
<1> QED
  BY <1>1, <1>2, PTL DEF Spec

(***************************************************************************)
(* reconnect.ts: "Single reconnect loop per fingerprint".  For any number  *)
(* of peers and calls, in any order of cancels, failures and timers.       *)
(***************************************************************************)
THEOREM SingleLoop == Spec => []OneLoopPerPeer
  BY LoopsInvariant, PTL DEF Loops

-------------------------------------------------------------------------------
(***************************************************************************)
(* Delays.  What is said about them rests on what a power of two is, which *)
(* no prover here knows of the operator ^: the theorems below take its     *)
(* definition as their hypothesis.                                         *)
(***************************************************************************)
PowersOfTwo == 2 ^ 0 = 1 /\ \A n \in Nat : 2 ^ (n + 1) = 2 * 2 ^ n

LEMMA PowersPositive == ASSUME PowersOfTwo PROVE \A n \in Nat : 2 ^ n \in Nat \ {0}
<1> DEFINE Bad == {n \in Nat : 2 ^ n \notin Nat \ {0}}
           R == {ss \in Nat \X Nat : ss[1] < ss[2]}
<1> SUFFICES ASSUME Bad # {} PROVE FALSE
  OBVIOUS
<1>1. IsWellFoundedOn(R, Nat)
  BY NatLessThanWellFounded DEF OpToRel
<1>2. Bad \subseteq Nat
  OBVIOUS
<1> HIDE DEF Bad, R
<1>3. PICK n \in Bad : \A m \in Bad : <<m, n>> \notin R
  BY <1>1, <1>2, WFMin
<1>4. n \in Nat /\ 2 ^ n \notin Nat \ {0}
  BY DEF Bad
<1>5. 2 ^ 0 \in Nat \ {0}
  BY DEF PowersOfTwo
<1>6. n # 0
  BY <1>4, <1>5, Zenon
<1>7. n - 1 \in Nat /\ (n - 1) + 1 = n
  BY <1>4, <1>6
<1>8. 2 ^ ((n - 1) + 1) = 2 * 2 ^ (n - 1)
  BY <1>7 DEF PowersOfTwo
<1>9. n - 1 \notin Bad
  <2>1. <<n - 1, n>> \in R
    BY <1>4, <1>7 DEF R
  <2> QED
    BY <1>3, <2>1
<1>10. 2 ^ (n - 1) \in Nat \ {0}
  BY <1>7, <1>9 DEF Bad
<1>11. 2 ^ n = 2 * 2 ^ (n - 1)
  BY <1>7, <1>8, Zenon
<1> QED
  BY <1>4, <1>10, <1>11

(***************************************************************************)
(* The delays after an attempt: none is shorter than the base or longer    *)
(* than one and a half times the cap, and none is shorter than one after   *)
(* the attempt before, unless that had reached the cap.                    *)
(***************************************************************************)
LEMMA DelaysPaced ==
    ASSUME PowersOfTwo, NEW n \in Nat \ {0}
    PROVE  /\ backoff(n) \subseteq Nat
           /\ \A d \in backoff(n) : d >= BaseDelay /\ 2 * d <= 3 * CapDelay
           /\ \A d \in backoff(n), e \in backoff(n + 1) : e >= d \/ d >= CapDelay
<1> DEFINE p == 2 ^ (n - 1)
<1>1. p \in Nat \ {0} /\ n - 1 \in Nat /\ (n + 1) - 1 = (n - 1) + 1
  BY PowersPositive
<1>2. 2 ^ ((n - 1) + 1) = 2 * p
  BY <1>1 DEF PowersOfTwo
<1>3. 2 ^ ((n + 1) - 1) = 2 * p
  BY <1>1, <1>2
<1> HIDE DEF p
<1> DEFINE b == BaseDelay * p
<1>4. b \in Nat /\ b >= BaseDelay /\ BaseDelay * (2 * p) = 2 * b
  BY <1>1, ReconnectAssumption
<1>5. /\ rawDelay(n) = IF b < CapDelay THEN b ELSE CapDelay
      /\ rawDelay(n + 1) = IF 2 * b < CapDelay THEN 2 * b ELSE CapDelay
  BY <1>3, <1>4 DEF rawDelay, p
<1> HIDE DEF b
<1> DEFINE r == rawDelay(n)
           q == rawDelay(n + 1)
<1>6. /\ r \in Nat /\ BaseDelay <= r /\ r <= CapDelay /\ q \in Nat
      /\ q >= 2 * r \/ q = CapDelay
  BY <1>4, <1>5, ReconnectAssumption
<1>7. /\ backoff(n) = {r + j : j \in 0 .. r \div 2}
      /\ backoff(n + 1) = {q + j : j \in 0 .. q \div 2}
  BY DEF backoff
<1> HIDE DEF r, q
<1>8. \A d \in backoff(n) : d \in Nat /\ d >= r /\ 2 * d <= 3 * r
  BY <1>6, <1>7
<1>9. \A e \in backoff(n + 1) : e \in Nat /\ e >= q
  BY <1>6, <1>7
<1> QED
  BY <1>6, <1>8, <1>9, ReconnectAssumption

(***************************************************************************)
(* Where a loop is says what its last delay was: one of those that follow  *)
(* the attempt before the one under way.                                   *)
(***************************************************************************)
Delays ==
    \A l \in Loop :
        /\ at[l] = "none" => attempt[l] = 0 /\ delay[l] = 0 /\ ~aborted[l]
        /\ at[l] # "none" => attempt[l] > 0
        /\ delay[l] # 0 /\ at[l] = "dialing" =>
              attempt[l] > 1 /\ delay[l] \in backoff(attempt[l] - 1)
        /\ at[l] = "waiting" => delay[l] \in backoff(attempt[l])

Paced == TypeOK /\ Delays

LEMMA PacedInit == Init => Paced
  BY ReconnectAssumption DEF Init, Paced, TypeOK, Delays, Place, Outcome

\* What a step does to a delay, and to the attempts of a cancelled loop.
Pace ==
    \A l \in Loop :
        /\ aborted[l] => attempt'[l] = attempt[l]
        /\ delay'[l] # delay[l] =>
              /\ delay'[l] >= BaseDelay /\ 2 * delay'[l] <= 3 * CapDelay
              /\ delay'[l] >= delay[l] \/ delay[l] >= CapDelay

LEMMA PacedNext == ASSUME PowersOfTwo, Paced, Next PROVE Paced' /\ Pace
<1> PICK l \in Loop : \/ reconnect(l) \/ cancel(l)
                      \/ DialCancelled(l) \/ DialSucceeds(l) \/ DialFails(l)
                      \/ TimerFires(l)
  BY DEF Next
<1>1. CASE reconnect(l)
  BY <1>1 DEF reconnect, dial, Paced, TypeOK, Place, Delays, Pace
<1>2. CASE cancel(l)
  BY <1>2 DEF cancel, Paced, TypeOK, Delays, Pace
<1>3. CASE /\ at[l] = "dialing" /\ \E r \in Outcome : settle(l, r)
           /\ UNCHANGED <<peer, maxAttempts, attempt, aborted, delay>>
  BY <1>3 DEF settle, Paced, TypeOK, Place, Delays, Pace
<1>4. CASE /\ at[l] = "dialing" /\ ~aborted[l] /\ at' = [at EXCEPT ![l] = "waiting"]
           /\ \E d \in backoff(attempt[l]) : delay' = [delay EXCEPT ![l] = d]
           /\ UNCHANGED <<states, outcome, peer, maxAttempts, attempt, aborted>>
  <2> DEFINE n == attempt[l]
  <2>1. PICK d \in backoff(n) : delay' = [delay EXCEPT ![l] = d]
    BY <1>4
  <2>2. /\ n \in Nat \ {0} /\ delay[l] \in Nat
        /\ delay[l] # 0 => n > 1 /\ delay[l] \in backoff(n - 1)
    BY <1>4 DEF Paced, TypeOK, Delays
  <2>3. d \in Nat /\ d >= BaseDelay /\ 2 * d <= 3 * CapDelay
    BY <2>2, DelaysPaced
  <2>4. d >= delay[l] \/ delay[l] >= CapDelay
    <3>1. CASE delay[l] = 0
      BY <2>3, <3>1
    <3>2. CASE delay[l] # 0
      <4>1. n - 1 \in Nat \ {0} /\ (n - 1) + 1 = n
        BY <2>2, <3>2
      <4> QED
        BY <2>2, <3>2, <4>1, DelaysPaced
    <3> QED
      BY <3>1, <3>2
  <2>5. Delays'
    BY <1>4, <2>1, <2>2 DEF Paced, TypeOK, Delays
  <2>6. TypeOK'
    BY <1>4, <2>1, <2>3 DEF Paced, TypeOK, Place
  <2>7. Pace
    BY <1>4, <2>1, <2>3, <2>4 DEF Paced, TypeOK, Pace
  <2> QED
    BY <2>5, <2>6, <2>7 DEF Paced
<1>5. CASE TimerFires(l)
  <2>1. CASE aborted[l]
    BY <1>5, <2>1 DEF TimerFires, Paced, TypeOK, Place, Delays, Pace
  <2>2. CASE ~aborted[l]
    <3>1. attempt[l] \in Nat /\ (attempt[l] + 1) - 1 = attempt[l] /\ attempt[l] > 0
      BY <1>5 DEF TimerFires, Paced, TypeOK, Delays
    <3> QED
      BY <1>5, <2>2, <3>1 DEF TimerFires, dial, Paced, TypeOK, Place, Delays, Pace
  <2> QED
    BY <2>1, <2>2
<1> QED
  BY <1>1, <1>2, <1>3, <1>4, <1>5 DEF DialCancelled, DialSucceeds, DialFails, Outcome

LEMMA PacedInvariant == ASSUME PowersOfTwo PROVE Spec => []Paced
<1>1. Paced /\ [Next]_vars => Paced'
  <2>1. Paced /\ UNCHANGED vars => Paced'
    BY DEF vars, Paced, TypeOK, Delays
  <2> QED
    BY <2>1, PacedNext
<1> QED
  BY PacedInit, <1>1, PTL DEF Spec

(***************************************************************************)
(* Every variable has its type, for any bounds and delays: backoff is what *)
(* could break it.                                                         *)
(***************************************************************************)
THEOREM TypeCorrect == ASSUME PowersOfTwo PROVE Spec => []TypeOK
  BY PacedInvariant, PTL DEF Paced

(***************************************************************************)
(* The test of reconnect.ts: "no further dial attempt occurs" after a      *)
(* cancel; and the backoff: no delay is shorter than the base or longer    *)
(* than one and a half times the cap, and delays grow up to the cap.  For  *)
(* any number of attempts and any two delays.                              *)
(***************************************************************************)
THEOREM PacedAndCancelled == ASSUME PowersOfTwo PROVE Spec => PacedUntilCancelled
<1>1. Paced /\ Next => Pace
  BY PacedNext
<1>2. Spec => [][Pace]_vars
  BY PacedInvariant, <1>1, PTL DEF Spec
<1> QED
  BY <1>2 DEF PacedUntilCancelled, Pace
===============================================================================
