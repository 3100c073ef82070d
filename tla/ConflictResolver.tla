--------------------------- MODULE ConflictResolver ---------------------------
(***************************************************************************)
(* The pure reducer of src/domain/conflict-resolver.ts: which of the       *)
(* events a device observes it applies.                                    *)
(***************************************************************************)
EXTENDS Versions

initResolver == [lastApplied |-> NoVersion, seenMessageIds |-> {}]

\* Mutant: an event as new as the last applied one counts as newer.
observe_AcceptsStale(state, version, messageId) ==
    IF messageId \in state.seenMessageIds
    THEN [state |-> state, result |-> "deduplicated"]
    ELSE [state |-> [lastApplied    |-> version,
                     seenMessageIds |-> state.seenMessageIds \union {messageId}],
          result |-> "accepted"]

observe(state, version, messageId) ==
    CASE messageId \in state.seenMessageIds ->
            [state |-> state, result |-> "deduplicated"]
      [] messageId \notin state.seenMessageIds /\ Newer(version, state.lastApplied) ->
            [state |-> [lastApplied    |-> version,
                        seenMessageIds |-> state.seenMessageIds \union {messageId}],
             result |-> "accepted"]
      [] OTHER ->
            [state  |-> state,
             result |-> IF compareVersions(version, state.lastApplied) = 0
                        THEN "deduplicated" ELSE "rejected-stale"]
===============================================================================
