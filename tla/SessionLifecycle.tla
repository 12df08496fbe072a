--------------------------- MODULE SessionLifecycle --------------------------
(***************************************************************************)
(* The incorporation_status of an archive session as the loader's stages   *)
(* and the reset's "status topology" describe it:                          *)
(*     'pending' < ('parse_failed'|'parsed') < ('extract_failed'|'done').  *)
(* Work raises one session by one tier; only a revert lowers sessions, and *)
(* a session is never extracted without having been parsed since it was    *)
(* last reverted to 'pending'.  Loader is shown to implement it when one   *)
(* worker runs, but for a session that is reset while it is in hand.       *)
(***************************************************************************)
EXTENDS Naturals

CONSTANT NumArchives

VARIABLE status

Archives == 1 .. NumArchives

Tier(st) ==
    CASE st = "absent" -> 0
      [] st = "pending" -> 1
      [] st \in {"parse_failed", "parsed"} -> 2
      [] st \in {"extract_failed", "done"} -> 3

Init == status = [a \in Archives |-> "absent"]

Register(S) ==
    /\ \A a \in S : status[a] = "absent"
    /\ status' = [a \in Archives |-> IF a \in S THEN "pending" ELSE status[a]]

Parse(a) ==
    /\ status[a] = "pending"
    /\ \E st \in {"parsed", "parse_failed"} : status' = [status EXCEPT ![a] = st]

Extract(a) ==
    /\ status[a] = "parsed"
    /\ \E st \in {"done", "extract_failed"} : status' = [status EXCEPT ![a] = st]

\* 'parsed' is a target only for sessions above it, never a lateral move.
Revert(S, target) ==
    /\ \A a \in S : Tier(status[a]) > Tier(target)
    /\ status' = [a \in Archives |-> IF a \in S THEN target ELSE status[a]]

Next ==
    \/ \E a \in Archives : Parse(a) \/ Extract(a)
    \/ \E S \in SUBSET Archives :
          Register(S) \/ \E target \in {"pending", "parsed"} : Revert(S, target)

Spec == Init /\ [][Next]_status

=============================================================================
