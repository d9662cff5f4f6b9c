---------------------------- MODULE AgentLifecycle ----------------------------
(***************************************************************************)
(* What the registry promises about the life of an agent, as somebody who  *)
(* only looks at the stored objects sees it: no controllers, no caches, no *)
(* copies, one transition at a time.                                       *)
(*                                                                         *)
(*   Absent --Appear--> judged again and again, approved at most once      *)
(*          --Leave--> frozen, and waiting for its finalizer --Vanish-->   *)
(***************************************************************************)
EXTENDS Integers

CONSTANTS
    Keys,       \* namespaced names an agent may have
    Absent      \* "there is no such agent"

VARIABLE life   \* the visible life of each key, or Absent

Judgements == {"Pending", "Ready", "Error", "Unreachable"}

Life == [phase    : Judgements \cup {"unset"},
         failures : Nat,
         approved : BOOLEAN,
         leaving  : BOOLEAN]

Fresh == [phase |-> "unset", failures |-> 0, approved |-> FALSE, leaving |-> FALSE]

LifecycleInit == life \in [Keys -> {Fresh, Absent}]

Becomes(k, l) == life' = [life EXCEPT ![k] = l]

Appear(k) == life[k] = Absent /\ Becomes(k, Fresh)

(* What a judgement does to the failures that were counted before it. *)
Tally(phase, before, after) ==
    /\ after \in {0, before, before + 1}
    /\ phase = "Ready" => after = 0
    /\ phase = "Unreachable" => after > 0
    /\ phase = "Pending" => after = before

(* Only an agent that is not leaving is judged, and no judgement touches   *)
(* its approval.                                                           *)
Judge(k) ==
    /\ life[k] # Absent
    /\ ~life[k].leaving
    /\ \E p \in Judgements, n \in {0, life[k].failures, life[k].failures + 1} :
           /\ Tally(p, life[k].failures, n)
           /\ Becomes(k, [phase |-> p, failures |-> n,
                          approved |-> life[k].approved, leaving |-> FALSE])

(* An approval changes nothing else, and nothing takes it back. *)
Approve(k) ==
    /\ life[k] # Absent
    /\ Becomes(k, [life[k] EXCEPT !.approved = TRUE])

Leave(k) ==
    /\ life[k] # Absent
    /\ Becomes(k, [life[k] EXCEPT !.leaving = TRUE])

(* An agent that has been judged leaves before it vanishes. *)
Vanish(k) ==
    /\ life[k] # Absent
    /\ life[k].leaving \/ life[k].phase = "unset"
    /\ Becomes(k, Absent)

LifecycleNext ==
    \E k \in Keys : Appear(k) \/ Judge(k) \/ Approve(k) \/ Leave(k) \/ Vanish(k)

LifecycleSpec == LifecycleInit /\ [][LifecycleNext]_life

=============================================================================
