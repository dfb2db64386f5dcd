---------------------------- MODULE StopTheWorld ----------------------------
(***************************************************************************)
(* What the runtime's stop-the-world handshake promises the collector,     *)
(* with no locks, condition variable or epochs: the world is declared      *)
(* stopped only when every member is halted, and a member that was there   *)
(* when it stopped (a captive) stays halted until the world is resumed.    *)
(* A thread may join at any time, a stopped world included: that is what   *)
(* bind_current_thread does.                                               *)
(***************************************************************************)

CONSTANT Thread

VARIABLES
  world,     \* "running", "stopping" or "stopped"
  members,   \* the threads the collector has to stop
  halted,    \* the threads parked for a collection
  captives   \* the members at the moment the world stopped

vars == <<world, members, halted, captives>>

Init ==
  /\ world = "running"
  /\ members = {}
  /\ halted = {}
  /\ captives = {}

Join(t) ==
  /\ t \notin members
  /\ members' = members \union {t}
  /\ UNCHANGED <<world, halted, captives>>

Leave(t) ==
  /\ t \in members \ halted
  /\ members' = members \ {t}
  /\ UNCHANGED <<world, halted, captives>>

Ask ==
  /\ world = "running"
  /\ world' = "stopping"
  /\ UNCHANGED <<members, halted, captives>>

Halt(t) ==
  /\ world # "running"
  /\ t \in members \ halted
  /\ halted' = halted \union {t}
  /\ UNCHANGED <<world, members, captives>>

Stop ==
  /\ world = "stopping"
  /\ members \subseteq halted
  /\ world' = "stopped"
  /\ captives' = members
  /\ UNCHANGED <<members, halted>>

Resume ==
  /\ world = "stopped"
  /\ world' = "running"
  /\ captives' = {}
  /\ UNCHANGED <<members, halted>>

Release(t) ==
  /\ world = "running"
  /\ t \in halted
  /\ halted' = halted \ {t}
  /\ UNCHANGED <<world, members, captives>>

Next ==
  \/ Ask \/ Stop \/ Resume
  \/ \E t \in Thread : Join(t) \/ Leave(t) \/ Halt(t) \/ Release(t)

Spec == Init /\ [][Next]_vars

=============================================================================
