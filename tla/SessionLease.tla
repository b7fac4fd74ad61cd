---------------------------- MODULE SessionLease ----------------------------
(***************************************************************************)
(* What run_test and run_flow promise around a recording session: sessions *)
(* share the simulator's port, a flow has it alone, and a session that     *)
(* yielded it to a flow gets it back or is closed.                         *)
(***************************************************************************)
CONSTANTS Session, Flow

VARIABLES
  phase,    (* each session: new, holds, yielded or closed                 *)
  running   (* the flows that use the port                                 *)

lease == <<phase, running>>

Holders == {s \in Session : phase[s] = "holds"}

Moves(s, from, to) == phase[s] = from /\ phase' = [phase EXCEPT ![s] = to]

LeaseInit == phase = [s \in Session |-> "new"] /\ running = {}

Open(s)  == running = {} /\ Moves(s, "new", "holds") /\ UNCHANGED running
Close(s) == Moves(s, "holds", "closed") /\ UNCHANGED running

(* A flow begins: beside closed sessions, or the one holder yields to it.  *)
Begin(f) ==
  /\ running = {}
  /\ running' = {f}
  /\ \/ Holders = {} /\ UNCHANGED phase
     \/ \E s \in Session : Holders = {s} /\ Moves(s, "holds", "yielded")

(* The flow is over; the session that yielded takes the port back.         *)
End(f) ==
  /\ f \in running
  /\ running' = running \ {f}
  /\ \/ \A s \in Session : phase[s] # "yielded" /\ UNCHANGED phase
     \/ \E s \in Session : Moves(s, "yielded", "holds")

LeaseNext ==
  \/ \E s \in Session : Open(s) \/ Close(s)
  \/ \E f \in Flow : Begin(f) \/ End(f)

LeaseSafe == LeaseInit /\ [][LeaseNext]_lease

LeaseSpec == LeaseSafe /\ \A f \in Flow : WF_lease(End(f))

=============================================================================
