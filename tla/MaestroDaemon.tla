--------------------------- MODULE MaestroDaemon ---------------------------
(***************************************************************************)
(* The warm `maestro mcp` child process (src/maestro/daemon.ts), the       *)
(* driver that starts, respawns and stops it and falls back to the CLI     *)
(* (src/maestro/daemon-driver.ts), and the retry loop around every         *)
(* JSON-RPC request (src/retry.ts).                                        *)
(*                                                                         *)
(* A call of the driver first makes sure that the daemon is alive, which   *)
(* may respawn it, then sends one request, repeated after a transient      *)
(* failure.  Calls overlap: the poller reads the hierarchy while a tool    *)
(* call taps.  What a child wrote is read before its exit is handled.      *)
(***************************************************************************)
EXTENDS Naturals, FiniteSets

CONSTANTS
  Call,         (* calls of the driver: hierarchy reads and actions        *)
  Open,         (* the call of driver.start() that opens the session       *)
  Kinds,        (* Kinds[c]: what the call c may be                        *)
  MaxAttempts,  (* attempts of one request, 3 in the code                  *)
  MaxSpawns     (* bound on the children ever spawned                      *)

(* read: a hierarchy; act: tap, inputText, back; point: a tap on a point.  *)
Kind == {"read", "act", "point"}

ASSUME DaemonAssumption ==
  /\ Kinds \in [Call -> SUBSET Kind]
  /\ Open \notin Call
  /\ MaxAttempts \in Nat \ {0}
  /\ MaxSpawns \in Nat \ {0}

Rpc   == Call \cup {Open}
Child == 1 .. MaxSpawns

VARIABLES
  spawned,       (* how many children were spawned; the last one's number  *)
  alive,         (* children that run                                      *)
  signalled,     (* children that stop() killed                            *)
  queue,         (* requests a child has not answered                      *)
  performed,     (* how often the device performed the action of a call    *)
  process,       (* MaestroDaemon.process, 0 for null                      *)
  initialized,   (* MaestroDaemon.initialized                              *)
  requestId,     (* MaestroDaemon.requestId                                *)
  daemonStarted, (* MaestroDaemonDriver.daemonStarted                      *)
  cooling,       (* less than RESPAWN_COOLDOWN_MS since lastRespawnAt      *)
  stopping,      (* where driver.stop() stands                             *)
  call           (* where each call stands; sent: it is in pendingRequests *)

world  == <<spawned, alive, signalled, queue, performed>>
daemon == <<process, initialized, requestId>>
driver == <<daemonStarted, cooling, stopping>>
vars   == <<world, daemon, driver, call>>

Request == [child : Child, id : Nat, by : Rpc, tool : BOOLEAN]

CallState ==
  [kind      : Kind \cup {"none", "open"},
   stage     : {"idle", "handshake", "tool", "over"},
   wait      : {"no", "sent", "backoff", "respawn"},
   attempt   : 0 .. MaxAttempts,
   id        : Nat,
   respawned : BOOLEAN,
   answer    : {"none", "ok", "failed", "notStarted", "cli"}]

TypeOK ==
  /\ spawned \in 0 .. MaxSpawns
  /\ alive \in SUBSET Child
  /\ signalled \in SUBSET Child
  /\ queue \in SUBSET Request
  /\ performed \in [Call -> Nat]
  /\ process \in {0} \cup Child
  /\ initialized \in BOOLEAN
  /\ requestId \in Nat
  /\ daemonStarted \in BOOLEAN
  /\ cooling \in BOOLEAN
  /\ stopping \in {"no", "waiting", "over"}
  /\ call \in [Rpc -> CallState]

Init ==
  /\ spawned = 0
  /\ alive = {} /\ signalled = {} /\ queue = {}
  /\ performed = [c \in Call |-> 0]
  /\ process = 0
  /\ initialized = FALSE
  /\ requestId = 0
  /\ daemonStarted = FALSE
  /\ cooling = FALSE
  /\ stopping = "no"
  /\ call = [c \in Rpc |->
               [kind |-> IF c = Open THEN "open" ELSE "none",
                stage |-> "idle", wait |-> "no", attempt |-> 0, id |-> 0,
                respawned |-> FALSE, answer |-> "none"]]

-----------------------------------------------------------------------------
(* One request: sent, answered or not, repeated.  Forms with a plausible   *)
(* bug are named Op_Bug; no action uses them (PROJECT.json, mutants).      *)

Over(r, a) == [r EXCEPT !.stage = "over", !.wait = "no", !.attempt = 0, !.id = 0,
                        !.respawned = FALSE, !.answer = a]

(* Mutant: actions fall back to the CLI as the hierarchy reads do.         *)
GivenUp_AllToCli(r) ==
  IF r.kind = "open" THEN Over(r, "failed") ELSE Over(r, "cli")

(* The request threw.  Without a daemon everything goes to the CLI, and a  *)
(* read does in any case; a failed action is reported, not repeated.       *)
GivenUp(r) ==
  IF r.kind # "open" /\ (r.stage = "handshake" \/ r.kind = "read")
  THEN Over(r, "cli")
  ELSE Over(r, "failed")

(* Mutant: one attempt too many.                                           *)
Retried_OnceMore(r) ==
  IF r.attempt <= MaxAttempts THEN [r EXCEPT !.wait = "backoff", !.id = 0]
  ELSE GivenUp(r)

(* A retriable error.                                                      *)
Retried(r) ==
  IF r.attempt < MaxAttempts THEN [r EXCEPT !.wait = "backoff", !.id = 0]
  ELSE GivenUp(r)

(* The device's driver is dead: the hook respawns it, once per request.    *)
DriverDead(r) ==
  IF r.attempt < MaxAttempts /\ ~ r.respawned
  THEN [r EXCEPT !.wait = "respawn", !.id = 0, !.respawned = TRUE]
  ELSE GivenUp(r)

NextId_Stuck == 1

NextId == requestId + 1

Sent(r, i) == [r EXCEPT !.wait = "sent", !.attempt = @ + 1, !.id = i]

(* sendRequestOnce; q is what the children have to answer otherwise.       *)
Send(c, r, q) ==
  IF process = 0
  THEN /\ call' = [call EXCEPT ![c] = Retried([r EXCEPT !.attempt = @ + 1])]
       /\ queue' = q
       /\ UNCHANGED requestId
  ELSE /\ call' = [call EXCEPT ![c] = Sent(r, NextId)]
       /\ queue' = q \cup {[child |-> process, id |-> NextId, by |-> c,
                             tool |-> r.stage = "tool"]}
       /\ requestId' = NextId

(* The daemon counts as alive.  Taps on a point go to the CLI even so.     *)
UseDaemon(c, r, ready, q) ==
  IF r.kind # "point" /\ ready
  THEN Send(c, [r EXCEPT !.stage = "tool", !.attempt = 0, !.respawned = FALSE], q)
  ELSE /\ call' = [call EXCEPT ![c] =
                     Over(r, IF r.kind = "act" THEN "notStarted" ELSE "cli")]
       /\ queue' = q
       /\ UNCHANGED requestId

-----------------------------------------------------------------------------
(* start(): a child is spawned unless there is one, and asked for the      *)
(* handshake.                                                              *)

Spawn(c, r) ==
  /\ spawned < MaxSpawns
  /\ spawned' = spawned + 1
  /\ alive' = alive \cup {spawned'}
  /\ process' = spawned'
  /\ requestId' = NextId
  /\ call' = [call EXCEPT ![c] = Sent([r EXCEPT !.stage = "handshake"], NextId)]
  /\ queue' = queue \cup {[child |-> spawned', id |-> NextId, by |-> c,
                            tool |-> FALSE]}
  /\ UNCHANGED <<signalled, performed, initialized>>

StartDriver ==
  /\ call[Open].stage = "idle"
  /\ Spawn(Open, call[Open])
  /\ UNCHANGED driver

isRunning == initialized /\ process # 0

(* A call while the driver has no daemon, or lost it a moment ago.         *)
CallCli(c, k) ==
  /\ call[c].stage = "idle" /\ call[Open].stage = "over"
  /\ ~ daemonStarted \/ (~ isRunning /\ cooling)
  /\ call' = [call EXCEPT ![c] = Over([@ EXCEPT !.kind = k], "cli")]
  /\ UNCHANGED <<world, daemon, driver>>

CallDaemon(c, k) ==
  /\ call[c].stage = "idle" /\ call[Open].stage = "over"
  /\ daemonStarted /\ isRunning
  /\ UseDaemon(c, [call[c] EXCEPT !.kind = k], TRUE, queue)
  /\ UNCHANGED <<spawned, alive, signalled, performed, process, initialized, driver>>

(* A child without its handshake makes start() return at once.             *)
Launch(c, r) ==
  \/ process = 0 /\ Spawn(c, r)
  \/ /\ process # 0
     /\ UseDaemon(c, r, FALSE, queue)
     /\ UNCHANGED <<spawned, alive, signalled, performed, process, initialized>>

CallRespawns(c, k) ==
  /\ call[c].stage = "idle" /\ call[Open].stage = "over"
  /\ daemonStarted /\ ~ isRunning /\ ~ cooling
  /\ cooling' = TRUE
  /\ Launch(c, [call[c] EXCEPT !.kind = k])
  /\ UNCHANGED <<daemonStarted, stopping>>

CoolingOver ==
  /\ cooling
  /\ cooling' = FALSE
  /\ UNCHANGED <<world, daemon, daemonStarted, stopping, call>>

-----------------------------------------------------------------------------
(* Answers, timeouts, and the waits between two attempts.                  *)

(* The handshake is done; start() fails when stop() took the child away.   *)
Handshaken(c, q) ==
  /\ initialized' = TRUE
  /\ \/ /\ c # Open /\ process # 0
        /\ UseDaemon(c, call[c], TRUE, q)
        /\ UNCHANGED driver
     \/ /\ c = Open
        /\ call' = [call EXCEPT ![c] = Over(@, "ok")]
        /\ daemonStarted' = TRUE
        /\ cooling' = TRUE
        /\ queue' = q
        /\ UNCHANGED <<requestId, stopping>>
     \/ /\ c # Open /\ process = 0
        /\ call' = [call EXCEPT ![c] = GivenUp(@)]
        /\ queue' = q
        /\ UNCHANGED <<requestId, driver>>

Waiting(i) == {c \in Rpc : call[c].wait = "sent" /\ call[c].id = i}

(* A child answers that it did what was asked.  An answer to a request     *)
(* that is not pending any more is dropped.                                *)
Answer(m) ==
  /\ m.child \in alive
  /\ performed' = IF m.tool /\ call[m.by].kind = "act"
                  THEN [performed EXCEPT ![m.by] = @ + 1] ELSE performed
  /\ \/ /\ Waiting(m.id) = {}
        /\ queue' = queue \ {m}
        /\ UNCHANGED <<daemon, driver, call>>
     \/ \E c \in Waiting(m.id) :
          \/ /\ call[c].stage = "tool"
             /\ call' = [call EXCEPT ![c] = Over(@, "ok")]
             /\ queue' = queue \ {m}
             /\ UNCHANGED <<daemon, driver>>
          \/ /\ call[c].stage = "handshake"
             /\ Handshaken(c, queue \ {m})
             /\ UNCHANGED process
  /\ UNCHANGED <<spawned, alive, signalled>>

(* A child answers with an error: a final one, a transient one, or that    *)
(* the driver on the device is dead.                                       *)
AnswerError(m) ==
  /\ m.child \in alive
  /\ queue' = queue \ {m}
  /\ \/ Waiting(m.id) = {} /\ UNCHANGED call
     \/ \E c \in Waiting(m.id) :
          \E r \in {GivenUp(call[c]), Retried(call[c]), DriverDead(call[c])} :
            call' = [call EXCEPT ![c] = r]
  /\ UNCHANGED <<spawned, alive, signalled, performed, daemon, driver>>

(* Mutant: only the first attempt has a timer.                             *)
RequestTimesOut_First(c) ==
  /\ call[c].wait = "sent" /\ call[c].attempt = 1
  /\ call' = [call EXCEPT ![c] = Retried(@)]
  /\ UNCHANGED <<world, daemon, driver>>

(* The child does not know: it may still do what was asked.                *)
RequestTimesOut(c) ==
  /\ call[c].wait = "sent"
  /\ call' = [call EXCEPT ![c] = Retried(@)]
  /\ UNCHANGED <<world, daemon, driver>>

HookEnds(c) ==
  /\ call[c].wait = "respawn"
  /\ call' = [call EXCEPT ![c].wait = "backoff"]
  /\ UNCHANGED <<world, daemon, driver>>

(* The next attempt goes to whatever child there is by then.               *)
BackoffEnds(c) ==
  /\ call[c].wait = "backoff"
  /\ Send(c, call[c], queue)
  /\ UNCHANGED <<spawned, alive, signalled, performed, process, initialized, driver>>

-----------------------------------------------------------------------------
(* The child's end, and stop().                                            *)

cleanup ==
  /\ process' = 0
  /\ initialized' = FALSE
  /\ requestId' = 0

(* Mutant: the driver is not told that its daemon is gone.                 *)
Stopped_StaysStarted ==
  /\ stopping' = "over"
  /\ UNCHANGED <<daemonStarted, cooling>>

Stopped ==
  /\ stopping' = "over"
  /\ daemonStarted' = FALSE
  /\ UNCHANGED cooling

(* The 'exit' and 'error' handlers do not ask which child it was.  gone    *)
(* is what becomes of the pending calls.                                   *)
ChildEnds(p, gone) ==
  /\ p \in alive
  /\ alive' = alive \ {p}
  /\ queue' = {m \in queue : m.child # p}
  /\ call' = [c \in Rpc |-> IF call[c].wait = "sent" THEN gone[c] ELSE call[c]]
  /\ cleanup
  /\ IF stopping = "waiting" THEN Stopped ELSE UNCHANGED driver
  /\ UNCHANGED <<spawned, signalled, performed>>

ChildExits(p) == ChildEnds(p, [c \in Rpc |-> Retried(call[c])])

(* No such command: the error is final.                                    *)
CannotSpawn(p) ==
  /\ ~ initialized
  /\ ChildEnds(p, [c \in Rpc |-> GivenUp(call[c])])

(* Mutant: a child that is still in its handshake is not killed.           *)
NothingToStop_UnlessRunning == ~ daemonStarted \/ ~ isRunning

(* Early returns of the two stop() methods.                                *)
NothingToStop == ~ daemonStarted \/ process = 0

Stop ==
  /\ call[Open].stage = "over"
  /\ stopping = "no"
  /\ \/ /\ NothingToStop
        /\ Stopped
        /\ UNCHANGED <<signalled, call>>
     \/ /\ ~ NothingToStop
        /\ signalled' = signalled \cup {process}
        /\ call' = [c \in Rpc |-> IF call[c].wait = "sent" THEN GivenUp(call[c])
                                  ELSE call[c]]
        /\ stopping' = "waiting"
        /\ UNCHANGED <<daemonStarted, cooling>>
  /\ UNCHANGED <<spawned, alive, queue, performed, daemon>>

(* SIGKILL, and no further wait for the exit.                              *)
StopTimesOut ==
  /\ stopping = "waiting"
  /\ cleanup
  /\ Stopped
  /\ UNCHANGED <<world, call>>

-----------------------------------------------------------------------------
CallStep(c) == RequestTimesOut(c) \/ HookEnds(c) \/ BackoffEnds(c)

Next ==
  \/ StartDriver
  \/ \E c \in Call : \E k \in Kinds[c] :
       CallCli(c, k) \/ CallDaemon(c, k) \/ CallRespawns(c, k)
  \/ CoolingOver
  \/ \E m \in queue : Answer(m) \/ AnswerError(m)
  \/ \E c \in Rpc : CallStep(c)
  \/ \E p \in alive : ChildExits(p) \/ CannotSpawn(p)
  \/ Stop \/ StopTimesOut

Spec == Init /\ [][Next]_vars

(* Timers fire and the hook's own requests time out; no child is known to  *)
(* answer, or to exit.                                                     *)
FairSpec == Spec /\ \A c \in Rpc : WF_vars(CallStep(c))

-----------------------------------------------------------------------------
(* Properties.                                                             *)

(* An action reported as done was done: whatever attempts, timeouts, late  *)
(* answers and respawns came before, no answer of another request ends it. *)
SuccessMeansPerformed ==
  \A c \in Call :
    call[c].kind = "act" /\ call[c].answer = "ok" => performed[c] > 0

(* An action handed to the CLI was never asked of the daemon, which could  *)
(* still perform it: the user interface is not tapped over two channels.   *)
OneChannel ==
  \A c \in Call :
    call[c].kind = "act" /\ call[c].answer = "cli" =>
      performed[c] = 0 /\ \A m \in queue : m.by = c => ~ m.tool

(* After stop() of a driver that had started its daemon, every child was   *)
(* at least killed: deaths, failed handshakes and respawns orphan none.    *)
StopLeavesNoChild ==
  stopping = "over" /\ call[Open].answer = "ok" => alive \subseteq signalled

(* Nobody gets the daemon back once stop() has answered: a poll or an      *)
(* action that comes late goes to the CLI.                                 *)
NothingSpawnsAfterStop ==
  [][stopping = "over" => spawned' = spawned]_vars

(* A call that began ends, though children hang, die and are respawned.    *)
EveryCallEnds ==
  \A c \in Rpc : call[c].stage \in {"handshake", "tool"} ~> call[c].stage = "over"

(* "Retrying a tap or swipe is dangerous because the action may have       *)
(* partially succeeded on the device": no action is performed twice.       *)
NeverPerformedTwice == \A c \in Call : performed[c] <= 1

=============================================================================
