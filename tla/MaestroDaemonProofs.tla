------------------------ MODULE MaestroDaemonProofs ------------------------
(***************************************************************************)
(* Proofs about MaestroDaemon, for any calls, attempts and children.       *)
(*                                                                         *)
(* Request ids start again with every child, so that an id alone does not  *)
(* name a request.  That an answer still ends no call but its own rests on *)
(* OneChild: while the counter may be reset there is no other child whose  *)
(* answers are to come, except one that outlived stop(), and after that    *)
(* nothing is asked of a daemon any more.                                  *)
(***************************************************************************)
EXTENDS MaestroDaemon, TLAPS

(* A call in flight is in one of its two stages and is not answered yet. *)
CallSound(c) ==
  /\ call[c].stage \in {"idle", "over"} => call[c].wait = "no" /\ call[c].attempt = 0
  /\ call[c].wait \in {"backoff", "respawn"} => call[c].attempt < MaxAttempts
  /\ call[c].stage # "over" => call[c].answer = "none"

(* The kinds of the calls, and what only an open session lets begin. *)
KindSound ==
  /\ call[Open].kind = "open" /\ call[Open].stage # "tool"
  /\ \A c \in Call :
       /\ call[c].kind # "open"
       /\ call[c].stage # "idle" => call[Open].stage = "over"

(* start() comes first, stop() last; the driver forgets its daemon then. *)
Phases ==
  /\ call[Open].stage = "idle" => process = 0
  /\ call[Open].stage # "over" => stopping = "no" /\ ~ daemonStarted
  /\ call[Open].answer = "ok" /\ stopping = "no" => daemonStarted
  /\ stopping = "over" => ~ daemonStarted

(* The daemon holds the one child there is; while it holds none, nothing  *)
(* is asked of any child, except of one that outlived its stop().         *)
OneChild ==
  /\ process # 0 => alive = {process}
  /\ process = 0 /\ stopping # "over" =>
       alive = {} /\ \A c \in Rpc : call[c].wait # "sent"
  /\ \A m \in queue : m.child \in alive
  /\ stopping = "waiting" => process \in signalled
  /\ stopping = "over" /\ call[Open].answer = "ok" => alive \subseteq signalled

(* The ids in use are below the counter, which is reset with the child. *)
IdsBelow ==
  process # 0 =>
    /\ \A m \in queue : m.id <= requestId
    /\ \A c \in Rpc : call[c].wait = "sent" => call[c].id <= requestId

(* A pending id stands for the request that the child has, and for no     *)
(* other: only its answer can end the call.                               *)
IdsMatch ==
  \A m \in queue, c \in Rpc :
    call[c].wait = "sent" /\ call[c].id = m.id =>
      m.by = c /\ (m.tool <=> call[c].stage = "tool")

(* The daemon hears of an action only once the call is past its respawn. *)
Untouched(c) == performed[c] = 0 /\ \A m \in queue : m.by = c => ~ m.tool

Unasked ==
  \A c \in Call :
    call[c].stage \in {"idle", "handshake"} \/ (call[c].kind = "act" /\ call[c].answer = "cli")
      => Untouched(c)

CallPart ==
  /\ \A c \in Rpc : CallSound(c)
  /\ KindSound
  /\ IdsMatch
  /\ Unasked
  /\ SuccessMeansPerformed

DaemonInv == TypeOK /\ CallPart /\ Phases /\ OneChild /\ IdsBelow

-----------------------------------------------------------------------------
(* What becomes of one call.                                               *)

(* r failed and is tried again, or is over and tells so. *)
Failed(r, s) ==
  /\ s.kind = r.kind /\ s.wait # "sent"
  /\ \/ /\ s.stage = r.stage /\ s.answer = r.answer
        /\ s.wait # "no" /\ s.attempt < MaxAttempts
     \/ /\ s.stage = "over" /\ s.wait = "no" /\ s.attempt = 0
        /\ s.answer \notin {"ok", "none"}
        /\ s.answer = "cli" => r.kind # "open" /\ (r.stage = "handshake" \/ r.kind = "read")

(* The call c was asked of the child, answered from the request's side, or *)
(* failed; q is what the children had to answer before.                    *)
CallMoved(c, q) ==
  /\ call' \in [Rpc -> CallState] /\ queue' \in SUBSET Request /\ requestId' \in Nat
  /\ CallPart'
  /\ \A d \in Rpc : d # c => call'[d] = call[d]
  /\ process = 0 => queue' = q /\ call'[c].wait # "sent"
  /\ \A m \in queue' : m \in queue \/ (process # 0 /\ m.child = process)
  /\ process # 0 => /\ \A m \in queue' : m.id <= requestId'
                    /\ \A d \in Rpc : call'[d].wait = "sent" => call'[d].id <= requestId'
  /\ c = Open => /\ call[c].stage = "handshake"
                 /\ call'[c].answer # "ok" /\ call'[c].stage # "idle"

(* A call that is over keeps its kind and nothing else. *)
LEMMA OverShape ==
  ASSUME NEW r \in CallState, NEW a \in {"none", "ok", "failed", "notStarted", "cli"}
  PROVE  /\ Over(r, a) \in CallState
         /\ Over(r, a).kind = r.kind /\ Over(r, a).stage = "over" /\ Over(r, a).wait = "no"
         /\ Over(r, a).attempt = 0 /\ Over(r, a).answer = a
<1>1. Over(r, a) = [kind |-> r.kind, stage |-> "over", wait |-> "no", attempt |-> 0, id |-> 0,
                    respawned |-> FALSE, answer |-> a]
  <2>1. PICK s : s = Over(r, a)
    OBVIOUS
  <2>2. s = [kind |-> r.kind, stage |-> "over", wait |-> "no", attempt |-> 0, id |-> 0,
             respawned |-> FALSE, answer |-> a]
    BY <2>1 DEF Over, CallState
  <2> QED
    BY <2>1, <2>2
<1>2. 0 \in 0 .. MaxAttempts
  BY DaemonAssumption
<1>3. r.kind \in Kind \cup {"none", "open"}
  BY DEF CallState
<1>4. Over(r, a) \in CallState
  BY <1>1, <1>2, <1>3 DEF CallState
<1> QED
  BY <1>1, <1>4

(* A request that threw is over, retried after a backoff, or retried       *)
(* after the respawn of the device's driver.                               *)
LEMMA GivenUpShape ==
  ASSUME NEW r \in CallState
  PROVE  GivenUp(r) \in CallState /\ Failed(r, GivenUp(r))
<1>1. \A a \in {"failed", "cli"} :
        /\ Over(r, a) \in CallState
        /\ Over(r, a).kind = r.kind /\ Over(r, a).stage = "over" /\ Over(r, a).wait = "no"
        /\ Over(r, a).attempt = 0 /\ Over(r, a).answer = a
  BY OverShape
<1> QED
  BY <1>1 DEF GivenUp, Failed

LEMMA RetriedShape ==
  ASSUME NEW r \in CallState
  PROVE  Retried(r) \in CallState /\ Failed(r, Retried(r))
<1>1. CASE r.attempt < MaxAttempts
  <2>1. Retried(r) = [kind |-> r.kind, stage |-> r.stage, wait |-> "backoff",
                      attempt |-> r.attempt, id |-> 0, respawned |-> r.respawned,
                      answer |-> r.answer]
    BY <1>1 DEF Retried, CallState
  <2> QED
    BY <1>1, <2>1 DEF CallState, Failed
<1>2. CASE ~ (r.attempt < MaxAttempts)
  BY <1>2, GivenUpShape DEF Retried
<1> QED
  BY <1>1, <1>2

LEMMA DriverDeadShape ==
  ASSUME NEW r \in CallState
  PROVE  DriverDead(r) \in CallState /\ Failed(r, DriverDead(r))
<1>1. CASE r.attempt < MaxAttempts /\ ~ r.respawned
  <2>1. DriverDead(r) = [kind |-> r.kind, stage |-> r.stage, wait |-> "respawn",
                         attempt |-> r.attempt, id |-> 0, respawned |-> TRUE,
                         answer |-> r.answer]
    BY <1>1 DEF DriverDead, CallState
  <2> QED
    BY <1>1, <2>1 DEF CallState, Failed
<1>2. CASE ~ (r.attempt < MaxAttempts /\ ~ r.respawned)
  BY <1>2, GivenUpShape DEF DriverDead
<1> QED
  BY <1>1, <1>2

(* An attempt that is sent. *)
LEMMA SentShape ==
  ASSUME NEW r \in CallState, r.attempt < MaxAttempts, NEW i \in Nat
  PROVE  /\ Sent(r, i) \in CallState
         /\ Sent(r, i).kind = r.kind /\ Sent(r, i).stage = r.stage
         /\ Sent(r, i).answer = r.answer /\ Sent(r, i).wait = "sent" /\ Sent(r, i).id = i
<1>1. Sent(r, i) = [kind |-> r.kind, stage |-> r.stage, wait |-> "sent",
                    attempt |-> r.attempt + 1, id |-> i, respawned |-> r.respawned,
                    answer |-> r.answer]
  <2>1. PICK s : s = Sent(r, i)
    OBVIOUS
  <2>2. s = [kind |-> r.kind, stage |-> r.stage, wait |-> "sent", attempt |-> r.attempt + 1,
             id |-> i, respawned |-> r.respawned, answer |-> r.answer]
    BY <2>1 DEF Sent, CallState
  <2> QED
    BY <2>1, <2>2
<1>2. r.attempt + 1 \in 0 .. MaxAttempts
  BY DaemonAssumption DEF CallState
<1>3. Sent(r, i) \in CallState
  BY <1>1, <1>2 DEF CallState
<1> QED
  BY <1>1, <1>3

(* The record that is sent, or fails for want of a child, has one attempt more. *)
LEMMA NextAttempt ==
  ASSUME NEW r \in CallState, r.attempt < MaxAttempts
  PROVE  /\ [r EXCEPT !.attempt = @ + 1] \in CallState
         /\ [r EXCEPT !.attempt = @ + 1].kind = r.kind
         /\ [r EXCEPT !.attempt = @ + 1].stage = r.stage
         /\ [r EXCEPT !.attempt = @ + 1].answer = r.answer
<1>1. [r EXCEPT !.attempt = @ + 1] =
        [kind |-> r.kind, stage |-> r.stage, wait |-> r.wait, attempt |-> r.attempt + 1,
         id |-> r.id, respawned |-> r.respawned, answer |-> r.answer]
  BY DEF CallState
<1>2. r.attempt + 1 \in 0 .. MaxAttempts
  BY DaemonAssumption DEF CallState
<1> QED
  BY <1>1, <1>2 DEF CallState

(* Init establishes the invariant. *)
LEMMA InitHolds == Init => DaemonInv
<1> SUFFICES ASSUME Init PROVE DaemonInv
  OBVIOUS
<1>1. \A c \in Rpc : /\ call[c].stage = "idle" /\ call[c].wait = "no" /\ call[c].attempt = 0
                     /\ call[c].answer = "none"
                     /\ call[c].kind = IF c = Open THEN "open" ELSE "none"
  BY DEF Init
<1>2. Open \in Rpc /\ Call \subseteq Rpc /\ Open \notin Call
  BY DaemonAssumption DEF Rpc
<1>3. TypeOK
  <2>1. 0 \in 0 .. MaxAttempts /\ 0 \in 0 .. MaxSpawns
    BY DaemonAssumption
  <2> QED
    BY <2>1 DEF Init, TypeOK, CallState
<1>4. CallPart
  BY <1>1, <1>2 DEF Init, CallPart, CallSound, KindSound, IdsMatch, Unasked, Untouched,
     SuccessMeansPerformed
<1>5. Phases /\ OneChild /\ IdsBelow
  BY <1>1, <1>2 DEF Init, Phases, OneChild, IdsBelow
<1> QED
  BY <1>3, <1>4, <1>5 DEF DaemonInv

-----------------------------------------------------------------------------
(* Steps that only let calls fail, and requests disappear. *)
LEMMA CallsFail ==
  /\ DaemonInv
  /\ call' \in [Rpc -> CallState] /\ queue' \subseteq queue /\ performed' = performed
  /\ \A c \in Rpc : \/ call'[c] = call[c]
                    \/ call[c].stage \in {"handshake", "tool"} /\ Failed(call[c], call'[c])
  => CallPart'
<1> SUFFICES ASSUME
        DaemonInv,
        call' \in [Rpc -> CallState], queue' \subseteq queue, performed' = performed,
        \A c \in Rpc : \/ call'[c] = call[c]
                       \/ call[c].stage \in {"handshake", "tool"} /\ Failed(call[c], call'[c])
      PROVE CallPart'
  OBVIOUS
<1>1. /\ \A c \in Rpc : CallSound(c)
      /\ KindSound /\ IdsMatch /\ Unasked /\ SuccessMeansPerformed
  BY DEF DaemonInv, CallPart
<1>2. Open \in Rpc /\ Call \subseteq Rpc
  BY DEF Rpc
<1>3. \A c \in Rpc : /\ call'[c].kind = call[c].kind
                     /\ call'[c].wait = "sent" => call'[c] = call[c]
                     /\ call'[c].stage = call[c].stage \/ call'[c].stage = "over"
                     /\ call'[c].stage = "idle" => call[c].stage = "idle"
  BY DEF Failed
<1>4. (\A c \in Rpc : CallSound(c))'
  BY <1>1 DEF CallSound, Failed
<1>5. KindSound'
  <2>1. call'[Open].kind = "open" /\ call'[Open].stage # "tool"
    BY <1>1, <1>2, <1>3 DEF KindSound
  <2>2. call[Open].stage = "over" => call'[Open].stage = "over"
    BY <1>2
  <2> QED
    BY <1>1, <1>2, <1>3, <2>1, <2>2 DEF KindSound, Failed
<1>6. IdsMatch'
  BY <1>1, <1>3 DEF IdsMatch
<1>7. Unasked'
  <2> SUFFICES ASSUME NEW c \in Call,
                      \/ call'[c].stage \in {"idle", "handshake"}
                      \/ call'[c].kind = "act" /\ call'[c].answer = "cli"
               PROVE  Untouched(c)'
    BY DEF Unasked
  <2>1. \/ call[c].stage \in {"idle", "handshake"}
        \/ call[c].kind = "act" /\ call[c].answer = "cli"
    BY <1>1, <1>2 DEF Failed, CallSound
  <2>2. Untouched(c)
    BY <1>1, <2>1 DEF Unasked
  <2> QED
    BY <2>2 DEF Untouched
<1>8. SuccessMeansPerformed'
  BY <1>1, <1>2 DEF SuccessMeansPerformed, Failed, CallSound
<1> QED
  BY <1>4, <1>5, <1>6, <1>7, <1>8 DEF CallPart

(* A call that is asked of the daemon, in one of its two stages: as a      *)
(* request of the child there is, or, without one, as a failure.           *)
LEMMA SendCall ==
  ASSUME NEW c \in Rpc, NEW r \in CallState, NEW q, q \subseteq queue,
         DaemonInv, Send(c, r, q), performed' = performed,
         r.stage \in {"handshake", "tool"}, r.attempt < MaxAttempts, r.answer = "none",
         c = Open => r.kind = "open" /\ r.stage = "handshake",
         c \in Call => r.kind # "open" /\ call[Open].stage = "over",
         r.stage = "handshake" => call[c].stage = "handshake"
  PROVE  CallMoved(c, q)
<1>1. /\ \A d \in Rpc : CallSound(d)
      /\ KindSound /\ IdsMatch /\ Unasked /\ SuccessMeansPerformed /\ TypeOK /\ IdsBelow
  BY DEF DaemonInv, CallPart
<1>2. Open \in Rpc /\ Call \subseteq Rpc /\ Open \notin Call /\ Rpc = Call \cup {Open}
  BY DaemonAssumption DEF Rpc
<1>3. /\ call \in [Rpc -> CallState] /\ queue \in SUBSET Request /\ requestId \in Nat
      /\ process \in {0} \cup Child
  BY <1>1 DEF TypeOK
<1>4. PICK s \in CallState :
        /\ call' = [call EXCEPT ![c] = s]
        /\ s.kind = r.kind
        /\ (s.stage = r.stage /\ s.answer = "none" /\ s.wait # "no") \/ Failed(r, s)
        /\ s.wait \in {"backoff", "respawn"} => s.attempt < MaxAttempts
        /\ \/ /\ process = 0 /\ s.wait # "sent" /\ queue' = q /\ requestId' = requestId
           \/ /\ process # 0 /\ s.wait = "sent" /\ s.id = NextId /\ s.stage = r.stage
              /\ queue' = q \cup {[child |-> process, id |-> NextId, by |-> c,
                                   tool |-> r.stage = "tool"]}
              /\ requestId' = NextId
  <2>1. CASE process = 0
    <3>1. PICK t : t = [r EXCEPT !.attempt = @ + 1]
      OBVIOUS
    <3>2. /\ t \in CallState /\ t.kind = r.kind /\ t.stage = r.stage /\ t.answer = r.answer
      BY <3>1, NextAttempt
    <3>3. Retried(t) \in CallState /\ Failed(t, Retried(t))
      BY <3>2, RetriedShape
    <3>4. Failed(r, Retried(t))
      BY <3>2, <3>3 DEF Failed
    <3>5. call' = [call EXCEPT ![c] = Retried(t)] /\ queue' = q /\ requestId' = requestId
      BY <2>1, <3>1 DEF Send
    <3> QED
      BY <2>1, <3>3, <3>4, <3>5 DEF Failed
  <2>2. CASE process # 0
    <3>1. NextId \in Nat
      BY <1>3 DEF NextId
    <3>2. /\ Sent(r, NextId) \in CallState
          /\ Sent(r, NextId).kind = r.kind /\ Sent(r, NextId).stage = r.stage
          /\ Sent(r, NextId).answer = r.answer /\ Sent(r, NextId).wait = "sent"
          /\ Sent(r, NextId).id = NextId
      BY <3>1, SentShape
    <3>3. /\ call' = [call EXCEPT ![c] = Sent(r, NextId)]
          /\ queue' = q \cup {[child |-> process, id |-> NextId, by |-> c,
                               tool |-> r.stage = "tool"]}
          /\ requestId' = NextId
      BY <2>2 DEF Send
    <3> QED
      BY <2>2, <3>2, <3>3
  <2> QED
    BY <2>1, <2>2
<1>5. /\ call'[c] = s /\ \A d \in Rpc : d # c => call'[d] = call[d]
      /\ call' \in [Rpc -> CallState]
  BY <1>3, <1>4
<1>6. /\ s.stage \in {"handshake", "tool", "over"}
      /\ s.stage = "over" => s.wait = "no" /\ s.attempt = 0 /\ s.answer \notin {"ok", "none"}
      /\ s.stage # "over" => s.stage = r.stage /\ s.answer = "none"
      /\ s.answer = "cli" => r.kind # "open" /\ (r.stage = "handshake" \/ r.kind = "read")
      /\ s.answer # "ok"
  BY <1>4 DEF Failed
<1>7. NextId = requestId + 1 /\ NextId \in Nat
  BY <1>3 DEF NextId
<1>8. queue' \in SUBSET Request /\ requestId' \in Nat
  <2>1. CASE process = 0
    BY <1>3, <1>4, <2>1
  <2>2. CASE process # 0
    <3>1. [child |-> process, id |-> NextId, by |-> c, tool |-> r.stage = "tool"] \in Request
      BY <1>3, <1>7, <2>2 DEF Request
    <3> QED
      BY <1>3, <1>4, <1>7, <2>2, <3>1
  <2> QED
    BY <2>1, <2>2
<1>9. process # 0 => /\ \A m \in queue' : m.id <= requestId'
                     /\ \A d \in Rpc : call'[d].wait = "sent" => call'[d].id <= requestId'
  <2> SUFFICES ASSUME process # 0
               PROVE  /\ \A m \in queue' : m.id <= requestId'
                      /\ \A d \in Rpc : call'[d].wait = "sent" => call'[d].id <= requestId'
    OBVIOUS
  <2>1. /\ \A m \in queue : m.id \in Nat /\ m.id <= requestId
        /\ \A d \in Rpc : call[d].id \in Nat /\ (call[d].wait = "sent" => call[d].id <= requestId)
    BY <1>1, <1>3 DEF IdsBelow, Request, CallState
  <2>2. \A m \in queue' : m \in queue \/ m.id = NextId
    BY <1>4
  <2>3. requestId' = requestId + 1
    BY <1>4, <1>7
  <2>4. \A m \in queue' : m.id <= requestId'
    BY <1>3, <1>7, <2>1, <2>2, <2>3
  <2>5. \A d \in Rpc : call'[d].wait = "sent" => call'[d].id <= requestId'
    BY <1>3, <1>4, <1>5, <1>7, <2>1, <2>3
  <2> QED
    BY <2>4, <2>5
<1>10. (\A d \in Rpc : CallSound(d))'
  BY <1>1, <1>4, <1>5, <1>6 DEF CallSound
<1>11. KindSound'
  BY <1>1, <1>2, <1>4, <1>5, <1>6 DEF KindSound
<1>12. IdsMatch'
  <2> SUFFICES ASSUME NEW m \in queue', NEW d \in Rpc,
                      call'[d].wait = "sent", call'[d].id = m.id
               PROVE  m.by = d /\ (m.tool <=> call'[d].stage = "tool")
    BY DEF IdsMatch
  <2>1. CASE process = 0
    BY <1>1, <1>4, <1>5, <2>1 DEF IdsMatch
  <2>2. CASE process # 0
    <3>1. /\ \A n \in queue : n.id \in Nat /\ n.id < NextId
          /\ \A e \in Rpc : call[e].id \in Nat /\ (call[e].wait = "sent" => call[e].id < NextId)
      BY <1>1, <1>3, <1>7, <2>2 DEF IdsBelow, Request, CallState
    <3>2. CASE m.id = NextId
      <4>1. m = [child |-> process, id |-> NextId, by |-> c, tool |-> r.stage = "tool"]
        BY <1>4, <1>7, <2>2, <3>1, <3>2
      <4>2. d = c
        BY <1>5, <1>7, <3>1, <3>2
      <4> QED
        BY <1>4, <1>5, <2>2, <4>1, <4>2
    <3>3. CASE m.id # NextId
      <4>1. m \in queue /\ d # c
        BY <1>4, <1>5, <2>2, <3>3
      <4> QED
        BY <1>1, <1>5, <4>1 DEF IdsMatch
    <3> QED
      BY <3>2, <3>3
  <2> QED
    BY <2>1, <2>2
<1>13. Unasked'
  <2> SUFFICES ASSUME NEW d \in Call,
                      \/ call'[d].stage \in {"idle", "handshake"}
                      \/ call'[d].kind = "act" /\ call'[d].answer = "cli"
               PROVE  Untouched(d)'
    BY DEF Unasked
  <2>1. d \in Rpc /\ performed' = performed
    BY <1>2
  <2>2. \A m \in queue' : \/ m \in queue
                          \/ m = [child |-> process, id |-> NextId, by |-> c,
                                  tool |-> r.stage = "tool"]
    BY <1>4
  <2>3. CASE d # c
    <3>1. Untouched(d)
      BY <1>1, <1>5, <2>1, <2>3 DEF Unasked
    <3> QED
      BY <2>1, <2>2, <2>3, <3>1 DEF Untouched
  <2>4. CASE d = c
    <3>1. r.stage = "handshake"
      BY <1>4, <1>5, <1>6, <2>4
    <3>2. Untouched(d)
      BY <1>1, <2>4, <3>1 DEF Unasked
    <3>3. \A m \in queue' : m \in queue \/ ~ m.tool
      <4> SUFFICES ASSUME NEW m \in queue', m \notin queue PROVE ~ m.tool
        OBVIOUS
      <4>1. m = [child |-> process, id |-> NextId, by |-> c, tool |-> r.stage = "tool"]
        BY <2>2
      <4>2. m.tool <=> r.stage = "tool"
        BY <4>1
      <4> QED
        BY <3>1, <4>2
    <3> QED
      BY <2>1, <3>2, <3>3 DEF Untouched
  <2> QED
    BY <2>3, <2>4
<1>14. SuccessMeansPerformed'
  BY <1>1, <1>2, <1>5, <1>6 DEF SuccessMeansPerformed
<1>15. CallPart'
  BY <1>10, <1>11, <1>12, <1>13, <1>14 DEF CallPart
<1>16. \A m \in queue' : m \in queue \/ (process # 0 /\ m.child = process)
  BY <1>4
<1>17. process = 0 => queue' = q /\ call'[c].wait # "sent"
  BY <1>4, <1>5
<1>18. c = Open => /\ call[c].stage = "handshake"
                   /\ call'[c].answer # "ok" /\ call'[c].stage # "idle"
  BY <1>5, <1>6
<1> QED
  BY <1>5, <1>8, <1>9, <1>15, <1>16, <1>17, <1>18 DEF CallMoved

(* A call that ends without an answer of the daemon. *)
LEMMA EndCall ==
  ASSUME NEW c \in Call, NEW s \in CallState, NEW q, q \subseteq queue, DaemonInv,
         call' = [call EXCEPT ![c] = s], queue' = q,
         UNCHANGED <<performed, requestId>>,
         s.stage = "over", s.wait = "no", s.attempt = 0, s.kind # "open",
         s.answer \notin {"ok", "none"}, call[Open].stage = "over",
         s.kind = "act" /\ s.answer = "cli" => Untouched(c)
  PROVE  CallMoved(c, q)
<1>1. /\ \A d \in Rpc : CallSound(d)
      /\ KindSound /\ IdsMatch /\ Unasked /\ SuccessMeansPerformed /\ TypeOK /\ IdsBelow
  BY DEF DaemonInv, CallPart
<1>2. Open \in Rpc /\ Call \subseteq Rpc /\ Open \notin Call /\ Rpc = Call \cup {Open}
  BY DaemonAssumption DEF Rpc
<1>3. /\ call' \in [Rpc -> CallState] /\ queue' \in SUBSET Request /\ requestId' \in Nat
  BY <1>1, <1>2 DEF TypeOK
<1>4. call'[c] = s /\ \A d \in Rpc : d # c => call'[d] = call[d]
  BY <1>1, <1>2 DEF TypeOK
<1>5. CallPart'
  <2>1. (\A d \in Rpc : CallSound(d))'
    BY <1>1, <1>4 DEF CallSound
  <2>2. KindSound'
    BY <1>1, <1>2, <1>4 DEF KindSound
  <2>3. IdsMatch'
    BY <1>1, <1>4 DEF IdsMatch
  <2>4. Unasked'
    BY <1>1, <1>2, <1>4 DEF Unasked, Untouched
  <2>5. SuccessMeansPerformed'
    BY <1>1, <1>2, <1>4 DEF SuccessMeansPerformed
  <2> QED
    BY <2>1, <2>2, <2>3, <2>4, <2>5 DEF CallPart
<1>6. process # 0 => /\ \A m \in queue' : m.id <= requestId'
                     /\ \A d \in Rpc : call'[d].wait = "sent" => call'[d].id <= requestId'
  BY <1>1, <1>4 DEF IdsBelow
<1>7. /\ process = 0 => queue' = q /\ call'[c].wait # "sent"
      /\ \A m \in queue' : m \in queue
      /\ c # Open
  BY <1>2, <1>4
<1> QED
  BY <1>3, <1>4, <1>5, <1>6, <1>7 DEF CallMoved

(* A call that finds the daemon alive, or the respawned daemon not ready. *)
LEMMA UseDaemonCall ==
  ASSUME NEW c \in Call, NEW r \in CallState, NEW q, q \subseteq queue, NEW ready \in BOOLEAN,
         DaemonInv, UseDaemon(c, r, ready, q), performed' = performed,
         r.answer = "none", r.kind # "open", call[Open].stage = "over"
  PROVE  CallMoved(c, q)
<1>1. c \in Rpc /\ c # Open
  BY DaemonAssumption DEF Rpc
<1>2. CASE r.kind # "point" /\ ready
  <2>1. PICK t : t = [r EXCEPT !.stage = "tool", !.attempt = 0, !.respawned = FALSE]
    OBVIOUS
  <2>2. 0 \in 0 .. MaxAttempts /\ 0 < MaxAttempts
    BY DaemonAssumption
  <2>3. t = [kind |-> r.kind, stage |-> "tool", wait |-> r.wait, attempt |-> 0, id |-> r.id,
             respawned |-> FALSE, answer |-> r.answer]
    BY <2>1 DEF CallState
  <2>4. t \in CallState
    BY <2>2, <2>3 DEF CallState
  <2>5. Send(c, t, q)
    BY <1>2, <2>1 DEF UseDaemon
  <2>6. t.stage = "tool" /\ t.attempt = 0 /\ t.answer = "none" /\ t.kind = r.kind
    BY <2>3
  <2> QED
    BY <1>1, <2>2, <2>4, <2>5, <2>6, SendCall
<1>3. CASE ~ (r.kind # "point" /\ ready)
  <2> DEFINE a == IF r.kind = "act" THEN "notStarted" ELSE "cli"
  <2>1. /\ Over(r, a) \in CallState
        /\ Over(r, a).kind = r.kind /\ Over(r, a).stage = "over" /\ Over(r, a).wait = "no"
        /\ Over(r, a).attempt = 0 /\ Over(r, a).answer = a
    BY OverShape
  <2>2. /\ call' = [call EXCEPT ![c] = Over(r, a)] /\ queue' = q /\ requestId' = requestId
    BY <1>3 DEF UseDaemon
  <2> QED
    BY <2>1, <2>2, EndCall
<1> QED
  BY <1>2, <1>3

(* The invariant after a step of one call, in which no child starts or ends. *)
LEMMA MovedKeeps ==
  ASSUME NEW c \in Rpc, NEW q, q \subseteq queue, DaemonInv, CallMoved(c, q),
         UNCHANGED <<spawned, alive, signalled, performed, process, daemonStarted, stopping>>,
         initialized' \in BOOLEAN, cooling' \in BOOLEAN
  PROVE  DaemonInv'
<1>1. TypeOK /\ Phases /\ OneChild
  BY DEF DaemonInv
<1>2. Open \in Rpc
  BY DEF Rpc
<1>3. TypeOK'
  BY <1>1 DEF CallMoved, TypeOK
<1>4. Phases'
  BY <1>1, <1>2 DEF CallMoved, Phases
<1>5. OneChild'
  <2>1. \A m \in queue' : m.child \in alive'
    BY <1>1 DEF CallMoved, OneChild
  <2>2. process = 0 /\ stopping # "over" => \A d \in Rpc : call'[d].wait # "sent"
    BY <1>1 DEF CallMoved, OneChild
  <2>3. call'[Open].answer = "ok" => call[Open].answer = "ok"
    BY <1>2 DEF CallMoved
  <2> QED
    BY <1>1, <2>1, <2>2, <2>3 DEF OneChild
<1>6. IdsBelow'
  BY DEF CallMoved, IdsBelow
<1> QED
  BY <1>3, <1>4, <1>5, <1>6 DEF DaemonInv, CallMoved

(* The invariant after calls failed, in which no child starts or ends. *)
LEMMA FailedKeeps ==
  /\ DaemonInv
  /\ call' \in [Rpc -> CallState] /\ queue' \subseteq queue
  /\ \A c \in Rpc : \/ call'[c] = call[c]
                    \/ call[c].stage \in {"handshake", "tool"} /\ Failed(call[c], call'[c])
  /\ UNCHANGED <<spawned, alive, signalled, performed, process, requestId>>
  /\ UNCHANGED <<daemonStarted, stopping>>
  /\ initialized' \in BOOLEAN /\ cooling' \in BOOLEAN
  => DaemonInv'
<1> SUFFICES ASSUME
        DaemonInv,
        call' \in [Rpc -> CallState], queue' \subseteq queue,
        \A c \in Rpc : \/ call'[c] = call[c]
                       \/ call[c].stage \in {"handshake", "tool"} /\ Failed(call[c], call'[c]),
        UNCHANGED <<spawned, alive, signalled, performed, process, requestId>>,
        UNCHANGED <<daemonStarted, stopping>>,
        initialized' \in BOOLEAN, cooling' \in BOOLEAN
      PROVE DaemonInv'
  OBVIOUS
<1>1. TypeOK /\ Phases /\ OneChild /\ IdsBelow
  BY DEF DaemonInv
<1>2. \A c \in Rpc : /\ call'[c].wait = "sent" => call'[c] = call[c]
                     /\ call'[c].answer = "ok" => call[c].answer = "ok"
                     /\ call'[c].stage = "idle" => call[c].stage = "idle"
                     /\ call[c].stage = "over" => call'[c].stage = "over"
  <2> SUFFICES ASSUME NEW c \in Rpc
               PROVE  /\ call'[c].wait = "sent" => call'[c] = call[c]
                      /\ call'[c].answer = "ok" => call[c].answer = "ok"
                      /\ call'[c].stage = "idle" => call[c].stage = "idle"
                      /\ call[c].stage = "over" => call'[c].stage = "over"
    OBVIOUS
  <2> QED
    BY DEF Failed
<1>3. Open \in Rpc
  BY DEF Rpc
<1>4. CallPart'
  BY CallsFail
<1>5. TypeOK'
  BY <1>1 DEF TypeOK
<1>6. Phases'
  BY <1>1, <1>2, <1>3 DEF Phases
<1>7. OneChild'
  BY <1>1, <1>2, <1>3 DEF OneChild
<1>8. IdsBelow'
  BY <1>1, <1>2 DEF IdsBelow
<1> QED
  BY <1>4, <1>5, <1>6, <1>7, <1>8 DEF DaemonInv

(* A new child, which is asked for the handshake. *)
LEMMA SpawnKeeps ==
  ASSUME NEW c \in Rpc, NEW r \in CallState, DaemonInv, Spawn(c, r),
         process = 0, stopping # "over",
         UNCHANGED <<daemonStarted, stopping>>, cooling' \in BOOLEAN,
         call[c].stage = "idle", r.attempt = 0, r.answer = "none",
         c = Open => r.kind = "open",
         c \in Call => r.kind # "open" /\ call[Open].stage = "over"
  PROVE  DaemonInv'
<1>1. /\ \A d \in Rpc : CallSound(d)
      /\ KindSound /\ IdsMatch /\ Unasked /\ SuccessMeansPerformed /\ TypeOK
      /\ Phases /\ OneChild
  BY DEF DaemonInv, CallPart
<1>2. Open \in Rpc /\ Call \subseteq Rpc /\ Open \notin Call /\ Rpc = Call \cup {Open}
  BY DaemonAssumption DEF Rpc
<1>3. /\ call \in [Rpc -> CallState] /\ queue \in SUBSET Request
      /\ NextId = requestId + 1 /\ NextId \in Nat
      /\ spawned \in Nat /\ spawned' \in Child /\ spawned' # 0 /\ spawned' \in 0 .. MaxSpawns
  BY <1>1, DaemonAssumption DEF TypeOK, NextId, Spawn, Child
<1>4. alive = {} /\ queue = {} /\ \A d \in Rpc : call[d].wait # "sent"
  BY <1>1 DEF OneChild
<1>5. PICK t : t = [r EXCEPT !.stage = "handshake"]
  OBVIOUS
<1>6. t = [kind |-> r.kind, stage |-> "handshake", wait |-> r.wait, attempt |-> r.attempt,
           id |-> r.id, respawned |-> r.respawned, answer |-> r.answer]
  BY <1>5 DEF CallState
<1>7. t \in CallState /\ t.kind = r.kind /\ t.stage = "handshake" /\ t.answer = "none"
      /\ t.attempt < MaxAttempts
  BY <1>6, DaemonAssumption DEF CallState
<1>8. PICK s : s = Sent(t, NextId)
  OBVIOUS
<1>9. /\ s \in CallState /\ s.kind = r.kind /\ s.stage = "handshake" /\ s.answer = "none"
      /\ s.wait = "sent" /\ s.id = NextId
  BY <1>3, <1>7, <1>8, SentShape
<1>10. /\ call' = [call EXCEPT ![c] = s]
       /\ alive' = {spawned'} /\ process' = spawned' /\ requestId' = NextId
       /\ queue' = {[child |-> spawned', id |-> NextId, by |-> c, tool |-> FALSE]}
       /\ UNCHANGED <<signalled, performed, initialized>>
  BY <1>4, <1>5, <1>8 DEF Spawn
<1>11. call'[c] = s /\ \A d \in Rpc : d # c => call'[d] = call[d]
  BY <1>3, <1>10
<1>12. \A m \in queue' : m.child = spawned' /\ m.id = NextId /\ m.by = c /\ m.tool = FALSE
  BY <1>10
<1>13. TypeOK'
  <2>1. [child |-> spawned', id |-> NextId, by |-> c, tool |-> FALSE] \in Request
    BY <1>3 DEF Request
  <2>2. call' \in [Rpc -> CallState]
    BY <1>3, <1>9, <1>10
  <2> QED
    BY <1>1, <1>3, <1>10, <2>1, <2>2 DEF TypeOK
<1>14. (\A d \in Rpc : CallSound(d))'
  BY <1>1, <1>9, <1>11 DEF CallSound
<1>15. KindSound'
  BY <1>1, <1>2, <1>9, <1>11 DEF KindSound
<1>16. IdsMatch'
  BY <1>4, <1>9, <1>11, <1>12 DEF IdsMatch
<1>17. Unasked'
  <2> SUFFICES ASSUME NEW d \in Call,
                      \/ call'[d].stage \in {"idle", "handshake"}
                      \/ call'[d].kind = "act" /\ call'[d].answer = "cli"
               PROVE  Untouched(d)'
    BY DEF Unasked
  <2>1. Untouched(d)
    BY <1>1, <1>2, <1>9, <1>11 DEF Unasked
  <2> QED
    BY <1>10, <1>12, <2>1 DEF Untouched
<1>18. SuccessMeansPerformed'
  BY <1>1, <1>2, <1>9, <1>10, <1>11 DEF SuccessMeansPerformed
<1>19. Phases'
  BY <1>1, <1>2, <1>9, <1>11 DEF Phases
<1>20. OneChild'
  <2>1. 0 \notin signalled
    BY <1>1 DEF TypeOK, Child
  <2>2. stopping = "no"
    BY <1>1, <2>1 DEF OneChild, TypeOK
  <2> QED
    BY <1>3, <1>10, <1>12, <2>2 DEF OneChild
<1>21. IdsBelow'
  <2>1. requestId' = NextId /\ NextId <= NextId
    BY <1>3, <1>10
  <2> QED
    BY <1>4, <1>9, <1>11, <1>12, <2>1 DEF IdsBelow
<1> QED
  BY <1>13, <1>14, <1>15, <1>16, <1>17, <1>18, <1>19, <1>20, <1>21 DEF DaemonInv, CallPart

-----------------------------------------------------------------------------
(* The steps. *)

LEMMA StartDriverKeeps ==
  ASSUME DaemonInv, StartDriver
  PROVE  DaemonInv'
<1>1. TypeOK /\ CallSound(Open) /\ KindSound /\ Phases /\ Open \in Rpc /\ Open \notin Call
  BY DaemonAssumption DEF DaemonInv, CallPart, Rpc
<1>2. /\ call[Open] \in CallState /\ call[Open].stage = "idle" /\ call[Open].attempt = 0
      /\ call[Open].answer = "none" /\ call[Open].kind = "open" /\ process = 0
      /\ stopping = "no"
  BY <1>1 DEF StartDriver, TypeOK, CallSound, KindSound, Phases
<1>3. Spawn(Open, call[Open]) /\ UNCHANGED <<daemonStarted, stopping>> /\ cooling' \in BOOLEAN
  BY <1>1 DEF StartDriver, driver, TypeOK
<1> QED
  BY <1>1, <1>2, <1>3, SpawnKeeps

(* A call that begins as what it is. *)
LEMMA BeginShape ==
  ASSUME DaemonInv, NEW c \in Call, call[c].stage = "idle", NEW k \in Kinds[c]
  PROVE  \E r \in CallState :
           /\ r = [call[c] EXCEPT !.kind = k]
           /\ r.kind = k /\ k # "open" /\ r.answer = "none" /\ r.attempt = 0
<1>1. /\ call[c] \in CallState /\ call[c].attempt = 0 /\ call[c].answer = "none"
  BY DEF DaemonInv, CallPart, TypeOK, CallSound, Rpc
<1>2. k \in Kind /\ k # "open"
  BY DaemonAssumption DEF Kind
<1>3. PICK r : r = [call[c] EXCEPT !.kind = k]
  OBVIOUS
<1>4. r = [kind |-> k, stage |-> call[c].stage, wait |-> call[c].wait,
           attempt |-> call[c].attempt, id |-> call[c].id, respawned |-> call[c].respawned,
           answer |-> call[c].answer]
  BY <1>1, <1>3 DEF CallState
<1>5. r \in CallState
  BY <1>1, <1>2, <1>4 DEF CallState
<1> QED
  BY <1>1, <1>2, <1>3, <1>4, <1>5

LEMMA CallCliKeeps ==
  ASSUME DaemonInv, NEW c \in Call, NEW k \in Kinds[c], CallCli(c, k)
  PROVE  DaemonInv'
<1>1. call[c].stage = "idle"
  BY DEF CallCli
<1>2. PICK r \in CallState :
        /\ r = [call[c] EXCEPT !.kind = k]
        /\ r.kind = k /\ k # "open" /\ r.answer = "none" /\ r.attempt = 0
  BY <1>1, BeginShape
<1>3. /\ Over(r, "cli") \in CallState
      /\ Over(r, "cli").kind = r.kind /\ Over(r, "cli").stage = "over"
      /\ Over(r, "cli").wait = "no" /\ Over(r, "cli").attempt = 0
      /\ Over(r, "cli").answer = "cli"
  BY <1>2, OverShape
<1>4. call' = [call EXCEPT ![c] = Over(r, "cli")]
  BY <1>2 DEF CallCli, DaemonInv, TypeOK, Rpc
<1>5. Untouched(c) /\ c \in Rpc
  BY DEF CallCli, DaemonInv, CallPart, Unasked, Rpc
<1>6. /\ UNCHANGED <<spawned, alive, signalled, performed, process, daemonStarted, stopping>>
      /\ UNCHANGED <<requestId, queue>> /\ initialized' \in BOOLEAN /\ cooling' \in BOOLEAN
      /\ call[Open].stage = "over"
  BY DEF CallCli, world, daemon, driver, DaemonInv, TypeOK
<1>7. CallMoved(c, queue)
  BY <1>2, <1>3, <1>4, <1>5, <1>6, EndCall
<1> QED
  BY <1>5, <1>6, <1>7, MovedKeeps

LEMMA CallDaemonKeeps ==
  ASSUME DaemonInv, NEW c \in Call, NEW k \in Kinds[c], CallDaemon(c, k)
  PROVE  DaemonInv'
<1>1. call[c].stage = "idle"
  BY DEF CallDaemon
<1>2. PICK r \in CallState :
        /\ r = [call[c] EXCEPT !.kind = k]
        /\ r.kind = k /\ k # "open" /\ r.answer = "none" /\ r.attempt = 0
  BY <1>1, BeginShape
<1>3. UseDaemon(c, r, TRUE, queue) /\ performed' = performed /\ call[Open].stage = "over"
  BY <1>2 DEF CallDaemon
<1>4. CallMoved(c, queue)
  BY <1>2, <1>3, UseDaemonCall
<1>5. /\ UNCHANGED <<spawned, alive, signalled, performed, process, daemonStarted, stopping>>
      /\ initialized' \in BOOLEAN /\ cooling' \in BOOLEAN /\ c \in Rpc
  BY DEF CallDaemon, driver, DaemonInv, TypeOK, Rpc
<1> QED
  BY <1>4, <1>5, MovedKeeps

LEMMA CallRespawnsKeeps ==
  ASSUME DaemonInv, NEW c \in Call, NEW k \in Kinds[c], CallRespawns(c, k)
  PROVE  DaemonInv'
<1>1. call[c].stage = "idle"
  BY DEF CallRespawns
<1>2. PICK r \in CallState :
        /\ r = [call[c] EXCEPT !.kind = k]
        /\ r.kind = k /\ k # "open" /\ r.answer = "none" /\ r.attempt = 0
  BY <1>1, BeginShape
<1>3. /\ call[Open].stage = "over" /\ call[c].stage = "idle" /\ c \in Rpc /\ c # Open
      /\ UNCHANGED <<daemonStarted, stopping>> /\ cooling' \in BOOLEAN
      /\ stopping # "over"
  BY DaemonAssumption DEF CallRespawns, Rpc, DaemonInv, Phases
<1>4. CASE process = 0 /\ Spawn(c, r)
  BY <1>2, <1>3, <1>4, SpawnKeeps
<1>5. CASE /\ UseDaemon(c, r, FALSE, queue)
           /\ UNCHANGED <<spawned, alive, signalled, performed, process, initialized>>
  <2>1. CallMoved(c, queue)
    BY <1>2, <1>3, <1>5, UseDaemonCall
  <2>2. initialized' \in BOOLEAN
    BY <1>5 DEF DaemonInv, TypeOK
  <2> QED
    BY <1>3, <1>5, <2>1, <2>2, MovedKeeps
<1>6. Launch(c, r)
  BY <1>2 DEF CallRespawns
<1> QED
  BY <1>4, <1>5, <1>6 DEF Launch

(* The daemon finishes its handshake for the call c. *)
LEMMA HandshakenKeeps ==
  ASSUME DaemonInv, NEW c \in Rpc, NEW q, q \subseteq queue, Handshaken(c, q),
         call[c].stage = "handshake",
         UNCHANGED <<spawned, alive, signalled, performed, process>>
  PROVE  DaemonInv'
<1>1. /\ \A d \in Rpc : CallSound(d)
      /\ KindSound /\ IdsMatch /\ Unasked /\ SuccessMeansPerformed /\ TypeOK
      /\ Phases /\ OneChild /\ IdsBelow
  BY DEF DaemonInv, CallPart
<1>2. Open \in Rpc /\ Call \subseteq Rpc /\ Open \notin Call /\ Rpc = Call \cup {Open}
  BY DaemonAssumption DEF Rpc
<1>3. /\ call[c] \in CallState /\ call[c].answer = "none"
      /\ initialized' \in BOOLEAN
  BY <1>1 DEF TypeOK, CallSound, Handshaken
<1>4. CASE c # Open /\ process # 0 /\ UseDaemon(c, call[c], TRUE, q) /\ UNCHANGED driver
  <2>1. c \in Call /\ call[c].kind # "open" /\ call[Open].stage = "over"
    BY <1>1, <1>2, <1>4 DEF KindSound
  <2>2. CallMoved(c, q)
    BY <1>3, <1>4, <2>1, UseDaemonCall
  <2>3. UNCHANGED <<daemonStarted, stopping>> /\ cooling' \in BOOLEAN
    BY <1>1, <1>4 DEF driver, TypeOK
  <2> QED
    BY <1>3, <2>2, <2>3, MovedKeeps
<1>5. CASE /\ c = Open
           /\ call' = [call EXCEPT ![c] = Over(@, "ok")]
           /\ daemonStarted' = TRUE
           /\ cooling' = TRUE
           /\ queue' = q
           /\ UNCHANGED <<requestId, stopping>>
  <2>1. PICK s : s = Over(call[Open], "ok")
    OBVIOUS
  <2>2. /\ s \in CallState /\ s.kind = "open" /\ s.stage = "over" /\ s.wait = "no"
        /\ s.attempt = 0 /\ s.answer = "ok"
    BY <1>1, <1>3, <1>5, <2>1, OverShape DEF KindSound
  <2>3. /\ call' \in [Rpc -> CallState] /\ call'[Open] = s
        /\ \A d \in Rpc : d # Open => call'[d] = call[d]
    BY <1>1, <1>2, <1>5, <2>1, <2>2 DEF TypeOK
  <2>4. stopping = "no"
    BY <1>1, <1>5 DEF Phases
  <2>5. TypeOK'
    BY <1>1, <1>3, <1>5, <2>3 DEF TypeOK
  <2>6. (\A d \in Rpc : CallSound(d))'
    BY <1>1, <2>2, <2>3 DEF CallSound
  <2>7. KindSound'
    BY <1>1, <1>2, <2>2, <2>3 DEF KindSound
  <2>8. IdsMatch'
    BY <1>1, <1>5, <2>2, <2>3 DEF IdsMatch
  <2>9. Unasked'
    BY <1>1, <1>2, <1>5, <2>3 DEF Unasked, Untouched
  <2>10. SuccessMeansPerformed'
    BY <1>1, <1>2, <2>3 DEF SuccessMeansPerformed
  <2>11. Phases'
    BY <1>5, <2>2, <2>3, <2>4 DEF Phases
  <2>12. OneChild'
    BY <1>1, <1>5, <2>2, <2>3, <2>4 DEF OneChild
  <2>13. IdsBelow'
    BY <1>1, <1>5, <2>2, <2>3 DEF IdsBelow
  <2> QED
    BY <2>5, <2>6, <2>7, <2>8, <2>9, <2>10, <2>11, <2>12, <2>13 DEF DaemonInv, CallPart
<1>6. CASE /\ c # Open /\ process = 0
           /\ call' = [call EXCEPT ![c] = GivenUp(@)]
           /\ queue' = q
           /\ UNCHANGED <<requestId, driver>>
  <2>1. GivenUp(call[c]) \in CallState /\ Failed(call[c], GivenUp(call[c]))
    BY <1>3, GivenUpShape
  <2>2. /\ call' \in [Rpc -> CallState] /\ Failed(call[c], call'[c])
        /\ \A d \in Rpc : d # c => call'[d] = call[d]
    BY <1>1, <1>6, <2>1 DEF TypeOK
  <2>3. UNCHANGED <<daemonStarted, stopping>> /\ cooling' \in BOOLEAN
    BY <1>1, <1>6 DEF driver, TypeOK
  <2> QED
    BY <1>3, <1>6, <2>2, <2>3, FailedKeeps
<1> QED
  BY <1>4, <1>5, <1>6 DEF Handshaken

(* A child answers. *)
LEMMA AnswerKeeps ==
  ASSUME DaemonInv, NEW m \in queue, Answer(m)
  PROVE  DaemonInv'
<1>1. /\ \A d \in Rpc : CallSound(d)
      /\ KindSound /\ IdsMatch /\ Unasked /\ SuccessMeansPerformed /\ TypeOK
      /\ Phases /\ OneChild /\ IdsBelow
  BY DEF DaemonInv, CallPart
<1>2. Open \in Rpc /\ Call \subseteq Rpc /\ Open \notin Call /\ Rpc = Call \cup {Open}
  BY DaemonAssumption DEF Rpc
<1>3. /\ m \in Request /\ m.by \in Rpc /\ performed \in [Call -> Nat]
      /\ call \in [Rpc -> CallState]
  BY <1>1 DEF TypeOK, Request
<1>4. UNCHANGED <<spawned, alive, signalled>>
  BY DEF Answer
<1>5. /\ performed' \in [Call -> Nat]
      /\ \A d \in Call : performed'[d] >= performed[d]
      /\ \A d \in Call : performed'[d] # performed[d] => m.tool /\ m.by = d
      /\ m.tool /\ call[m.by].kind = "act" => performed'[m.by] > 0
      /\ ~ m.tool => performed' = performed
  <2>1. CASE m.tool /\ call[m.by].kind = "act"
    <3>1. m.by \in Call
      BY <1>1, <1>2, <1>3, <2>1 DEF KindSound
    <3>2. performed' = [performed EXCEPT ![m.by] = @ + 1]
      BY <2>1 DEF Answer
    <3>3. /\ performed' \in [Call -> Nat] /\ performed'[m.by] = performed[m.by] + 1
          /\ \A d \in Call : d # m.by => performed'[d] = performed[d]
          /\ \A d \in Call : performed[d] \in Nat
      BY <1>3, <3>1, <3>2
    <3> HIDE <3>2
    <3>4. \A d \in Call : performed'[d] >= performed[d]
      BY <3>3
    <3>5. performed'[m.by] > 0
      BY <3>1, <3>3
    <3> QED
      BY <2>1, <3>3, <3>4, <3>5
  <2>2. CASE ~ (m.tool /\ call[m.by].kind = "act")
    <3>1. performed' = performed
      BY <2>2 DEF Answer
    <3>2. \A d \in Call : performed[d] \in Nat
      BY <1>3
    <3>3. \A d \in Call : performed'[d] >= performed[d]
      BY <3>1, <3>2
    <3> QED
      BY <1>3, <2>2, <3>1, <3>3
  <2> QED
    BY <2>1, <2>2
<1>6. \A d \in Call : Untouched(d) => performed'[d] = performed[d]
  BY <1>5 DEF Untouched
<1>7. CASE Waiting(m.id) = {} /\ queue' = queue \ {m} /\ UNCHANGED <<daemon, driver, call>>
  <2>1. TypeOK'
    BY <1>1, <1>4, <1>5, <1>7 DEF TypeOK, daemon, driver
  <2>2. (\A d \in Rpc : CallSound(d))' /\ KindSound' /\ IdsMatch'
    BY <1>1, <1>7 DEF CallSound, KindSound, IdsMatch
  <2>3. Unasked'
    BY <1>1, <1>6, <1>7 DEF Unasked, Untouched
  <2>4. SuccessMeansPerformed'
    <3> SUFFICES ASSUME NEW d \in Call, call'[d].kind = "act", call'[d].answer = "ok"
                 PROVE  performed'[d] > 0
      BY DEF SuccessMeansPerformed
    <3>1. performed[d] > 0 /\ performed[d] \in Nat /\ performed'[d] \in Nat
      BY <1>1, <1>3, <1>5, <1>7 DEF SuccessMeansPerformed
    <3> QED
      BY <1>5, <3>1
  <2>5. Phases' /\ OneChild' /\ IdsBelow'
    BY <1>1, <1>4, <1>7 DEF Phases, OneChild, IdsBelow, daemon, driver
  <2> QED
    BY <2>1, <2>2, <2>3, <2>4, <2>5 DEF DaemonInv, CallPart
<1>8. ASSUME NEW c \in Waiting(m.id), call[c].stage = "tool",
             call' = [call EXCEPT ![c] = Over(@, "ok")], queue' = queue \ {m},
             UNCHANGED <<daemon, driver>>
      PROVE  DaemonInv'
  <2>1. /\ c \in Rpc /\ c = m.by /\ m.tool
        /\ c \in Call
    BY <1>1, <1>2, <1>8 DEF Waiting, IdsMatch, KindSound
  <2>2. PICK s : s = Over(call[c], "ok")
    OBVIOUS
  <2>3. /\ s \in CallState /\ s.kind = call[c].kind /\ s.stage = "over" /\ s.wait = "no"
        /\ s.attempt = 0 /\ s.answer = "ok"
    BY <1>3, <2>1, <2>2, OverShape
  <2>4. /\ call' \in [Rpc -> CallState] /\ call'[c] = s
        /\ \A d \in Rpc : d # c => call'[d] = call[d]
    BY <1>3, <1>8, <2>1, <2>2, <2>3
  <2>5. TypeOK'
    BY <1>1, <1>4, <1>5, <1>8, <2>4 DEF TypeOK, daemon, driver
  <2>6. (\A d \in Rpc : CallSound(d))'
    BY <1>1, <2>3, <2>4 DEF CallSound
  <2>7. KindSound'
    BY <1>1, <1>2, <1>8, <2>1, <2>3, <2>4 DEF KindSound
  <2>8. IdsMatch'
    BY <1>1, <1>8, <2>3, <2>4 DEF IdsMatch
  <2>9. Unasked'
    <3> SUFFICES ASSUME NEW d \in Call,
                        \/ call'[d].stage \in {"idle", "handshake"}
                        \/ call'[d].kind = "act" /\ call'[d].answer = "cli"
                 PROVE  Untouched(d)'
      BY DEF Unasked
    <3>1. d # c
      BY <2>3, <2>4
    <3>2. Untouched(d)
      BY <1>1, <1>2, <2>4, <3>1 DEF Unasked
    <3> QED
      BY <1>6, <1>8, <3>2 DEF Untouched
  <2>10. SuccessMeansPerformed'
    <3> SUFFICES ASSUME NEW d \in Call, call'[d].kind = "act", call'[d].answer = "ok"
                 PROVE  performed'[d] > 0
      BY DEF SuccessMeansPerformed
    <3>1. CASE d = c
      BY <1>5, <2>1, <2>3, <2>4, <3>1
    <3>2. CASE d # c
      <4>1. performed[d] > 0 /\ performed[d] \in Nat /\ performed'[d] \in Nat
        BY <1>1, <1>2, <1>3, <1>5, <2>4, <3>2 DEF SuccessMeansPerformed
      <4> QED
        BY <1>5, <4>1
    <3> QED
      BY <3>1, <3>2
  <2>11. Phases'
    BY <1>1, <1>2, <1>8, <2>1, <2>4 DEF Phases, daemon, driver
  <2>12. OneChild'
    BY <1>1, <1>2, <1>4, <1>8, <2>1, <2>3, <2>4 DEF OneChild, daemon, driver
  <2>13. IdsBelow'
    BY <1>1, <1>8, <2>3, <2>4 DEF IdsBelow, daemon
  <2> QED
    BY <2>5, <2>6, <2>7, <2>8, <2>9, <2>10, <2>11, <2>12, <2>13 DEF DaemonInv, CallPart
<1>9. ASSUME NEW c \in Waiting(m.id), call[c].stage = "handshake",
             Handshaken(c, queue \ {m}), UNCHANGED process
      PROVE  DaemonInv'
  <2>1. c \in Rpc /\ ~ m.tool
    BY <1>1, <1>9 DEF Waiting, IdsMatch
  <2>2. performed' = performed
    BY <1>5, <2>1
  <2> QED
    BY <1>4, <1>9, <2>1, <2>2, HandshakenKeeps
<1> QED
  BY <1>7, <1>8, <1>9 DEF Answer

(* A child answers with an error. *)
LEMMA AnswerErrorKeeps ==
  ASSUME DaemonInv, NEW m \in queue, AnswerError(m)
  PROVE  DaemonInv'
<1>1. TypeOK /\ \A d \in Rpc : CallSound(d)
  BY DEF DaemonInv, CallPart
<1>2. /\ UNCHANGED <<spawned, alive, signalled, performed, process, requestId>>
      /\ UNCHANGED <<daemonStarted, stopping>>
      /\ initialized' \in BOOLEAN /\ cooling' \in BOOLEAN /\ queue' \subseteq queue
  BY <1>1 DEF AnswerError, daemon, driver, TypeOK
<1>3. CASE UNCHANGED call
  <2>1. call' \in [Rpc -> CallState] /\ \A d \in Rpc : call'[d] = call[d]
    BY <1>1, <1>3 DEF TypeOK
  <2> QED
    BY <1>2, <2>1, FailedKeeps
<1>4. ASSUME NEW c \in Waiting(m.id),
             NEW r \in {GivenUp(call[c]), Retried(call[c]), DriverDead(call[c])},
             call' = [call EXCEPT ![c] = r]
      PROVE  DaemonInv'
  <2>1. c \in Rpc /\ call[c] \in CallState /\ call[c].stage \in {"handshake", "tool"}
    BY <1>1, <1>4 DEF Waiting, TypeOK, CallSound, CallState
  <2>2. r \in CallState /\ Failed(call[c], r)
    BY <1>4, <2>1, GivenUpShape, RetriedShape, DriverDeadShape
  <2>3. /\ call' \in [Rpc -> CallState] /\ call'[c] = r
        /\ \A d \in Rpc : d # c => call'[d] = call[d]
    BY <1>1, <1>4, <2>1, <2>2 DEF TypeOK
  <2> QED
    BY <1>2, <2>1, <2>2, <2>3, FailedKeeps
<1> QED
  BY <1>3, <1>4 DEF AnswerError

(* Timers and the hook: one call is changed, and asks for nothing. *)
LEMMA WaitEndsKeeps ==
  ASSUME DaemonInv, NEW c \in Rpc, RequestTimesOut(c) \/ HookEnds(c)
  PROVE  DaemonInv'
<1>1. TypeOK /\ CallSound(c)
  BY DEF DaemonInv, CallPart
<1>2. /\ UNCHANGED <<spawned, alive, signalled, performed, process, requestId>>
      /\ UNCHANGED <<daemonStarted, stopping>>
      /\ initialized' \in BOOLEAN /\ cooling' \in BOOLEAN /\ queue' \subseteq queue
  BY <1>1 DEF RequestTimesOut, HookEnds, world, daemon, driver, TypeOK
<1>3. call[c] \in CallState /\ call[c].stage \in {"handshake", "tool"}
  BY <1>1 DEF RequestTimesOut, HookEnds, TypeOK, CallSound, CallState
<1>4. PICK r \in CallState : call' = [call EXCEPT ![c] = r] /\ Failed(call[c], r)
  <2>1. CASE RequestTimesOut(c)
    BY <1>3, <2>1, RetriedShape DEF RequestTimesOut
  <2>2. CASE HookEnds(c)
    <3>1. PICK r : r = [call[c] EXCEPT !.wait = "backoff"]
      OBVIOUS
    <3>2. r = [kind |-> call[c].kind, stage |-> call[c].stage, wait |-> "backoff",
               attempt |-> call[c].attempt, id |-> call[c].id,
               respawned |-> call[c].respawned, answer |-> call[c].answer]
      BY <1>3, <3>1 DEF CallState
    <3>3. r \in CallState
      BY <1>3, <3>2 DEF CallState
    <3>4. call[c].attempt < MaxAttempts
      BY <1>1, <2>2 DEF CallSound, HookEnds
    <3>5. Failed(call[c], r)
      BY <3>2, <3>4 DEF Failed
    <3>6. call' = [call EXCEPT ![c] = r]
      BY <2>2, <3>1 DEF HookEnds
    <3> QED
      BY <3>3, <3>5, <3>6
  <2> QED
    BY <2>1, <2>2
<1>5. /\ call' \in [Rpc -> CallState] /\ call'[c] = r
      /\ \A d \in Rpc : d # c => call'[d] = call[d]
  BY <1>1, <1>4 DEF TypeOK
<1> QED
  BY <1>2, <1>3, <1>4, <1>5, FailedKeeps

LEMMA BackoffEndsKeeps ==
  ASSUME DaemonInv, NEW c \in Rpc, BackoffEnds(c)
  PROVE  DaemonInv'
<1>1. TypeOK /\ CallSound(c) /\ KindSound
  BY DEF DaemonInv, CallPart
<1>2. Call \subseteq Rpc /\ Open \notin Call /\ Rpc = Call \cup {Open}
  BY DaemonAssumption DEF Rpc
<1>3. /\ call[c] \in CallState /\ call[c].stage \in {"handshake", "tool"}
      /\ call[c].attempt < MaxAttempts /\ call[c].answer = "none"
  BY <1>1 DEF BackoffEnds, TypeOK, CallSound, CallState
<1>4. /\ c = Open => call[c].kind = "open" /\ call[c].stage = "handshake"
      /\ c \in Call => call[c].kind # "open" /\ call[Open].stage = "over"
  BY <1>1, <1>3 DEF KindSound
<1>5. Send(c, call[c], queue) /\ performed' = performed
  BY DEF BackoffEnds
<1>6. CallMoved(c, queue)
  BY <1>3, <1>4, <1>5, SendCall
<1>7. /\ UNCHANGED <<spawned, alive, signalled, performed, process, daemonStarted, stopping>>
      /\ initialized' \in BOOLEAN /\ cooling' \in BOOLEAN
  BY <1>1 DEF BackoffEnds, driver, TypeOK
<1> QED
  BY <1>6, <1>7, MovedKeeps

LEMMA CoolingOverKeeps ==
  ASSUME DaemonInv, CoolingOver
  PROVE  DaemonInv'
<1>1. TypeOK
  BY DEF DaemonInv
<1>2. /\ UNCHANGED <<spawned, alive, signalled, performed, process, requestId>>
      /\ UNCHANGED <<daemonStarted, stopping>>
      /\ initialized' \in BOOLEAN /\ cooling' \in BOOLEAN /\ queue' \subseteq queue
      /\ call' \in [Rpc -> CallState] /\ \A d \in Rpc : call'[d] = call[d]
  BY <1>1 DEF CoolingOver, world, daemon, TypeOK
<1> QED
  BY <1>2, FailedKeeps

-----------------------------------------------------------------------------
(* The end of a child: of the one there is, or of one that outlived stop(). *)
LEMMA ChildEndsKeeps ==
  ASSUME DaemonInv, NEW p \in alive, NEW gone \in [Rpc -> CallState], ChildEnds(p, gone),
         \A c \in Rpc : Failed(call[c], gone[c])
  PROVE  DaemonInv'
<1>1. /\ \A d \in Rpc : CallSound(d)
      /\ TypeOK /\ Phases /\ OneChild /\ IdsBelow
  BY DEF DaemonInv, CallPart
<1>2. Open \in Rpc
  BY DEF Rpc
<1>3. /\ call' = [c \in Rpc |-> IF call[c].wait = "sent" THEN gone[c] ELSE call[c]]
      /\ alive' = alive \ {p} /\ queue' = {m \in queue : m.child # p}
      /\ process' = 0 /\ initialized' = FALSE /\ requestId' = 0
      /\ UNCHANGED <<spawned, signalled, performed>>
  BY DEF ChildEnds, cleanup
<1>4. /\ call' \in [Rpc -> CallState]
      /\ \A c \in Rpc : call'[c] = IF call[c].wait = "sent" THEN gone[c] ELSE call[c]
  BY <1>1, <1>3 DEF TypeOK
<1>5. \A c \in Rpc : \/ call'[c] = call[c]
                     \/ call[c].stage \in {"handshake", "tool"} /\ Failed(call[c], call'[c])
  <2> SUFFICES ASSUME NEW c \in Rpc
               PROVE  \/ call'[c] = call[c]
                      \/ call[c].stage \in {"handshake", "tool"} /\ Failed(call[c], call'[c])
    OBVIOUS
  <2>1. call[c].wait = "sent" => call[c].stage \in {"handshake", "tool"}
    BY <1>1 DEF CallSound, TypeOK, CallState
  <2> QED
    BY <1>4, <2>1
<1>6. \A c \in Rpc : /\ call'[c].wait # "sent"
                     /\ call'[c].answer = "ok" => call[c].answer = "ok"
                     /\ call'[c].stage = "idle" => call[c].stage = "idle"
                     /\ call[c].stage = "over" => call'[c].stage = "over"
  <2> SUFFICES ASSUME NEW c \in Rpc
               PROVE  /\ call'[c].wait # "sent"
                      /\ call'[c].answer = "ok" => call[c].answer = "ok"
                      /\ call'[c].stage = "idle" => call[c].stage = "idle"
                      /\ call[c].stage = "over" => call'[c].stage = "over"
    OBVIOUS
  <2>1. call'[c].wait # "sent"
    BY <1>4 DEF Failed
  <2> QED
    BY <1>5, <2>1 DEF Failed
<1>7. \/ stopping = "waiting" /\ stopping' = "over" /\ daemonStarted' = FALSE
      \/ stopping # "waiting" /\ stopping' = stopping /\ daemonStarted' = daemonStarted
  BY DEF ChildEnds, Stopped, driver
<1>8. queue' \subseteq queue /\ performed' = performed
  BY <1>3
<1>9. CallPart'
  BY <1>4, <1>5, <1>8, CallsFail
<1>10. TypeOK'
  <2>1. cooling' = cooling
    BY DEF ChildEnds, Stopped, driver
  <2> QED
    BY <1>1, <1>3, <1>4, <1>7, <2>1 DEF TypeOK
<1>11. Phases'
  BY <1>1, <1>2, <1>3, <1>6, <1>7 DEF Phases
<1>12. OneChild'
  <2>1. \A m \in queue' : m.child \in alive'
    BY <1>1, <1>3 DEF OneChild
  <2>2. stopping # "over" => alive = {p} /\ process = p
    BY <1>1 DEF OneChild
  <2>3. stopping' = "over" /\ call'[Open].answer = "ok" => alive' \subseteq signalled'
    BY <1>1, <1>2, <1>3, <1>6, <1>7, <2>2 DEF OneChild
  <2> QED
    BY <1>3, <1>6, <1>7, <2>1, <2>2, <2>3 DEF OneChild
<1>13. IdsBelow'
  BY <1>3 DEF IdsBelow
<1> QED
  BY <1>9, <1>10, <1>11, <1>12, <1>13 DEF DaemonInv

LEMMA ChildGoneKeeps ==
  ASSUME DaemonInv, NEW p \in alive, ChildExits(p) \/ CannotSpawn(p)
  PROVE  DaemonInv'
<1>1. \A c \in Rpc : call[c] \in CallState
  BY DEF DaemonInv, TypeOK
<1>2. CASE ChildExits(p)
  <2>1. PICK gone : gone = [c \in Rpc |-> Retried(call[c])]
    OBVIOUS
  <2>2. gone \in [Rpc -> CallState] /\ \A c \in Rpc : Failed(call[c], gone[c])
    BY <1>1, <2>1, RetriedShape
  <2>3. ChildEnds(p, gone)
    BY <1>2, <2>1 DEF ChildExits
  <2> QED
    BY <2>2, <2>3, ChildEndsKeeps
<1>3. CASE CannotSpawn(p)
  <2>1. PICK gone : gone = [c \in Rpc |-> GivenUp(call[c])]
    OBVIOUS
  <2>2. gone \in [Rpc -> CallState] /\ \A c \in Rpc : Failed(call[c], gone[c])
    BY <1>1, <2>1, GivenUpShape
  <2>3. ChildEnds(p, gone)
    BY <1>3, <2>1 DEF CannotSpawn
  <2> QED
    BY <2>2, <2>3, ChildEndsKeeps
<1> QED
  BY <1>2, <1>3

(* stop(): nothing to do, or the child is killed and the calls give up. *)
LEMMA StopKeeps ==
  ASSUME DaemonInv, Stop
  PROVE  DaemonInv'
<1>1. /\ \A d \in Rpc : CallSound(d)
      /\ TypeOK /\ Phases /\ OneChild /\ IdsBelow
  BY DEF DaemonInv, CallPart
<1>2. Open \in Rpc
  BY DEF Rpc
<1>3. /\ call[Open].stage = "over" /\ stopping = "no"
      /\ UNCHANGED <<spawned, alive, queue, performed, process, initialized, requestId>>
  BY DEF Stop, daemon
<1>4. CASE NothingToStop /\ Stopped /\ UNCHANGED <<signalled, call>>
  <2>1. /\ \A c \in Rpc : call'[c] = call[c]
        /\ stopping' = "over" /\ daemonStarted' = FALSE /\ cooling' = cooling
        /\ call' \in [Rpc -> CallState]
    BY <1>1, <1>4 DEF Stopped, TypeOK
  <2>2. CallPart'
    BY <1>3, <2>1, CallsFail
  <2>3. TypeOK'
    BY <1>1, <1>3, <1>4, <2>1 DEF TypeOK
  <2>4. Phases'
    BY <1>1, <1>2, <1>3, <2>1 DEF Phases
  <2>5. OneChild'
    <3>1. call[Open].answer = "ok" => alive = {}
      BY <1>1, <1>3, <1>4 DEF NothingToStop, Phases, OneChild
    <3> QED
      BY <1>1, <1>2, <1>3, <1>4, <2>1, <3>1 DEF OneChild
  <2>6. IdsBelow'
    BY <1>1, <1>3, <2>1 DEF IdsBelow
  <2> QED
    BY <2>2, <2>3, <2>4, <2>5, <2>6 DEF DaemonInv
<1>5. CASE /\ ~ NothingToStop
           /\ signalled' = signalled \cup {process}
           /\ call' = [c \in Rpc |-> IF call[c].wait = "sent" THEN GivenUp(call[c])
                                     ELSE call[c]]
           /\ stopping' = "waiting"
           /\ UNCHANGED <<daemonStarted, cooling>>
  <2>1. \A c \in Rpc : /\ call[c] \in CallState /\ GivenUp(call[c]) \in CallState
                       /\ Failed(call[c], GivenUp(call[c]))
    BY <1>1, GivenUpShape DEF TypeOK
  <2>2. /\ call' \in [Rpc -> CallState]
        /\ \A c \in Rpc : call'[c] = IF call[c].wait = "sent" THEN GivenUp(call[c])
                                     ELSE call[c]
    BY <1>5, <2>1
  <2>3. \A c \in Rpc : \/ call'[c] = call[c]
                       \/ call[c].stage \in {"handshake", "tool"} /\ Failed(call[c], call'[c])
    <3> SUFFICES ASSUME NEW c \in Rpc
                 PROVE  \/ call'[c] = call[c]
                        \/ call[c].stage \in {"handshake", "tool"} /\ Failed(call[c], call'[c])
      OBVIOUS
    <3>1. call[c].wait = "sent" => call[c].stage \in {"handshake", "tool"}
      BY <1>1, <2>1 DEF CallSound, CallState
    <3> QED
      BY <2>1, <2>2, <3>1
  <2>4. CallPart'
    BY <1>3, <2>2, <2>3, CallsFail
  <2>5. call'[Open] = call[Open]
    BY <1>1, <1>2, <1>3, <2>2 DEF CallSound
  <2>6. \A c \in Rpc : call'[c].wait # "sent"
    BY <2>1, <2>2 DEF Failed
  <2>7. process # 0 /\ process \in Child
    BY <1>1, <1>5 DEF NothingToStop, TypeOK
  <2>8. TypeOK'
    BY <1>1, <1>3, <1>5, <2>2, <2>7 DEF TypeOK
  <2>9. Phases'
    BY <1>1, <1>3, <1>5, <2>5 DEF Phases
  <2>10. OneChild'
    BY <1>1, <1>3, <1>5, <2>6, <2>7 DEF OneChild
  <2>11. IdsBelow'
    BY <1>1, <1>3, <2>6 DEF IdsBelow
  <2> QED
    BY <2>4, <2>8, <2>9, <2>10, <2>11 DEF DaemonInv
<1> QED
  BY <1>4, <1>5 DEF Stop

LEMMA StopTimesOutKeeps ==
  ASSUME DaemonInv, StopTimesOut
  PROVE  DaemonInv'
<1>1. TypeOK /\ CallPart /\ Phases /\ OneChild
  BY DEF DaemonInv
<1>2. /\ UNCHANGED <<spawned, alive, signalled, queue, performed, call>>
      /\ process' = 0 /\ initialized' = FALSE /\ requestId' = 0
      /\ stopping = "waiting" /\ stopping' = "over" /\ daemonStarted' = FALSE
      /\ cooling' = cooling
  BY DEF StopTimesOut, Stopped, cleanup, world
<1>3. TypeOK'
  BY <1>1, <1>2 DEF TypeOK
<1>4. CallPart'
  BY <1>1, <1>2 DEF CallPart, CallSound, KindSound, IdsMatch, Unasked, Untouched,
     SuccessMeansPerformed
<1>5. Phases'
  BY <1>1, <1>2 DEF Phases
<1>6. OneChild'
  <2>1. alive \subseteq signalled
    BY <1>1, <1>2 DEF OneChild, TypeOK, Child
  <2> QED
    BY <1>1, <1>2, <2>1 DEF OneChild
<1>7. IdsBelow'
  BY <1>2 DEF IdsBelow
<1> QED
  BY <1>3, <1>4, <1>5, <1>6, <1>7 DEF DaemonInv

-----------------------------------------------------------------------------
LEMMA StepKeeps == DaemonInv /\ [Next]_vars => DaemonInv'
<1> SUFFICES ASSUME DaemonInv, [Next]_vars PROVE DaemonInv'
  OBVIOUS
<1>1. CASE StartDriver
  BY <1>1, StartDriverKeeps
<1>2. ASSUME NEW c \in Call, NEW k \in Kinds[c],
             CallCli(c, k) \/ CallDaemon(c, k) \/ CallRespawns(c, k)
      PROVE  DaemonInv'
  BY <1>2, CallCliKeeps, CallDaemonKeeps, CallRespawnsKeeps
<1>3. CASE CoolingOver
  BY <1>3, CoolingOverKeeps
<1>4. ASSUME NEW m \in queue, Answer(m) \/ AnswerError(m)
      PROVE  DaemonInv'
  BY <1>4, AnswerKeeps, AnswerErrorKeeps
<1>5. ASSUME NEW c \in Rpc, CallStep(c)
      PROVE  DaemonInv'
  BY <1>5, WaitEndsKeeps, BackoffEndsKeeps DEF CallStep
<1>6. ASSUME NEW p \in alive, ChildExits(p) \/ CannotSpawn(p)
      PROVE  DaemonInv'
  BY <1>6, ChildGoneKeeps
<1>7. CASE Stop
  BY <1>7, StopKeeps
<1>8. CASE StopTimesOut
  BY <1>8, StopTimesOutKeeps
<1>9. CASE UNCHANGED vars
  BY <1>9 DEF vars, world, daemon, driver, DaemonInv, TypeOK, CallPart, CallSound, KindSound,
     IdsMatch, Unasked, Untouched, SuccessMeansPerformed, Phases, OneChild, IdsBelow
<1> QED
  BY <1>1, <1>2, <1>3, <1>4, <1>5, <1>6, <1>7, <1>8, <1>9 DEF Next

(* The inductive invariant: ids of pending requests, and of the requests   *)
(* the one child has, match across timeouts, deaths and respawns.          *)
THEOREM DaemonInvariance == Spec => []DaemonInv
BY InitHolds, StepKeeps, PTL DEF Spec

(* The variables keep their types: no call is attempted too often.         *)
THEOREM DaemonTypes == Spec => []TypeOK
<1>1. DaemonInv => TypeOK
  BY DEF DaemonInv
<1> QED
  BY <1>1, DaemonInvariance, PTL

(* An action that the daemon reports as done was performed: no late answer *)
(* of a request that timed out, and none of an earlier child, ends another *)
(* call, though ids are used again.                                        *)
THEOREM SuccessIsReal == Spec => []SuccessMeansPerformed
<1>1. DaemonInv => SuccessMeansPerformed
  BY DEF DaemonInv, CallPart
<1> QED
  BY <1>1, DaemonInvariance, PTL

(* An action that went to the CLI is not, and will not be, performed by    *)
(* the daemon.                                                             *)
THEOREM ActsOnOneChannel == Spec => []OneChannel
<1>1. DaemonInv => OneChannel
  BY DEF DaemonInv, CallPart, Unasked, Untouched, OneChannel
<1> QED
  BY <1>1, DaemonInvariance, PTL

(* stop() of a session that was opened leaves no child that was not killed. *)
THEOREM StopKillsEveryChild == Spec => []StopLeavesNoChild
<1>1. DaemonInv => StopLeavesNoChild
  BY DEF DaemonInv, OneChild, StopLeavesNoChild
<1> QED
  BY <1>1, DaemonInvariance, PTL

(* Once stop() has answered no call gets the daemon back. *)
THEOREM StoppedForGood == Spec => NothingSpawnsAfterStop
<1>1. DaemonInv /\ [Next]_vars => (stopping = "over" => spawned' = spawned)
  <2> SUFFICES ASSUME DaemonInv, [Next]_vars, stopping = "over"
               PROVE  spawned' = spawned
    OBVIOUS
  <2>1. ~ daemonStarted /\ call[Open].stage = "over"
    BY DEF DaemonInv, Phases
  <2> QED
    BY <2>1 DEF Next, StartDriver, CallCli, CallDaemon, CallRespawns, CoolingOver, Answer,
       AnswerError, CallStep, RequestTimesOut, HookEnds, BackoffEnds, ChildExits, CannotSpawn,
       ChildEnds, Stop, StopTimesOut, vars, world
<1>2. DaemonInv /\ [Next]_vars => [stopping = "over" => spawned' = spawned]_vars
  BY <1>1
<1> QED
  BY <1>2, DaemonInvariance, PTL DEF Spec, NothingSpawnsAfterStop

=============================================================================
