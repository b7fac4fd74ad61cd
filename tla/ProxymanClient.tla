--------------------------- MODULE ProxymanClient ---------------------------
(***************************************************************************)
(* The shared connection to Proxyman's MCP server (src/proxymanMcp/        *)
(* client.ts): connect() spawns a child and is shared by its callers,      *)
(* callTool() uses the current connection, and after a failed attempt it   *)
(* closes whatever connection is current, connects again and asks once     *)
(* more.  Every await is a point where another handler's call goes on.     *)
(***************************************************************************)
EXTENDS Naturals, FiniteSets

CONSTANTS
  Caller,             (* handlers that call tools                          *)
  MaxConns,           (* bound: children spawned                           *)
  MaxCalls            (* bound: calls                                      *)

VARIABLES
  client,             (* the current connection, 0 for null                *)
  promise,            (* connectPromise: the connection it brings up, or 0 *)
  conn,               (* the children: "connecting", "up", "dead",         *)
                      (* "closed", "failed"                                *)
  caller,             (* of each caller: pc, the connection it uses,       *)
                      (* whether this is its second attempt, how often the *)
                      (* server did what it asked                          *)
  calls,
  faults,             (* since a call last ended: connections lost and     *)
                      (* calls that were not answered                      *)
  refused,            (* ... and whether a child could not be brought up   *)
  overlapped          (* two calls were under way at once                  *)

clientVars == <<client, promise, conn, caller, calls, faults, refused, overlapped>>

Idle == [pc |-> "idle", using |-> 0, again |-> FALSE, done |-> 0]

ClientInit ==
  /\ client = 0 /\ promise = 0 /\ conn = <<>>
  /\ caller = [c \in Caller |-> Idle]
  /\ calls = 0 /\ faults = 0 /\ refused = FALSE /\ overlapped = FALSE

At(c, p)    == caller[c].pc = p
Goes(c, p)  == caller' = [caller EXCEPT ![c].pc = p]
Over(c)      == caller[c].pc \in {"idle", "answered", "failed"}
Broken       == client # 0 /\ conn[client] = "dead"

-----------------------------------------------------------------------------

callTool(c) ==
  /\ Over(c) /\ calls < MaxCalls
  /\ calls' = calls + 1
  /\ caller' = [d \in Caller |-> IF d = c THEN [Idle EXCEPT !.pc = "connect"]
                                ELSE IF Over(d) THEN Idle ELSE caller[d]]
  /\ overlapped' = (overlapped \/ \E d \in Caller \ {c} : ~Over(d))
  /\ faults' = (IF Broken THEN 1 ELSE 0) /\ refused' = FALSE
  /\ UNCHANGED <<client, promise, conn>>

(* A client that is set is good enough, even one not yet connected. *)
connect(c) ==
  /\ At(c, "connect")
  /\ IF client # 0 THEN /\ Goes(c, "send")
                        /\ UNCHANGED <<client, promise, conn>>
     ELSE IF promise # 0 THEN /\ Goes(c, "connecting")
                              /\ UNCHANGED <<client, promise, conn>>
     ELSE /\ Cardinality(DOMAIN conn) < MaxConns
          /\ LET n == Cardinality(DOMAIN conn) + 1
             IN /\ client' = n /\ promise' = n
                /\ conn' = [k \in 1..n |-> IF k = n THEN "connecting" ELSE conn[k]]
          /\ Goes(c, "connecting")
  /\ UNCHANGED <<calls, faults, refused, overlapped>>

Waiting(p) == caller' = [c \in Caller |->
                 IF At(c, "connecting") THEN [caller[c] EXCEPT !.pc = p] ELSE caller[c]]

Connected ==
  /\ promise # 0 /\ conn[promise] = "connecting"
  /\ conn' = [conn EXCEPT ![promise] = "up"]
  /\ promise' = 0
  /\ Waiting("send")
  /\ UNCHANGED <<client, calls, faults, refused, overlapped>>

(* A failed connect resets the client, whichever it is; all who wait fail. *)
ConnectFails ==
  /\ promise # 0 /\ conn[promise] \in {"connecting", "closed"}
  /\ conn' = [conn EXCEPT ![promise] = "failed"]
  /\ promise' = 0 /\ client' = 0
  /\ Waiting("failed")
  /\ refused' = TRUE
  /\ UNCHANGED <<calls, faults, overlapped>>

(* The connection that is current now; with none the attempt throws. *)
Send(c) ==
  /\ At(c, "send")
  /\ caller' = [caller EXCEPT ![c].pc = "sent", ![c].using = client]
  /\ UNCHANGED <<client, promise, conn, calls, faults, refused, overlapped>>

Serves(k) == k # 0 /\ conn[k] = "up"

Perform(c) ==
  /\ At(c, "sent") /\ Serves(caller[c].using)
  /\ caller' = [caller EXCEPT ![c].pc = "performed", ![c].done = @ + 1]
  /\ UNCHANGED <<client, promise, conn, calls, faults, refused, overlapped>>

(* The answer, a tool's error among them: that is not tried again. *)
Answer(c) ==
  /\ At(c, "performed") /\ Serves(caller[c].using)
  /\ Goes(c, "answered")
  /\ UNCHANGED <<client, promise, conn, calls, faults, refused, overlapped>>

Failing(c) == Goes(c, IF caller[c].again THEN "failed" ELSE "close")

(* The connection is gone, or not there yet. *)
CallThrows(c) ==
  /\ caller[c].pc \in {"sent", "performed"} /\ ~Serves(caller[c].using)
  /\ Failing(c)
  /\ UNCHANGED <<client, promise, conn, calls, faults, refused, overlapped>>

(* The request times out, or the server answers with a protocol error. *)
TimesOut(c) ==
  /\ caller[c].pc \in {"sent", "performed"} /\ Serves(caller[c].using)
  /\ Failing(c)
  /\ faults' = faults + 1
  /\ UNCHANGED <<client, promise, conn, calls, refused, overlapped>>

close_Skipped(c) ==
  /\ At(c, "close")
  /\ caller' = [caller EXCEPT ![c].pc = "connect", ![c].again = TRUE]
  /\ UNCHANGED <<client, promise, conn, calls, faults, refused, overlapped>>

close_Forgets(c) ==
  /\ At(c, "close")
  /\ Goes(c, "closing")
  /\ UNCHANGED <<client, promise, conn, calls, faults, refused, overlapped>>

(* close(): the child of the current client, which need not be the one     *)
(* the attempt used; null is set when the child is gone.                   *)
close(c) ==
  /\ At(c, "close")
  /\ IF client = 0
     THEN /\ caller' = [caller EXCEPT ![c].pc = "connect", ![c].again = TRUE]
          /\ UNCHANGED conn
     ELSE /\ Goes(c, "closing")
          /\ conn' = [conn EXCEPT ![client] = "closed"]
  /\ UNCHANGED <<client, promise, calls, faults, refused, overlapped>>

Closed(c) ==
  /\ At(c, "closing")
  /\ client' = 0
  /\ caller' = [caller EXCEPT ![c].pc = "connect", ![c].again = TRUE]
  /\ UNCHANGED <<promise, conn, calls, faults, refused, overlapped>>

(* The environment. *)
Dies ==
  /\ \E k \in DOMAIN conn :
       conn[k] = "up" /\ conn' = [conn EXCEPT ![k] = "dead"]
  /\ faults' = faults + 1
  /\ UNCHANGED <<client, promise, caller, calls, refused, overlapped>>

CallStep(c) ==
  connect(c) \/ Send(c) \/ Perform(c) \/ Answer(c) \/ CallThrows(c) \/ close(c) \/ Closed(c)

ClientNext ==
  \/ \E c \in Caller : callTool(c) \/ CallStep(c) \/ TimesOut(c)
  \/ Connected \/ ConnectFails \/ Dies

ClientSpec == ClientInit /\ [][ClientNext]_clientVars

-----------------------------------------------------------------------------
(* Properties. *)

(* As long as calls do not overlap, every child that is alive is the       *)
(* current client's, so none is left behind (client.ts, "so we don't spawn *)
(* a new mcp-server child per call"), and one fault is survived: a call    *)
(* fails only after two, or when no child could be brought up (callTool's  *)
(* reconnect).  Calls that fail side by side do leave a child: the second  *)
(* close() forgets the connection the first reconnect has just set.        *)
ReconnectIsClean ==
  ~overlapped =>
    /\ \A k \in DOMAIN conn : conn[k] \in {"up", "connecting"} => k = client
    /\ \A c \in Caller : At(c, "failed") => refused \/ faults >= 2
=============================================================================
