------------------------------ MODULE HarCache ------------------------------
(***************************************************************************)
(* Reading the recorded traffic from Proxyman (src/proxyman/wrapper.ts and *)
(* src/verification/event-source.ts).  An export runs Proxyman's command   *)
(* line and reads the file it wrote; its result is cached for two seconds  *)
(* and shared by all callers, whichever domains they ask for.              *)
(*                                                                         *)
(* Time is counted in seconds.  A request is its domain and its time.      *)
(***************************************************************************)
EXTENDS Naturals, FiniteSets

CONSTANTS
  Reader,             (* verification tools                                *)
  Domain,
  Asks,               (* sets of domains the sessions filter for           *)
  MaxTime, MaxTraffic (* bounds: seconds, requests                         *)

cacheValidity == 2

VARIABLES
  now,                (* Date.now()                                        *)
  traffic,            (* Proxyman's log                                    *)
  cachedHar,          (* data and timestamp, `of` the domains exported;    *)
                      (* timestamp 0 for none                              *)
  reader              (* of each caller: pc, what it asks, since when the  *)
                      (* session runs, when it began, the data it has and  *)
                      (* the domains these were exported for               *)

harVars == <<now, traffic, cachedHar, reader>>

HarInit ==
  /\ now = 1 /\ traffic = {}
  /\ cachedHar = [data |-> {}, timestamp |-> 0, of |-> {}]
  /\ reader = [c \in Reader |->
       [pc |-> "idle", asks |-> {}, start |-> 1, began |-> 0, data |-> {}, of |-> {}]]

Ask(c, r) == reader' = [reader EXCEPT ![c] = r]

-----------------------------------------------------------------------------

CacheIsFresh == cachedHar.timestamp # 0 /\ now - cachedHar.timestamp < cacheValidity

(* getMergedEvents keeps what the session has seen since its start. *)
Scoped(data, start) == {e \in data : e.time >= start}

(* getTransactions, getPayload: the cache if it is fresh, as it is. *)
Cached(c) ==
  /\ reader[c].pc \in {"idle", "answered"} /\ CacheIsFresh
  /\ \E ask \in Asks, start \in {1, now} :
       Ask(c, [pc |-> "answered", asks |-> ask, start |-> start, began |-> now,
               data |-> Scoped(cachedHar.data, start), of |-> cachedHar.of])
  /\ UNCHANGED <<now, traffic, cachedHar>>

(* Otherwise an export, which takes its time. *)
Export(c) ==
  /\ reader[c].pc \in {"idle", "answered"} /\ ~CacheIsFresh
  /\ \E ask \in Asks, start \in {1, now} :
       Ask(c, [pc |-> "exporting", asks |-> ask, start |-> start, began |-> now,
               data |-> {}, of |-> ask])
  /\ UNCHANGED <<now, traffic, cachedHar>>

exportHar(c) ==
  /\ reader[c].pc = "exporting"
  /\ Ask(c, [reader[c] EXCEPT !.pc = "exported",
                              !.data = {e \in traffic : e.domain \in reader[c].asks}])
  /\ UNCHANGED <<now, traffic, cachedHar>>

(* The command line fails, or its file cannot be read: no answer. *)
ExportFails(c) ==
  /\ reader[c].pc \in {"exporting", "exported"}
  /\ Ask(c, [reader[c] EXCEPT !.pc = "idle", !.data = {}])
  /\ UNCHANGED <<now, traffic, cachedHar>>

Answers(c) == Ask(c, [reader[c] EXCEPT !.pc = "answered",
                                       !.data = Scoped(@, reader[c].start)])

Exported_StampedNow(c) ==
  /\ reader[c].pc = "exported"
  /\ cachedHar' = [data |-> reader[c].data, timestamp |-> now, of |-> reader[c].asks]
  /\ Answers(c)
  /\ UNCHANGED <<now, traffic>>

(* The cache bears the time at which the call began. *)
Exported(c) ==
  /\ reader[c].pc = "exported"
  /\ cachedHar' = [data |-> reader[c].data, timestamp |-> reader[c].began,
                   of |-> reader[c].asks]
  /\ Answers(c)
  /\ UNCHANGED <<now, traffic>>

(* The environment. *)
Passes ==
  /\ now < MaxTime /\ now' = now + 1
  /\ UNCHANGED <<traffic, cachedHar, reader>>

Request ==
  /\ Cardinality(traffic) < MaxTraffic
  /\ \E d \in Domain : traffic' = traffic \cup {[domain |-> d, time |-> now]}
  /\ UNCHANGED <<now, cachedHar, reader>>

HarNext ==
  \/ \E c \in Reader : Cached(c) \/ Export(c) \/ exportHar(c) \/ ExportFails(c) \/ Exported(c)
  \/ Passes \/ Request

HarSpec == HarInit /\ [][HarNext]_harVars

-----------------------------------------------------------------------------

(* An answer lacks no request that was two seconds old when it was asked   *)
(* for, of the domains asked for; if the cache it came from was filled for *)
(* other domains, of those asked for by both (getTransactions, getPayload).*)
AnswerIsFresh ==
  \A c \in Reader : LET r == reader[c] IN
    r.pc = "answered" =>
      \A e \in traffic :
        /\ e.domain \in r.asks \cap r.of
        /\ e.time >= r.start /\ e.time + cacheValidity <= r.began
        => e \in r.data

=============================================================================
