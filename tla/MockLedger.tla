----------------------------- MODULE MockLedger -----------------------------
(***************************************************************************)
(* Live response mocks: scripting rules installed in Proxyman by           *)
(* set_mock_response, deleted by clear_mock_responses, swept at the end of *)
(* stop_and_compile_test and by force_cleanup_session/_mocks               *)
(* (src/handlers.ts, src/admin/handlers.ts), and the ledger that remembers *)
(* them (src/session/manager.ts).                                          *)
(*                                                                         *)
(* Proxyman is another process.  A request takes effect there in one step  *)
(* and is answered in a later one, or never: the transport breaks, and     *)
(* ProxymanMcpClient then repeats the call.  A rule's name carries its     *)
(* scope and mock id; here the name is that pair.                          *)
(***************************************************************************)
EXTENDS Naturals, FiniteSets

CONSTANTS
  Session,    (* recording sessions                                        *)
  Standalone, (* the scope of mocks set outside a session                  *)
  Mock,       (* mock ids                                                  *)
  Caller,     (* handlers in progress at the same time                     *)
  MaxRules,   (* bound: rules Proxyman ever creates, in any setting        *)
  Setting     (* the circumstances considered, one holds for a behaviour   *)

(* A setting: the scopes, mock ids and handlers that are in use; limit, its *)
(* bound on the rules created; fresh when the client lets ids be generated *)
(* and repeats none; lossy when Proxyman may fail or be lost and its user  *)
(* deletes rules.                                                          *)

ASSUME LedgerAssumption ==
  /\ Standalone \notin Session
  /\ IsFiniteSet(Caller)
  /\ MaxRules \in Nat
  /\ Setting \subseteq [scopes  : SUBSET (Session \cup {Standalone}),
                        mocks   : SUBSET Mock,
                        callers : SUBSET Caller,
                        limit   : 0 .. MaxRules,
                        fresh   : BOOLEAN,
                        lossy   : BOOLEAN]

Scope == Session \cup {Standalone}
Rule  == 1 .. MaxRules
Name  == [scope : Scope, mock : Mock]

VARIABLES
  rules,     (* rules in Proxyman                                          *)
  name,      (* the name of each rule ever created                         *)
  created,   (* how many rules were created: the next id                   *)
  ledger,    (* sessionMocks and standaloneMocks: rule of a name, or 0     *)
  used,      (* names the client asked for, when it never repeats one      *)
  ended,     (* sessions whose stop_and_compile_test swept                 *)
  connected, (* ProxymanMcpClient.isConnected()                            *)
  call,      (* what each handler in progress waits for                    *)
  setting    (* the circumstances of this behaviour                        *)

vars == <<rules, name, created, ledger, used, ended, connected, call, setting>>

(* scopes: what the handler works on.  mock: what a set installs.  todo:   *)
(* ledger entries or listed rules still to delete.                         *)
Idle == [do |-> "idle", scopes |-> {}, mock |-> {}, todo |-> {}]

Entry == [name : Name, rule : Rule]

Handler == [do     : {"idle", "set", "installed", "clear", "list", "sweep"},
            scopes : SUBSET Scope,
            mock   : SUBSET Mock,
            todo   : SUBSET Entry]

TypeOK ==
  /\ rules \in SUBSET Rule
  /\ created \in 0 .. MaxRules
  /\ name \in [1 .. created -> Name]
  /\ ledger \in [Name -> Rule \cup {0}]
  /\ used \in SUBSET Name
  /\ ended \in SUBSET Session
  /\ connected \in BOOLEAN
  /\ call \in [Caller -> Handler]
  /\ setting \in Setting

Init ==
  /\ rules = {}
  /\ name = [r \in {} |-> 0]
  /\ created = 0
  /\ ledger = [n \in Name |-> 0]
  /\ used = {}
  /\ ended = {}
  /\ connected = FALSE
  /\ call = [c \in Caller |-> Idle]
  /\ setting \in Setting

-----------------------------------------------------------------------------
(* Forms of the operators with a plausible bug are named Op_Bug; no action *)
(* uses them, each breaks a property (PROJECT.json, mutants).              *)

(* Mutant: names without a rule are listed too.                            *)
Entries_All(S) ==
  {[name |-> n, rule |-> ledger[n]] : n \in {m \in Name : m.scope \in S}}

(* listSessionMocks, listStandaloneMocks.                                  *)
Entries(S) ==
  {[name |-> n, rule |-> ledger[n]] :
     n \in {m \in Name : m.scope \in S /\ ledger[m] # 0}}

(* Mutants: only the standalone prefix, or whatever prefix, is listed.     *)
RulesTagged_Standalone(S) ==
  {[name |-> name[r], rule |-> r] : r \in {x \in rules : name[x].scope = Standalone}}

RulesTagged_Any(S) == {[name |-> name[r], rule |-> r] : r \in rules}

(* listRulesByTagPrefix.                                                   *)
RulesTagged(S) ==
  {[name |-> name[r], rule |-> r] : r \in {x \in rules : name[x].scope \in S}}

(* clearSessionMocks, clearStandaloneMocks.                                *)
Forgotten(S) == [n \in Name |-> IF n.scope \in S THEN 0 ELSE ledger[n]]

Begin(c, do, scopes, mock, todo) ==
  /\ call[c] = Idle
  /\ call' = [call EXCEPT ![c] =
                [do |-> do, scopes |-> scopes, mock |-> mock, todo |-> todo]]

End(c) == call' = [call EXCEPT ![c] = Idle]

(* A failed call closed the transport and may have reconnected.            *)
MaybeDisconnected == setting.lossy /\ connected' \in BOOLEAN

-----------------------------------------------------------------------------
(* set_mock_response.  The session must exist; its status is not asked.    *)

SetMock(c, s, m) ==
  /\ created < setting.limit
  /\ Begin(c, "set", {s}, {m}, {})
  /\ IF setting.fresh
     THEN LET n == [scope |-> s, mock |-> m]
          IN n \notin used /\ used' = used \cup {n}
     ELSE UNCHANGED used
  /\ UNCHANGED <<rules, name, created, ledger, ended, connected,
                 setting>>

(* Proxyman installs the rule under a new id.                              *)
Install(c) ==
  /\ call[c].do = "set"
  /\ created < setting.limit
  /\ created' = created + 1
  /\ rules' = rules \cup {created'}
  /\ \E s \in call[c].scopes, m \in call[c].mock :
       /\ name' = [r \in 1 .. created' |->
                     IF r = created' THEN [scope |-> s, mock |-> m] ELSE name[r]]
       /\ call' = [call EXCEPT
                     ![c].do = "installed",
                     ![c].todo = {[name |-> [scope |-> s, mock |-> m],
                                   rule |-> created']}]
  /\ UNCHANGED <<ledger, used, ended, connected,
                 setting>>

(* Mutant: every mock goes to the standalone ledger.                       *)
SetReplies_Standalone(c) ==
  /\ call[c].do = "installed"
  /\ \E e \in call[c].todo :
       ledger' = [ledger EXCEPT ![[scope |-> Standalone, mock |-> e.name.mock]] =
                    e.rule]
  /\ End(c)
  /\ connected' = TRUE
  /\ UNCHANGED <<rules, name, created, used, ended, setting>>

(* The answer with the rule id: addSessionMock, addStandaloneMock.         *)
SetReplies(c) ==
  /\ call[c].do = "installed"
  /\ \E e \in call[c].todo : ledger' = [ledger EXCEPT ![e.name] = e.rule]
  /\ End(c)
  /\ connected' = TRUE
  /\ UNCHANGED <<rules, name, created, used, ended, setting>>

(* The answer is lost: callTool sends create_scripting_rule once more.     *)
SetRepeats(c) ==
  /\ setting.lossy
  /\ created < setting.limit
  /\ call[c].do = "installed"
  /\ call' = [call EXCEPT ![c].do = "set", ![c].todo = {}]
  /\ UNCHANGED <<rules, name, created, ledger, used, ended, connected,
                 setting>>

(* The rule is refused, or the answer of the repeated call is lost too.    *)
SetFails(c) ==
  /\ call[c].do \in {"set", "installed"}
  /\ MaybeDisconnected
  /\ End(c)
  /\ UNCHANGED <<rules, name, created, ledger, used, ended, setting>>

-----------------------------------------------------------------------------
(* clear_mock_responses: of one id, or of all ids of a scope.  The entries *)
(* are read once, then deleted one by one.                                 *)

ClearMocks(c, s, M) ==
  LET chosen == {e \in Entries({s}) : e.name.mock \in M}
  IN /\ chosen # {}
     /\ Begin(c, "clear", {s}, {}, chosen)
     /\ UNCHANGED <<rules, name, created, ledger, used, ended, connected,
                    setting>>

Done(c, e) == call' = [call EXCEPT ![c].todo = @ \ {e}]

(* A confirmed delete drops the entry of the mock id, whatever it holds.   *)
ClearDeletes(c) ==
  /\ call[c].do = "clear"
  /\ \E e \in call[c].todo :
       /\ e.rule \in rules
       /\ rules' = rules \ {e.rule}
       /\ ledger' = [ledger EXCEPT ![e.name] = 0]
       /\ Done(c, e)
  /\ connected' = TRUE
  /\ UNCHANGED <<name, created, used, ended, setting>>

(* Mutant: the entry goes although the delete failed.                      *)
ClearFails_Forgets(c) ==
  /\ call[c].do = "clear"
  /\ \E e \in call[c].todo :
       /\ \/ e.rule \notin rules /\ UNCHANGED <<rules, connected>>
          \/ MaybeDisconnected /\ rules' \in {rules, rules \ {e.rule}}
       /\ ledger' = [ledger EXCEPT ![e.name] = 0]
       /\ Done(c, e)
  /\ UNCHANGED <<name, created, used, ended, setting>>

(* deleteRule threw: the rule is unknown, or Proxyman did not answer, with *)
(* or without having deleted the rule.  The entry stays.                   *)
ClearFails(c) ==
  /\ call[c].do = "clear"
  /\ \E e \in call[c].todo :
       /\ \/ e.rule \notin rules /\ UNCHANGED <<rules, connected>>
          \/ MaybeDisconnected /\ rules' \in {rules, rules \ {e.rule}}
       /\ Done(c, e)
  /\ UNCHANGED <<name, created, ledger, used, ended, setting>>

ClearEnds(c) ==
  /\ call[c].do = "clear"
  /\ call[c].todo = {}
  /\ End(c)
  /\ UNCHANGED <<rules, name, created, ledger, used, ended, connected,
                 setting>>

-----------------------------------------------------------------------------
(* Sweeps.  At the end of stop_and_compile_test nothing is asked of        *)
(* Proxyman when the ledger has no entry or no connection was made.        *)

StopSession(c, s) ==
  /\ s \notin ended
  /\ ended' = ended \cup {s}
  /\ IF Entries({s}) = {} \/ ~ connected
     THEN /\ call[c] = Idle
          /\ ledger' = Forgotten({s})
          /\ UNCHANGED call
     ELSE /\ Begin(c, "list", {s}, {}, Entries({s}))
          /\ UNCHANGED ledger
  /\ UNCHANGED <<rules, name, created, used, connected, setting>>

(* force_cleanup_session and force_cleanup_mocks: no ledger is consulted.  *)
ForceCleanup(c, S) ==
  /\ Begin(c, "list", S, {}, {})
  /\ UNCHANGED <<rules, name, created, ledger, used, ended, connected,
                 setting>>

SweepLists(c) ==
  /\ call[c].do = "list"
  /\ call' = [call EXCEPT ![c].do = "sweep",
                          ![c].todo = RulesTagged(call[c].scopes)]
  /\ connected' = TRUE
  /\ UNCHANGED <<rules, name, created, ledger, used, ended, setting>>

(* list_rules failed: what the ledger had goes, for a stop; nothing else.  *)
SweepCannotList(c) ==
  /\ call[c].do = "list"
  /\ MaybeDisconnected
  /\ call' = [call EXCEPT ![c].do = "sweep"]
  /\ UNCHANGED <<rules, name, created, ledger, used, ended, setting>>

SweepDeletes(c) ==
  /\ call[c].do = "sweep"
  /\ \E e \in call[c].todo :
       /\ rules' = rules \ {e.rule}
       /\ Done(c, e)
  /\ connected' = TRUE
  /\ UNCHANGED <<name, created, ledger, used, ended, setting>>

SweepFails(c) ==
  /\ call[c].do = "sweep"
  /\ \E e \in call[c].todo : Done(c, e)
  /\ MaybeDisconnected
  /\ UNCHANGED <<rules, name, created, ledger, used, ended, setting>>

(* Mutant: the ledger survives the sweep.                                  *)
SweepEnds_KeepsLedger(c) ==
  /\ call[c].do = "sweep"
  /\ call[c].todo = {}
  /\ End(c)
  /\ UNCHANGED <<rules, name, created, ledger, used, ended, connected,
                 setting>>

(* The ledger is dropped, also when rules could not be deleted.            *)
SweepEnds(c) ==
  /\ call[c].do = "sweep"
  /\ call[c].todo = {}
  /\ ledger' = Forgotten(call[c].scopes)
  /\ End(c)
  /\ UNCHANGED <<rules, name, created, used, ended, connected,
                 setting>>

-----------------------------------------------------------------------------
(* The user deletes a rule in Proxyman's window.                           *)
UserDeletes(r) ==
  /\ setting.lossy
  /\ r \in rules
  /\ rules' = rules \ {r}
  /\ UNCHANGED <<name, created, ledger, used, ended, connected, call, setting>>

Sets(X) == {{x} : x \in X} \cup {X}

HandlerStep(c) ==
  \/ \E s \in setting.scopes, m \in setting.mocks : SetMock(c, s, m)
  \/ Install(c) \/ SetReplies(c) \/ SetRepeats(c) \/ SetFails(c)
  \/ \E s \in setting.scopes, M \in Sets(setting.mocks) : ClearMocks(c, s, M)
  \/ ClearDeletes(c) \/ ClearFails(c) \/ ClearEnds(c)
  \/ \E s \in setting.scopes \cap Session : StopSession(c, s)
  \/ \E S \in Sets(setting.scopes) : ForceCleanup(c, S)
  \/ SweepLists(c) \/ SweepCannotList(c)
  \/ SweepDeletes(c) \/ SweepFails(c) \/ SweepEnds(c)

Next ==
  \/ \E c \in setting.callers : HandlerStep(c)
  \/ \E r \in Rule : UserDeletes(r)

Spec == Init /\ [][Next]_vars

-----------------------------------------------------------------------------
(* Properties.                                                             *)

AllIdle == \A c \in Caller : call[c] = Idle

(* An entry of the ledger is a rule of that very scope and mock id: no     *)
(* race of handlers files a rule under another session, so what a clear    *)
(* deletes is what the caller named.                                       *)
LedgerSound ==
  \A n \in Name : ledger[n] # 0 => ledger[n] <= created /\ name[ledger[n]] = n

(* What a handler is about to delete is in the scope it was asked to       *)
(* clean: the mocks of other sessions survive (handlers.ts, admin).        *)
SweepsOwnScope ==
  \A c \in Caller : \A e \in call[c].todo : e.name.scope \in call[c].scopes

(* One handler at a time, no id set twice, and a Proxyman that answers.    *)
Alone   == Cardinality(setting.callers) = 1
Careful == Alone /\ setting.fresh /\ ~ setting.lossy

(* Then, between handlers, list_active_mocks reports no drift: Proxyman    *)
(* has exactly the rules of the ledger.                                    *)
DriftFree ==
  Careful /\ AllIdle => rules = {ledger[n] : n \in Name} \ {0}

(* When a session's stop_and_compile_test, or any sweep of its scope, is   *)
(* over, no mock of it is left in Proxyman; a mock set later is another    *)
(* matter.                                                                 *)
StopsAtOnce(s) == s \in ended' \ ended /\ call' = call

SweepOver(c, s) ==
  call[c].do = "sweep" /\ s \in call[c].scopes /\ call'[c] = Idle

SweepLeavesNothing ==
  \A s \in Session :
    StopsAtOnce(s) \/ (\E c \in Caller : SweepOver(c, s))
      => \A r \in rules' : name'[r].scope # s

SweptClean == [][Careful => SweepLeavesNothing]_vars

(* "auto-cleaned on stop_and_compile_test for that session"                *)
(* (src/handlers.ts:2902), whatever ids the client used.                   *)
AutoCleaned == [][SweepLeavesNothing]_vars

(* clear_mock_responses drops an entry only when Proxyman has the rule no  *)
(* longer ("ledger preserved for retry"); no rule becomes unknown by it.   *)
ClearForgetsOnlyDeleted ==
  [][\A n \in Name :
       /\ Alone
       /\ ledger[n] # 0
       /\ ledger'[n] = 0
       /\ \E c \in Caller : call[c].do = "clear"
       => ledger[n] \notin rules']_vars

=============================================================================
