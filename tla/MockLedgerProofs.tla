-------------------------- MODULE MockLedgerProofs --------------------------
(***************************************************************************)
(* Proofs about MockLedger, for every number of sessions, mock ids, rules  *)
(* and handlers, and every set of circumstances.                           *)
(*                                                                         *)
(* Both LedgerSound and SweepsOwnScope speak of what handlers read or were *)
(* told before an await.  The invariant therefore says of every request in *)
(* flight that its rules bear the names it has for them (Held), and that a *)
(* clear which runs alone still agrees with the ledger (InStep).           *)
(***************************************************************************)
EXTENDS MockLedger, FiniteSetTheorems, TLAPS

Accurate(e) == e.rule \in 1 .. created /\ name[e.rule] = e.name

Held(c) == \A e \in call[c].todo : Accurate(e) /\ e.name.scope \in call[c].scopes

AtWork(c) == call[c] # Idle => c \in setting.callers

InStep(c) ==
  Alone /\ call[c].do = "clear" =>
    \A e \in call[c].todo : ledger[e.name] = e.rule

IInv == /\ TypeOK
        /\ rules \subseteq 1 .. created
        /\ LedgerSound
        /\ \A c \in Caller : Held(c) /\ AtWork(c) /\ InStep(c)

-----------------------------------------------------------------------------
LEMMA SettingType ==
  ASSUME TypeOK
  PROVE  /\ setting.scopes \subseteq Scope
         /\ setting.mocks \subseteq Mock
         /\ setting.callers \subseteq Caller
         /\ setting.limit \in 0 .. MaxRules
BY LedgerAssumption DEF TypeOK, Scope

(* Who runs alone is the only one.                                         *)
LEMMA OnlyOne ==
  ASSUME TypeOK, Alone, NEW c \in setting.callers, NEW d \in setting.callers
  PROVE  c = d
<1>1. IsFiniteSet(setting.callers)
  BY SettingType, LedgerAssumption, FS_Subset
<1>2. PICK x : setting.callers = {x}
  BY <1>1, FS_Singleton DEF Alone
<1> QED
  BY <1>2

LEMMA IdleType == Idle \in Handler
BY DEF Idle, Handler

(* The ledger's entries of a scope, and the rules with its tag, are true   *)
(* and of that scope.                                                      *)
LEMMA EntriesTrue ==
  ASSUME TypeOK, LedgerSound, NEW S \in SUBSET Scope
  PROVE  /\ Entries(S) \in SUBSET Entry
         /\ \A e \in Entries(S) :
              Accurate(e) /\ e.name.scope \in S /\ ledger[e.name] = e.rule
<1> SUFFICES ASSUME NEW e \in Entries(S)
             PROVE  /\ e \in Entry
                    /\ Accurate(e) /\ e.name.scope \in S /\ ledger[e.name] = e.rule
  OBVIOUS
<1>1. PICK n \in Name : /\ n.scope \in S /\ ledger[n] # 0
                        /\ e = [name |-> n, rule |-> ledger[n]]
  BY DEF Entries
<1>2. ledger[n] \in Rule /\ created \in Nat
  BY <1>1, LedgerAssumption DEF TypeOK
<1>3. ledger[n] \in 1 .. created /\ name[ledger[n]] = n
  BY <1>1, <1>2, LedgerAssumption DEF LedgerSound, Rule
<1> QED
  BY <1>1, <1>2, <1>3 DEF Entry, Accurate

LEMMA TaggedTrue ==
  ASSUME TypeOK, rules \subseteq 1 .. created, NEW S \in SUBSET Scope
  PROVE  /\ RulesTagged(S) \in SUBSET Entry
         /\ \A e \in RulesTagged(S) : Accurate(e) /\ e.name.scope \in S
<1> SUFFICES ASSUME NEW e \in RulesTagged(S)
             PROVE  e \in Entry /\ Accurate(e) /\ e.name.scope \in S
  OBVIOUS
<1>1. PICK x \in rules : /\ name[x].scope \in S
                         /\ e = [name |-> name[x], rule |-> x]
  BY DEF RulesTagged
<1>2. x \in Rule /\ name[x] \in Name
  BY DEF TypeOK
<1> QED
  BY <1>1, <1>2 DEF Entry, Accurate

LEMMA ForgottenSound ==
  ASSUME TypeOK, LedgerSound, NEW S
  PROVE  /\ Forgotten(S) \in [Name -> Rule \cup {0}]
         /\ \A n \in Name : Forgotten(S)[n] \in {0, ledger[n]}
BY DEF TypeOK, Forgotten

LEMMA InitIInv == Init => IInv
<1> SUFFICES ASSUME Init PROVE IInv
  OBVIOUS
<1>1. TypeOK
  <2>1. created \in 0 .. MaxRules /\ name \in [1 .. created -> Name]
    <3>1. 1 .. 0 = {}
      OBVIOUS
    <3> QED
      BY <3>1, LedgerAssumption DEF Init
  <2>2. ledger \in [Name -> Rule \cup {0}] /\ call \in [Caller -> Handler]
    BY IdleType DEF Init
  <2> QED
    BY <2>1, <2>2 DEF Init, TypeOK
<1>2. rules \subseteq 1 .. created /\ LedgerSound
  BY DEF Init, LedgerSound
<1>3. \A c \in Caller : Held(c) /\ AtWork(c) /\ InStep(c)
  BY DEF Init, Held, AtWork, InStep, Idle
<1> QED
  BY <1>1, <1>2, <1>3 DEF IInv

-----------------------------------------------------------------------------
(* What has to be shown of a step in which one handler moves to r.  Of     *)
(* Proxyman and the ledger: rules get no new names, entries stay true.     *)
WorldMoves ==
  /\ setting' = setting
  /\ created' \in 0 .. MaxRules /\ created <= created'
  /\ name' \in [1 .. created' -> Name]
  /\ \A x \in 1 .. created : name'[x] = name[x]
  /\ rules' \subseteq 1 .. created'
  /\ ledger' \in [Name -> Rule \cup {0}]
  /\ \A n \in Name : ledger'[n] \in {0, ledger[n]}
                      \/ (ledger'[n] \in 1 .. created' /\ name'[ledger'[n]] = n)
  /\ used' \in SUBSET Name
  /\ ended' \in SUBSET Session
  /\ connected' \in BOOLEAN

(* Of the handler: what it holds is true and in its scopes, and a clear    *)
(* that runs alone agrees with the ledger.                                 *)
HandlerHolds(r) ==
  /\ \A e \in r.todo : /\ e.rule \in 1 .. created' /\ name'[e.rule] = e.name
                       /\ e.name.scope \in r.scopes
  /\ Alone /\ r.do = "clear" => \A e \in r.todo : ledger'[e.name] = e.rule

LEMMA HandlerMoves ==
  ASSUME IInv, NEW c \in setting.callers, NEW r \in Handler,
         call' = [call EXCEPT ![c] = r], WorldMoves, HandlerHolds(r)
  PROVE  IInv'
<1>0. c \in Caller
  BY SettingType DEF IInv
<1>1. TypeOK /\ LedgerSound
  BY DEF IInv
<1>2. created \in Nat /\ created' \in Nat /\ created <= created'
  BY <1>1, LedgerAssumption DEF TypeOK, WorldMoves
<1>3. TypeOK'
  <2>1. rules' \in SUBSET Rule
    BY <1>2, LedgerAssumption DEF Rule, WorldMoves
  <2>2. call' \in [Caller -> Handler]
    BY <1>0, <1>1 DEF TypeOK
  <2> QED
    BY <1>1, <2>1, <2>2 DEF TypeOK, WorldMoves
<1>4. LedgerSound'
  <2> SUFFICES ASSUME NEW n \in Name, ledger'[n] # 0
               PROVE  ledger'[n] <= created' /\ name'[ledger'[n]] = n
    BY DEF LedgerSound
  <2>1. CASE ledger'[n] = ledger[n]
    <3>1. ledger[n] \in Rule /\ ledger[n] <= created /\ name[ledger[n]] = n
      BY <1>1, <2>1 DEF TypeOK, LedgerSound
    <3>2. ledger[n] \in 1 .. created
      BY <3>1, <1>2 DEF Rule
    <3> QED
      BY <2>1, <3>1, <3>2, <1>2 DEF WorldMoves
  <2>2. CASE ledger'[n] \in 1 .. created' /\ name'[ledger'[n]] = n
    BY <2>2, <1>2
  <2> QED
    BY <2>1, <2>2, <1>2 DEF WorldMoves
<1>5. ASSUME NEW d \in Caller PROVE Held(d)' /\ AtWork(d)' /\ InStep(d)'
  <2>1. CASE d = c
    <3>1. call'[d] = r
      BY <1>0, <1>1, <2>1 DEF TypeOK
    <3> QED
      BY <2>1, <3>1 DEF Held, AtWork, InStep, Accurate, Alone, WorldMoves, HandlerHolds
  <2>2. CASE d # c
    <3>1. call'[d] = call[d]
      BY <1>0, <1>1, <2>2 DEF TypeOK
    <3>2. Held(d) /\ AtWork(d)
      BY DEF IInv
    <3>3. Held(d)'
      BY <3>1, <3>2, <1>2 DEF Held, Accurate, WorldMoves
    <3>4. Alone => call[d] = Idle
      BY <3>2, <2>2, <1>1, OnlyOne DEF AtWork
    <3> QED
      BY <3>1, <3>2, <3>3, <3>4 DEF AtWork, InStep, Alone, Idle, WorldMoves
  <2> QED
    BY <2>1, <2>2
<1> QED
  BY <1>3, <1>4, <1>5 DEF IInv, WorldMoves

(* The facts a step that leaves Proxyman or the ledger alone needs of them.*)
LEMMA Unmoved ==
  ASSUME IInv
  PROVE  /\ created \in 0 .. MaxRules /\ created <= created
         /\ name \in [1 .. created -> Name]
         /\ rules \subseteq 1 .. created
         /\ ledger \in [Name -> Rule \cup {0}]
         /\ used \in SUBSET Name /\ ended \in SUBSET Session
         /\ connected \in BOOLEAN
         /\ call \in [Caller -> Handler]
BY LedgerAssumption DEF IInv, TypeOK

LEMMA BeginType ==
  ASSUME NEW do \in {"set", "clear", "list"}, NEW S \in SUBSET Scope,
         NEW M \in SUBSET Mock, NEW T \in SUBSET Entry
  PROVE  [do |-> do, scopes |-> S, mock |-> M, todo |-> T] \in Handler
BY DEF Handler

(* Steps by which a handler begins, or goes on with a list it just read.   *)
JustRead(r) ==
  \A e \in r.todo : /\ Accurate(e) /\ e.name.scope \in r.scopes
                    /\ r.do = "clear" => ledger[e.name] = e.rule

LEMMA BeginsInv ==
  ASSUME IInv, NEW c \in setting.callers, NEW r \in Handler,
         call' = [call EXCEPT ![c] = r], JustRead(r),
         UNCHANGED <<rules, name, created, ledger, setting>>,
         used' \in SUBSET Name, ended' \in SUBSET Session,
         connected' \in BOOLEAN
  PROVE  IInv'
<1>1. WorldMoves
  BY Unmoved DEF WorldMoves
<1>2. HandlerHolds(r)
  BY DEF HandlerHolds, JustRead, Accurate
<1> QED
  BY <1>1, <1>2, HandlerMoves

LEMMA SetMockInv ==
  ASSUME IInv, NEW c \in setting.callers, NEW s \in setting.scopes,
         NEW m \in setting.mocks, SetMock(c, s, m)
  PROVE  IInv'
<1>1. c \in Caller /\ s \in Scope /\ m \in Mock
  BY SettingType DEF IInv
<1> DEFINE r == [do |-> "set", scopes |-> {s}, mock |-> {m}, todo |-> {}]
<1>2. r \in Handler
  BY <1>1, BeginType
<1>3. call' = [call EXCEPT ![c] = r]
  BY DEF SetMock, Begin
<1>4. used' \in SUBSET Name
  BY <1>1, Unmoved DEF SetMock, Name
<1>5. JustRead(r)
  BY DEF JustRead
<1>6. /\ UNCHANGED <<rules, name, created, ledger, setting>>
      /\ ended' \in SUBSET Session /\ connected' \in BOOLEAN
  BY Unmoved DEF SetMock
<1> HIDE DEF r
<1> QED
  BY <1>2, <1>3, <1>4, <1>5, <1>6, BeginsInv

LEMMA InstallInv ==
  ASSUME IInv, NEW c \in setting.callers, Install(c)
  PROVE  IInv'
<1>1. c \in Caller /\ setting.limit \in 0 .. MaxRules
  BY SettingType DEF IInv
<1>2. created \in Nat /\ created < MaxRules /\ created' = created + 1
  BY <1>1, Unmoved, LedgerAssumption DEF Install
<1>3. /\ created' \in 0 .. MaxRules /\ created <= created'
      /\ created' \in Rule /\ created' \notin 1 .. created
      /\ 1 .. created \subseteq 1 .. created'
      /\ 1 .. created' = (1 .. created) \cup {created'}
  BY <1>2, LedgerAssumption DEF Rule
<1>4. rules' = rules \cup {created'}
  BY DEF Install
<1>5. PICK s \in call[c].scopes, m \in call[c].mock :
        /\ name' = [x \in 1 .. created' |->
                      IF x = created' THEN [scope |-> s, mock |-> m] ELSE name[x]]
        /\ call' = [call EXCEPT
                      ![c].do = "installed",
                      ![c].todo = {[name |-> [scope |-> s, mock |-> m],
                                    rule |-> created']}]
  BY DEF Install
<1> DEFINE n == [scope |-> s, mock |-> m]
           r == [call[c] EXCEPT !.do = "installed",
                                !.todo = {[name |-> n, rule |-> created']}]
<1>6. call[c] \in Handler
  BY <1>1, Unmoved
<1>7. n \in Name
  BY <1>6 DEF Handler, Name
<1>8. r \in Handler
  <2>1. {[name |-> n, rule |-> created']} \in SUBSET Entry
    BY <1>3, <1>7 DEF Entry
  <2> HIDE DEF n
  <2> QED
    BY <1>6, <2>1 DEF Handler
<1>9. call' = [call EXCEPT ![c] = r]
  BY <1>5
<1>10. /\ name' \in [1 .. created' -> Name]
       /\ \A x \in 1 .. created : name'[x] = name[x]
       /\ name'[created'] = n
  BY <1>3, <1>5, <1>7, Unmoved
<1>11. \A e \in r.todo : /\ e.rule \in 1 .. created' /\ name'[e.rule] = e.name
                          /\ e.name.scope \in r.scopes
  BY <1>3, <1>6, <1>10 DEF Handler
<1>12. r.do # "clear"
  BY <1>6 DEF Handler
<1>13. rules' \subseteq 1 .. created'
  BY <1>3, <1>4, Unmoved
<1>14. /\ setting' = setting /\ used' \in SUBSET Name /\ ended' \in SUBSET Session
       /\ connected' \in BOOLEAN
       /\ ledger' \in [Name -> Rule \cup {0}]
       /\ \A x \in Name : ledger'[x] \in {0, ledger[x]}
  BY Unmoved DEF Install
<1>15. WorldMoves
  BY <1>3, <1>10, <1>13, <1>14 DEF WorldMoves
<1>16. HandlerHolds(r)
  BY <1>11, <1>12 DEF HandlerHolds
<1> HIDE DEF r
<1> QED
  BY <1>8, <1>9, <1>15, <1>16, HandlerMoves

(* Steps after which the handler is idle.                                  *)
LEMMA EndsInv ==
  ASSUME IInv, NEW c \in setting.callers, End(c),
         UNCHANGED <<rules, name, created, used, ended, setting>>,
         connected' \in BOOLEAN,
         ledger' \in [Name -> Rule \cup {0}],
         \A n \in Name : ledger'[n] \in {0, ledger[n]}
                           \/ (ledger'[n] \in 1 .. created /\ name[ledger'[n]] = n)
  PROVE  IInv'
<1>1. call' = [call EXCEPT ![c] = Idle]
  BY DEF End
<1>2. WorldMoves
  BY Unmoved DEF WorldMoves
<1>3. HandlerHolds(Idle)
  BY DEF HandlerHolds, Idle
<1> QED
  BY <1>1, <1>2, <1>3, IdleType, HandlerMoves

LEMMA SetRepliesInv ==
  ASSUME IInv, NEW c \in setting.callers, SetReplies(c)
  PROVE  IInv'
<1>1. c \in Caller
  BY SettingType DEF IInv
<1>2. PICK e \in call[c].todo : ledger' = [ledger EXCEPT ![e.name] = e.rule]
  BY DEF SetReplies
<1>3. e \in Entry /\ Accurate(e)
  BY <1>1, Unmoved DEF Handler, IInv, Held
<1>4. e.name \in Name /\ e.rule \in Rule
  BY <1>3 DEF Entry
<1>5. /\ ledger' \in [Name -> Rule \cup {0}]
      /\ \A n \in Name : ledger'[n] \in {0, ledger[n]}
                          \/ (ledger'[n] \in 1 .. created /\ name[ledger'[n]] = n)
  BY <1>2, <1>3, <1>4, Unmoved DEF Accurate
<1> QED
  BY <1>5, EndsInv DEF SetReplies

(* Steps that forget some of a handler's list, or nothing, and move it on. *)
LEMMA TrimsInv ==
  ASSUME IInv, NEW c \in setting.callers, NEW r \in Handler,
         call' = [call EXCEPT ![c] = r],
         r.scopes = call[c].scopes, r.todo \subseteq call[c].todo,
         r.do = "clear" => call[c].do = "clear" /\ ledger' = ledger,
         UNCHANGED <<name, created, used, ended, setting>>,
         rules' \subseteq rules,
         connected' \in BOOLEAN,
         ledger' \in [Name -> Rule \cup {0}],
         \A n \in Name : ledger'[n] \in {0, ledger[n]}
  PROVE  IInv'
<1>1. c \in Caller
  BY SettingType DEF IInv
<1>2. Held(c) /\ InStep(c)
  BY <1>1 DEF IInv
<1>3. WorldMoves
  BY Unmoved DEF WorldMoves
<1>4. HandlerHolds(r)
  BY <1>2 DEF HandlerHolds, Held, Accurate, InStep
<1> QED
  BY <1>3, <1>4, HandlerMoves

LEMMA TrimsTo ==
  ASSUME NEW h \in Handler, NEW T \in SUBSET h.todo,
         NEW do \in {"set", "clear", "list", "sweep"}
  PROVE  /\ [h EXCEPT !.do = do] \in Handler
         /\ [h EXCEPT !.todo = T] \in Handler
         /\ [h EXCEPT !.do = do, !.todo = T] \in Handler
BY DEF Handler

LEMMA SetRepeatsInv ==
  ASSUME IInv, NEW c \in setting.callers, SetRepeats(c)
  PROVE  IInv'
<1>1. call[c] \in Handler
  BY SettingType, Unmoved DEF IInv
<1> DEFINE r == [call[c] EXCEPT !.do = "set", !.todo = {}]
<1>2. r \in Handler
  BY <1>1, TrimsTo
<1>3. call' = [call EXCEPT ![c] = r]
  BY DEF SetRepeats
<1>4. r.scopes = call[c].scopes /\ r.todo \subseteq call[c].todo /\ r.do = "set"
  BY <1>1 DEF Handler
<1> HIDE DEF r
<1>5. /\ UNCHANGED <<name, created, used, ended, setting>>
      /\ rules' = rules /\ connected' \in BOOLEAN /\ ledger' = ledger
      /\ ledger' \in [Name -> Rule \cup {0}]
  BY Unmoved DEF SetRepeats
<1> QED
  BY <1>2, <1>3, <1>4, <1>5, TrimsInv

(* A clear or a sweep is done with the entry e.                            *)
LEMMA DoneInv ==
  ASSUME IInv, NEW c \in setting.callers, NEW e \in call[c].todo, Done(c, e),
         call[c].do \in {"clear", "sweep"},
         UNCHANGED <<name, created, ledger, used, ended, setting>>,
         rules' \subseteq rules, connected' \in BOOLEAN
  PROVE  IInv'
<1>1. call[c] \in Handler
  BY SettingType, Unmoved DEF IInv
<1> DEFINE r == [call[c] EXCEPT !.todo = @ \ {e}]
<1>2. r \in Handler
  BY <1>1, TrimsTo
<1>3. call' = [call EXCEPT ![c] = r]
  BY DEF Done
<1>4. /\ r.scopes = call[c].scopes /\ r.todo \subseteq call[c].todo
      /\ r.do = call[c].do
  BY <1>1 DEF Handler
<1> HIDE DEF r
<1> QED
  BY <1>2, <1>3, <1>4, Unmoved, TrimsInv

LEMMA ClearMocksInv ==
  ASSUME IInv, NEW c \in setting.callers, NEW s \in setting.scopes, NEW M,
         ClearMocks(c, s, M)
  PROVE  IInv'
<1>1. {s} \in SUBSET Scope
  BY SettingType DEF IInv
<1> DEFINE chosen == {e \in Entries({s}) : e.name.mock \in M}
           r == [do |-> "clear", scopes |-> {s}, mock |-> {}, todo |-> chosen]
<1>2. chosen \in SUBSET Entry
  BY <1>1, EntriesTrue DEF IInv
<1>3. \A e \in chosen : Accurate(e) /\ e.name.scope \in {s} /\ ledger[e.name] = e.rule
  BY <1>1, EntriesTrue DEF IInv
<1>4. call' = [call EXCEPT ![c] = r]
  BY DEF ClearMocks, Begin
<1>5. UNCHANGED <<rules, name, created, ledger, used, ended, connected, setting>>
  BY DEF ClearMocks
<1> HIDE DEF chosen
<1>6. r \in Handler /\ r.todo = chosen /\ r.scopes = {s}
  BY <1>1, <1>2, BeginType
<1>7. JustRead(r)
  BY <1>3, <1>6 DEF JustRead
<1> HIDE DEF r
<1> QED
  BY <1>4, <1>5, <1>6, <1>7, Unmoved, BeginsInv

(* A confirmed delete: alone, the clear still agrees with the ledger, for  *)
(* no two of its entries have one name.                                    *)
LEMMA ClearDeletesInv ==
  ASSUME IInv, NEW c \in setting.callers, ClearDeletes(c)
  PROVE  IInv'
<1>1. call[c] \in Handler /\ c \in Caller
  BY SettingType, Unmoved DEF IInv
<1>2. PICK e \in call[c].todo : /\ rules' = rules \ {e.rule}
                                /\ ledger' = [ledger EXCEPT ![e.name] = 0]
                                /\ Done(c, e)
  BY DEF ClearDeletes
<1> DEFINE r == [call[c] EXCEPT !.todo = @ \ {e}]
<1>3. r \in Handler /\ call' = [call EXCEPT ![c] = r]
  BY <1>1, <1>2, TrimsTo DEF Done
<1>4. /\ r.scopes = call[c].scopes /\ r.todo = call[c].todo \ {e}
      /\ r.do = call[c].do
  BY <1>1 DEF Handler
<1>5. e \in Entry /\ call[c].todo \subseteq Entry
  BY <1>1 DEF Handler
<1>6. /\ ledger' \in [Name -> Rule \cup {0}]
      /\ \A n \in Name : ledger'[n] \in {0, ledger[n]}
  BY <1>2, Unmoved
<1>7. Held(c) /\ InStep(c)
  BY <1>1 DEF IInv
<1>8. \A x \in r.todo : /\ x.rule \in 1 .. created' /\ name'[x.rule] = x.name
                         /\ x.name.scope \in r.scopes
  BY <1>4, <1>7 DEF Held, Accurate, ClearDeletes
<1>9. ASSUME Alone, NEW x \in r.todo PROVE ledger'[x.name] = x.rule
  <2>1. ledger[x.name] = x.rule /\ ledger[e.name] = e.rule
    BY <1>4, <1>7, <1>9 DEF InStep, ClearDeletes
  <2>2. x \in Entry /\ x # e
    BY <1>4, <1>5
  <2>3. x.name # e.name
    BY <2>1, <2>2, <1>5 DEF Entry
  <2> QED
    BY <1>2, <2>1, <2>2, <2>3, Unmoved DEF Entry
<1>10. /\ UNCHANGED <<name, created, used, ended, setting>>
       /\ rules' \subseteq 1 .. created' /\ connected' \in BOOLEAN
  BY <1>2, Unmoved DEF ClearDeletes
<1>11. WorldMoves
  BY <1>6, <1>10, Unmoved DEF WorldMoves
<1>12. HandlerHolds(r)
  BY <1>8, <1>9 DEF HandlerHolds
<1> HIDE DEF r
<1> QED
  BY <1>3, <1>11, <1>12, HandlerMoves

LEMMA StopSessionInv ==
  ASSUME IInv, NEW c \in setting.callers, NEW s \in setting.scopes \cap Session,
         StopSession(c, s)
  PROVE  IInv'
<1>1. {s} \in SUBSET Scope /\ c \in Caller
  BY SettingType DEF IInv
<1>2. ended' \in SUBSET Session
  BY Unmoved DEF StopSession
<1>3. CASE Entries({s}) = {} \/ ~ connected
  <2>1. call[c] = Idle /\ call' = call /\ ledger' = Forgotten({s})
    BY <1>3 DEF StopSession
  <2>2. call' = [call EXCEPT ![c] = Idle]
    BY <2>1, <1>1, Unmoved
  <2>3. HandlerHolds(Idle)
    BY DEF HandlerHolds, Idle
  <2>4. WorldMoves
    BY <1>2, <2>1, ForgottenSound, Unmoved DEF WorldMoves, StopSession, IInv
  <2> QED
    BY <2>2, <2>3, <2>4, IdleType, HandlerMoves
<1>4. CASE ~ (Entries({s}) = {} \/ ~ connected)
  <2> DEFINE r == [do |-> "list", scopes |-> {s}, mock |-> {}, todo |-> Entries({s})]
  <2>1. Entries({s}) \in SUBSET Entry
    BY <1>1, EntriesTrue DEF IInv
  <2>2. r \in Handler
    BY <1>1, <2>1, BeginType
  <2>3. JustRead(r)
    BY <1>1, EntriesTrue DEF IInv, JustRead
  <2>4. call' = [call EXCEPT ![c] = r]
    BY <1>4 DEF StopSession, Begin
  <2>5. UNCHANGED <<rules, name, created, ledger, used, connected, setting>>
    BY <1>4 DEF StopSession
  <2> HIDE DEF r
  <2> QED
    BY <1>2, <2>2, <2>3, <2>4, <2>5, Unmoved, BeginsInv
<1> QED
  BY <1>3, <1>4

LEMMA ForceCleanupInv ==
  ASSUME IInv, NEW c \in setting.callers, NEW S \in SUBSET setting.scopes,
         ForceCleanup(c, S)
  PROVE  IInv'
<1> DEFINE r == [do |-> "list", scopes |-> S, mock |-> {}, todo |-> {}]
<1>1. S \in SUBSET Scope
  BY SettingType DEF IInv
<1>2. r \in Handler
  BY <1>1, BeginType
<1>3. JustRead(r)
  BY DEF JustRead
<1>4. call' = [call EXCEPT ![c] = r]
  BY DEF ForceCleanup, Begin
<1>5. UNCHANGED <<rules, name, created, ledger, used, ended, connected, setting>>
  BY DEF ForceCleanup
<1> HIDE DEF r
<1> QED
  BY <1>2, <1>3, <1>4, <1>5, Unmoved, BeginsInv

LEMMA SweepListsInv ==
  ASSUME IInv, NEW c \in setting.callers, SweepLists(c)
  PROVE  IInv'
<1>1. call[c] \in Handler
  BY SettingType, Unmoved DEF IInv
<1> DEFINE T == RulesTagged(call[c].scopes)
           r == [call[c] EXCEPT !.do = "sweep", !.todo = T]
<1>2. call[c].scopes \in SUBSET Scope
  BY <1>1 DEF Handler
<1>3. T \in SUBSET Entry /\ \A e \in T : Accurate(e) /\ e.name.scope \in call[c].scopes
  BY <1>2, TaggedTrue DEF IInv
<1>4. call' = [call EXCEPT ![c] = r]
  BY DEF SweepLists
<1> HIDE DEF T
<1>5. r \in Handler /\ r.todo = T /\ r.scopes = call[c].scopes /\ r.do = "sweep"
  BY <1>1, <1>3 DEF Handler
<1> HIDE DEF r
<1>6. JustRead(r)
  BY <1>3, <1>5 DEF JustRead
<1>7. UNCHANGED <<rules, name, created, ledger, used, ended, setting>>
  BY DEF SweepLists
<1>8. connected' \in BOOLEAN
  BY DEF SweepLists
<1> QED
  BY <1>4, <1>5, <1>6, <1>7, <1>8, Unmoved, BeginsInv

LEMMA SweepCannotListInv ==
  ASSUME IInv, NEW c \in setting.callers, SweepCannotList(c)
  PROVE  IInv'
<1>1. call[c] \in Handler
  BY SettingType, Unmoved DEF IInv
<1> DEFINE r == [call[c] EXCEPT !.do = "sweep"]
<1>2. call' = [call EXCEPT ![c] = r]
  BY DEF SweepCannotList
<1>3. /\ r \in Handler /\ r.scopes = call[c].scopes /\ r.todo = call[c].todo
      /\ r.do = "sweep"
  BY <1>1 DEF Handler
<1> HIDE DEF r
<1>4. /\ UNCHANGED <<name, created, used, ended, setting>>
      /\ rules' = rules /\ ledger' = ledger /\ connected' \in BOOLEAN
  BY DEF SweepCannotList, MaybeDisconnected
<1> QED
  BY <1>2, <1>3, <1>4, Unmoved, TrimsInv

-----------------------------------------------------------------------------
LEMMA UserDeletesInv ==
  ASSUME IInv, NEW r \in Rule, UserDeletes(r)
  PROVE  IInv'
<1>1. /\ rules' \subseteq rules
      /\ UNCHANGED <<name, created, ledger, used, ended, connected, call, setting>>
  BY DEF UserDeletes
<1>2. TypeOK'
  BY <1>1 DEF IInv, TypeOK
<1>3. \A c \in Caller : Held(c)' /\ AtWork(c)' /\ InStep(c)'
  BY <1>1 DEF IInv, Held, Accurate, AtWork, InStep, Alone
<1> QED
  BY <1>1, <1>2, <1>3 DEF IInv, LedgerSound

LEMMA HandlerInv ==
  ASSUME IInv, NEW c \in setting.callers, HandlerStep(c)
  PROVE  IInv'
<1>1. ASSUME NEW s \in setting.scopes, NEW m \in setting.mocks, SetMock(c, s, m)
      PROVE  IInv'
  BY <1>1, SetMockInv
<1>2. CASE SetFails(c)
  BY <1>2, EndsInv, Unmoved DEF SetFails, MaybeDisconnected
<1>3. ASSUME NEW s \in setting.scopes, NEW M \in Sets(setting.mocks),
             ClearMocks(c, s, M)
      PROVE  IInv'
  BY <1>3, ClearMocksInv
<1>4. CASE ClearFails(c)
  <2>1. PICK e \in call[c].todo :
          /\ \/ e.rule \notin rules /\ UNCHANGED <<rules, connected>>
             \/ MaybeDisconnected /\ rules' \in {rules, rules \ {e.rule}}
          /\ Done(c, e)
    BY <1>4 DEF ClearFails
  <2>2. rules' \subseteq rules /\ connected' \in BOOLEAN
    BY <2>1, Unmoved DEF MaybeDisconnected
  <2> QED
    BY <1>4, <2>1, <2>2, DoneInv DEF ClearFails
<1>5. CASE ClearEnds(c)
  BY <1>5, EndsInv, Unmoved DEF ClearEnds
<1>6. ASSUME NEW s \in setting.scopes \cap Session, StopSession(c, s)
      PROVE  IInv'
  BY <1>6, StopSessionInv
<1>7. ASSUME NEW S \in Sets(setting.scopes), ForceCleanup(c, S)
      PROVE  IInv'
  BY <1>7, ForceCleanupInv DEF Sets
<1>8. CASE SweepDeletes(c)
  <2>1. PICK e \in call[c].todo : rules' = rules \ {e.rule} /\ Done(c, e)
    BY <1>8 DEF SweepDeletes
  <2> QED
    BY <1>8, <2>1, DoneInv DEF SweepDeletes
<1>9. CASE SweepFails(c)
  <2>1. PICK e \in call[c].todo : Done(c, e)
    BY <1>9 DEF SweepFails
  <2> QED
    BY <1>9, <2>1, DoneInv DEF SweepFails, MaybeDisconnected
<1>10. CASE SweepEnds(c)
  <2>1. /\ ledger' \in [Name -> Rule \cup {0}]
        /\ \A n \in Name : ledger'[n] \in {0, ledger[n]}
    BY <1>10, ForgottenSound DEF SweepEnds, IInv
  <2> QED
    BY <1>10, <2>1, EndsInv, Unmoved DEF SweepEnds
<1> QED
  BY <1>1, <1>2, <1>3, <1>4, <1>5, <1>6, <1>7, <1>8, <1>9, <1>10,
     InstallInv, SetRepliesInv, SetRepeatsInv, ClearDeletesInv, SweepListsInv,
     SweepCannotListInv
     DEF HandlerStep

LEMMA StepIInv == IInv /\ [Next]_vars => IInv'
<1> SUFFICES ASSUME IInv, [Next]_vars PROVE IInv'
  OBVIOUS
<1>1. ASSUME NEW c \in setting.callers, HandlerStep(c) PROVE IInv'
  BY <1>1, HandlerInv
<1>2. ASSUME NEW r \in Rule, UserDeletes(r) PROVE IInv'
  BY <1>2, UserDeletesInv
<1>3. CASE UNCHANGED vars
  BY <1>3 DEF vars, IInv, TypeOK, LedgerSound, Held, Accurate, AtWork, InStep, Alone
<1> QED
  BY <1>1, <1>2, <1>3 DEF Next

(* Ledger, names and the requests in flight agree in every state.          *)
THEOREM Invariance == Spec => []IInv
<1> QED
  BY InitIInv, StepIInv, PTL DEF Spec

(* Every variable keeps its type.                                          *)
THEOREM TypeCorrect == Spec => []TypeOK
<1>1. IInv => TypeOK
  BY DEF IInv
<1> QED
  BY <1>1, Invariance, PTL

(* An entry of the ledger is a rule of that scope and mock id, however     *)
(* many handlers race and whatever Proxyman answers.                       *)
THEOREM LedgerTrue == Spec => []LedgerSound
<1>1. IInv => LedgerSound
  BY DEF IInv
<1> QED
  BY <1>1, Invariance, PTL

(* What a handler is about to delete is in the scope it was asked to clean.*)
THEOREM OwnScope == Spec => []SweepsOwnScope
<1>1. IInv => SweepsOwnScope
  BY DEF IInv, Held, SweepsOwnScope
<1> QED
  BY <1>1, Invariance, PTL

(* clear_mock_responses forgets a rule only once Proxyman deleted it.      *)
THEOREM ClearForgets == Spec => ClearForgetsOnlyDeleted
<1> DEFINE P == \A n \in Name :
                  /\ Alone
                  /\ ledger[n] # 0
                  /\ ledger'[n] = 0
                  /\ \E c \in Caller : call[c].do = "clear"
                  => ledger[n] \notin rules'
<1>1. IInv /\ [Next]_vars => [P]_vars
  <2> SUFFICES ASSUME IInv, Next, NEW n \in Name, Alone,
                      ledger[n] # 0, ledger'[n] = 0,
                      NEW c \in Caller, call[c].do = "clear"
               PROVE  ledger[n] \notin rules'
    BY DEF vars
  <2>1. c \in setting.callers
    BY DEF IInv, AtWork, Idle
  <2>2. HandlerStep(c)
    <3>1. CASE \E r \in Rule : UserDeletes(r)
      BY <3>1 DEF UserDeletes
    <3>2. CASE \E d \in setting.callers : HandlerStep(d)
      BY <3>2, <2>1, OnlyOne DEF IInv
    <3> QED
      BY <3>1, <3>2 DEF Next
  <2>3. call[c] # Idle
    BY DEF Idle
  <2>4. ledger' = ledger \/ ClearDeletes(c)
    BY <2>2, <2>3 DEF HandlerStep, SetMock, Begin, Install, SetReplies, SetRepeats,
       SetFails, ClearMocks, ClearFails, ClearEnds, StopSession, ForceCleanup,
       SweepLists, SweepCannotList, SweepDeletes, SweepFails, SweepEnds
  <2>5. ClearDeletes(c)
    BY <2>4
  <2>6. PICK e \in call[c].todo : /\ rules' = rules \ {e.rule}
                                  /\ ledger' = [ledger EXCEPT ![e.name] = 0]
    BY <2>5 DEF ClearDeletes
  <2>7. n = e.name
    BY <2>6, Unmoved
  <2>8. ledger[n] = e.rule
    BY <2>7 DEF IInv, InStep
  <2> QED
    BY <2>6, <2>8
<1>2. Spec => [][P]_vars
  BY <1>1, Invariance, PTL DEF Spec
<1> QED
  BY <1>2 DEF ClearForgetsOnlyDeleted

-----------------------------------------------------------------------------
(* A careful client.  Rules and ledger differ only by what the handler in  *)
(* progress is about to file or to delete; a sweep, which deletes before   *)
(* it forgets, disturbs its own scopes only.                               *)

Swept(h, n) == h.do = "sweep" /\ n.scope \in h.scopes

Asks(h, n) == h.do = "set" /\ n.scope \in h.scopes /\ n.mock \in h.mock

LedgerKept(h) ==
  \A n \in Name : ledger[n] # 0 =>
    /\ n \in used /\ connected
    /\ ~ Swept(h, n) => ledger[n] \in rules
    /\ ~ Asks(h, n)

RulesKnown(h) ==
  \A x \in rules :
    \/ ledger[name[x]] = x /\ ~ Swept(h, name[x])
    \/ h.do \in {"installed", "sweep"} /\ \E e \in h.todo : e.rule = x

ToBeFiled(h) ==
  /\ \A n \in Name : Asks(h, n) => n \in used
  /\ h.do = "installed" =>
       \A e, f \in h.todo :
         e = f /\ e.name \in used /\ e.rule \in rules /\ ledger[e.name] = 0

Exact(h) == LedgerKept(h) /\ RulesKnown(h) /\ ToBeFiled(h)

CarefulInv == Careful => \A c \in setting.callers : Exact(call[c])

LEMMA SetMockExact ==
  ASSUME IInv, Careful, NEW c \in setting.callers, Exact(call[c]),
         NEW s \in setting.scopes, NEW m \in setting.mocks, SetMock(c, s, m)
  PROVE  Exact(call[c])'
<1>1. c \in Caller /\ s \in Scope /\ m \in Mock
  BY SettingType DEF IInv
<1> DEFINE r == [do |-> "set", scopes |-> {s}, mock |-> {m}, todo |-> {}]
           n == [scope |-> s, mock |-> m]
<1>2. call'[c] = r /\ call[c] = Idle
  BY <1>1, Unmoved DEF SetMock, Begin
<1>3. n \in Name /\ n \notin used /\ used' = used \cup {n}
  BY <1>1 DEF SetMock, Careful, Name
<1>4. UNCHANGED <<rules, name, created, ledger, connected>>
  BY DEF SetMock
<1>5. \A x \in Name : Asks(r, x) => x = n
  BY DEF Asks, Name
<1>6. \A x \in Name : ledger[x] # 0 => x \in used /\ connected /\ ledger[x] \in rules
  BY <1>2 DEF Exact, LedgerKept, Swept, Idle
<1>7. LedgerKept(r)'
  BY <1>3, <1>4, <1>5, <1>6 DEF LedgerKept, Swept
<1>8. RulesKnown(r)'
  BY <1>2, <1>4 DEF Exact, RulesKnown, Swept, Idle
<1>9. ToBeFiled(r)'
  BY <1>3, <1>5 DEF ToBeFiled
<1> QED
  BY <1>2, <1>7, <1>8, <1>9 DEF Exact

LEMMA InstallExact ==
  ASSUME IInv, Careful, NEW c \in setting.callers, Exact(call[c]), Install(c)
  PROVE  Exact(call[c])'
<1>1. c \in Caller /\ call[c] \in Handler /\ call[c].do = "set"
  BY SettingType, Unmoved DEF IInv, Install
<1>2. created \in Nat /\ created' = created + 1 /\ rules' = rules \cup {created'}
  BY Unmoved, LedgerAssumption DEF Install
<1>3. PICK s \in call[c].scopes, m \in call[c].mock :
        /\ name' = [x \in 1 .. created' |->
                      IF x = created' THEN [scope |-> s, mock |-> m] ELSE name[x]]
        /\ call' = [call EXCEPT
                      ![c].do = "installed",
                      ![c].todo = {[name |-> [scope |-> s, mock |-> m],
                                    rule |-> created']}]
  BY DEF Install
<1> DEFINE n == [scope |-> s, mock |-> m]
           e == [name |-> n, rule |-> created']
<1>4. n \in Name
  BY <1>1 DEF Handler, Name
<1>5. Asks(call[c], n)
  BY <1>1 DEF Asks
<1>6. n \in used /\ ledger[n] = 0
  BY <1>4, <1>5 DEF Exact, LedgerKept, ToBeFiled
<1>7. call'[c].do = "installed" /\ call'[c].todo = {e}
  BY <1>1, <1>3, Unmoved DEF Handler
<1>8. \A x \in rules : x \in 1 .. created' /\ x # created' /\ name'[x] = name[x]
  BY <1>2, <1>3, Unmoved
<1>9. UNCHANGED <<ledger, used, connected>>
  BY DEF Install
<1> HIDE DEF n
<1>10. LedgerKept(call[c])'
  BY <1>1, <1>2, <1>7, <1>9 DEF Exact, LedgerKept, Swept, Asks
<1>11. RulesKnown(call[c])'
  BY <1>1, <1>2, <1>7, <1>8, <1>9 DEF Exact, RulesKnown, Swept
<1>12. ToBeFiled(call[c])'
  BY <1>2, <1>6, <1>7, <1>9 DEF ToBeFiled, Asks
<1> QED
  BY <1>10, <1>11, <1>12 DEF Exact

LEMMA SetRepliesExact ==
  ASSUME IInv, Careful, NEW c \in setting.callers, Exact(call[c]), SetReplies(c)
  PROVE  Exact(call[c])'
<1>1. c \in Caller /\ call[c] \in Handler /\ call[c].do = "installed" /\ Held(c)
  BY SettingType, Unmoved DEF IInv, SetReplies
<1>2. PICK e \in call[c].todo : ledger' = [ledger EXCEPT ![e.name] = e.rule]
  BY DEF SetReplies
<1>3. /\ \A f \in call[c].todo : f = e
      /\ e.name \in used /\ e.rule \in rules /\ ledger[e.name] = 0
  BY <1>1 DEF Exact, ToBeFiled
<1>4. e.name \in Name /\ name[e.rule] = e.name /\ e.rule # 0
  BY <1>1, LedgerAssumption DEF Held, Accurate, Handler, Entry, Rule
<1>5. call'[c] = Idle
  BY <1>1, Unmoved DEF SetReplies, End
<1>6. UNCHANGED <<rules, name, created, used>> /\ connected'
  BY DEF SetReplies
<1>7. /\ ledger'[e.name] = e.rule
      /\ \A x \in Name : x # e.name => ledger'[x] = ledger[x]
  BY <1>2, <1>4, Unmoved
<1>8. \A x \in rules : x # 0 /\ name[x] \in Name
  BY Unmoved DEF IInv, TypeOK, Rule
<1>9. LedgerKept(Idle)'
  BY <1>1, <1>3, <1>6, <1>7 DEF Exact, LedgerKept, Swept, Asks, Idle
<1>10. RulesKnown(Idle)'
  BY <1>1, <1>3, <1>4, <1>6, <1>7, <1>8 DEF Exact, RulesKnown, Swept, Idle
<1>11. ToBeFiled(Idle)'
  BY DEF ToBeFiled, Asks, Idle
<1> QED
  BY <1>5, <1>9, <1>10, <1>11 DEF Exact

LEMMA ClearDeletesExact ==
  ASSUME IInv, Careful, NEW c \in setting.callers, Exact(call[c]), ClearDeletes(c)
  PROVE  Exact(call[c])'
<1>1. /\ c \in Caller /\ call[c] \in Handler /\ call[c].do = "clear"
      /\ Held(c) /\ InStep(c) /\ LedgerSound
  BY SettingType, Unmoved DEF IInv, ClearDeletes
<1>2. PICK e \in call[c].todo : /\ rules' = rules \ {e.rule}
                                /\ ledger' = [ledger EXCEPT ![e.name] = 0]
                                /\ Done(c, e)
  BY DEF ClearDeletes
<1>3. ledger[e.name] = e.rule /\ name[e.rule] = e.name /\ e.name \in Name
  BY <1>1 DEF InStep, Held, Accurate, Careful, Handler, Entry
<1>4. call'[c].do = "clear"
  BY <1>1, <1>2, Unmoved DEF Done, Handler
<1>5. UNCHANGED <<name, created, used>> /\ connected'
  BY DEF ClearDeletes
<1>6. /\ ledger'[e.name] = 0
      /\ \A x \in Name : x # e.name => ledger'[x] = ledger[x] /\
           (ledger[x] # 0 => ledger[x] # e.rule)
  BY <1>1, <1>2, <1>3, Unmoved DEF LedgerSound
<1>7. \A x \in rules : name[x] \in Name
  BY Unmoved DEF IInv, TypeOK
<1>8. LedgerKept(call[c])'
  BY <1>1, <1>2, <1>4, <1>5, <1>6 DEF Exact, LedgerKept, Swept, Asks
<1>9. RulesKnown(call[c])'
  BY <1>1, <1>2, <1>3, <1>4, <1>5, <1>6, <1>7 DEF Exact, RulesKnown, Swept
<1>10. ToBeFiled(call[c])'
  BY <1>4 DEF ToBeFiled, Asks
<1> QED
  BY <1>8, <1>9, <1>10 DEF Exact

(* A handler that begins, goes on or ends and neither installs, files nor  *)
(* deletes: nothing it asks for, and nothing it is about to file.          *)
LEMMA PassesExact ==
  ASSUME NEW h \in Handler, NEW r \in Handler, Exact(h),
         h.do \in {"idle", "clear", "list"}, r.do \in {"idle", "clear", "list"},
         UNCHANGED <<rules, name, ledger, used, connected>>
  PROVE  Exact(r)'
<1>1. LedgerKept(r)'
  BY DEF Exact, LedgerKept, Swept, Asks
<1>2. RulesKnown(r)'
  BY DEF Exact, RulesKnown, Swept
<1>3. ToBeFiled(r)'
  BY DEF ToBeFiled, Asks
<1> QED
  BY <1>1, <1>2, <1>3 DEF Exact

LEMMA StopSessionExact ==
  ASSUME IInv, Careful, NEW c \in setting.callers, Exact(call[c]),
         NEW s \in setting.scopes \cap Session, StopSession(c, s)
  PROVE  Exact(call[c])'
<1>1. c \in Caller /\ call[c] \in Handler /\ call'[c] \in Handler
  BY SettingType, Unmoved, StopSessionInv DEF IInv, TypeOK
<1>2. call[c] = Idle /\ Idle.do = "idle"
  BY DEF StopSession, Begin, Idle
<1>3. UNCHANGED <<rules, name, used, connected>>
  BY DEF StopSession
<1>4. CASE Entries({s}) = {} \/ ~ connected
  <2>1. call'[c] = Idle /\ ledger' = Forgotten({s})
    BY <1>2, <1>4 DEF StopSession
  <2>2. \A n \in Name : n.scope = s => ledger[n] = 0
    <3> SUFFICES ASSUME NEW n \in Name, n.scope = s, ledger[n] # 0 PROVE FALSE
      OBVIOUS
    <3>1. connected
      BY DEF Exact, LedgerKept
    <3>2. [name |-> n, rule |-> ledger[n]] \in Entries({s})
      BY DEF Entries
    <3> QED
      BY <1>4, <3>1, <3>2
  <2>3. \A n \in Name : ledger'[n] = ledger[n]
    BY <2>1, <2>2 DEF Forgotten
  <2>4. ledger' = ledger
    BY <2>1, <2>3, Unmoved DEF Forgotten
  <2> QED
    BY <1>1, <1>2, <1>3, <2>1, <2>4, PassesExact
<1>5. CASE ~ (Entries({s}) = {} \/ ~ connected)
  <2>1. call'[c].do = "list" /\ ledger' = ledger
    BY <1>1, <1>5, Unmoved DEF StopSession, Begin
  <2> QED
    BY <1>1, <1>2, <1>3, <2>1, PassesExact
<1> QED
  BY <1>4, <1>5

LEMMA SweepListsExact ==
  ASSUME IInv, Careful, NEW c \in setting.callers, Exact(call[c]), SweepLists(c)
  PROVE  Exact(call[c])'
<1>1. c \in Caller /\ call[c] \in Handler /\ call[c].do = "list"
  BY SettingType, Unmoved DEF IInv, SweepLists
<1>2. /\ call'[c].do = "sweep" /\ call'[c].scopes = call[c].scopes
      /\ call'[c].todo = RulesTagged(call[c].scopes)
  BY <1>1, Unmoved DEF SweepLists, Handler
<1>3. UNCHANGED <<rules, name, ledger, used>> /\ connected'
  BY DEF SweepLists
<1>4. \A x \in rules : name[x].scope \in call[c].scopes =>
        \E e \in RulesTagged(call[c].scopes) : e.rule = x
  <2> SUFFICES ASSUME NEW x \in rules, name[x].scope \in call[c].scopes
               PROVE  \E e \in RulesTagged(call[c].scopes) : e.rule = x
    OBVIOUS
  <2>1. [name |-> name[x], rule |-> x] \in RulesTagged(call[c].scopes)
    BY DEF RulesTagged
  <2> QED
    BY <2>1
<1>5. LedgerKept(call[c])'
  BY <1>1, <1>2, <1>3 DEF Exact, LedgerKept, Swept, Asks
<1>6. RulesKnown(call[c])'
  BY <1>1, <1>2, <1>3, <1>4 DEF Exact, RulesKnown, Swept
<1>7. ToBeFiled(call[c])'
  BY <1>2 DEF ToBeFiled, Asks
<1> QED
  BY <1>5, <1>6, <1>7 DEF Exact

LEMMA SweepDeletesExact ==
  ASSUME IInv, Careful, NEW c \in setting.callers, Exact(call[c]), SweepDeletes(c)
  PROVE  Exact(call[c])'
<1>1. /\ c \in Caller /\ call[c] \in Handler /\ call[c].do = "sweep"
      /\ Held(c) /\ LedgerSound
  BY SettingType, Unmoved DEF IInv, SweepDeletes
<1>2. PICK e \in call[c].todo : rules' = rules \ {e.rule} /\ Done(c, e)
  BY DEF SweepDeletes
<1>3. /\ call'[c].do = "sweep" /\ call'[c].scopes = call[c].scopes
      /\ call'[c].todo = call[c].todo \ {e}
  BY <1>1, <1>2, Unmoved DEF Done, Handler
<1>4. UNCHANGED <<name, ledger, used>> /\ connected'
  BY DEF SweepDeletes
<1>5. name[e.rule] = e.name /\ e.name.scope \in call[c].scopes
  BY <1>1 DEF Held, Accurate
<1>6. \A n \in Name : ledger[n] # 0 /\ n.scope \notin call[c].scopes =>
        ledger[n] # e.rule
  BY <1>1, <1>5 DEF LedgerSound
<1>7. LedgerKept(call[c])'
  BY <1>1, <1>2, <1>3, <1>4, <1>6 DEF Exact, LedgerKept, Swept, Asks
<1>8. RulesKnown(call[c])'
  BY <1>1, <1>2, <1>3, <1>4 DEF Exact, RulesKnown, Swept
<1>9. ToBeFiled(call[c])'
  BY <1>3 DEF ToBeFiled, Asks
<1> QED
  BY <1>7, <1>8, <1>9 DEF Exact

LEMMA SweepEndsExact ==
  ASSUME IInv, Careful, NEW c \in setting.callers, Exact(call[c]), SweepEnds(c)
  PROVE  Exact(call[c])'
<1>1. /\ c \in Caller /\ call[c] \in Handler
      /\ call[c].do = "sweep" /\ call[c].todo = {}
  BY SettingType, Unmoved DEF IInv, SweepEnds
<1>2. call'[c] = Idle
  BY <1>1, Unmoved DEF SweepEnds, End
<1>3. UNCHANGED <<rules, name, used, connected>>
  BY DEF SweepEnds
<1>4. \A n \in Name : ledger'[n] = IF n.scope \in call[c].scopes THEN 0 ELSE ledger[n]
  BY DEF SweepEnds, Forgotten
<1>5. \A x \in rules : name[x] \in Name
  BY Unmoved DEF IInv, TypeOK
<1>6. LedgerKept(Idle)'
  BY <1>1, <1>3, <1>4 DEF Exact, LedgerKept, Swept, Asks, Idle
<1>7. RulesKnown(Idle)'
  BY <1>1, <1>3, <1>4, <1>5 DEF Exact, RulesKnown, Swept, Idle
<1>8. ToBeFiled(Idle)'
  BY DEF ToBeFiled, Asks, Idle
<1> QED
  BY <1>2, <1>6, <1>7, <1>8 DEF Exact

LEMMA HandlerExact ==
  ASSUME IInv, Careful, NEW c \in setting.callers, Exact(call[c]), HandlerStep(c)
  PROVE  Exact(call[c])'
<1>1. ~ setting.lossy
  BY DEF Careful
<1>2. /\ c \in Caller /\ call[c] \in Handler /\ call'[c] \in Handler
      /\ Held(c) /\ InStep(c)
  BY SettingType, Unmoved, HandlerInv DEF IInv, TypeOK
<1>3. ASSUME NEW s \in setting.scopes, NEW m \in setting.mocks, SetMock(c, s, m)
      PROVE  Exact(call[c])'
  BY <1>3, SetMockExact
<1>4. ASSUME NEW s \in setting.scopes, NEW M \in Sets(setting.mocks),
             ClearMocks(c, s, M)
      PROVE  Exact(call[c])'
  <2>1. call[c].do = "idle" /\ call'[c].do = "clear"
    BY <1>2, <1>4, Unmoved DEF ClearMocks, Begin, Idle
  <2>2. UNCHANGED <<rules, name, ledger, used, connected>>
    BY <1>4 DEF ClearMocks
  <2> QED
    BY <1>2, <2>1, <2>2, PassesExact
<1>5. CASE ClearFails(c)
  <2>1. PICK e \in call[c].todo : e.rule \notin rules
    BY <1>1, <1>5 DEF ClearFails, MaybeDisconnected
  <2>2. UNCHANGED <<rules, name, ledger, used, connected>>
    BY <1>1, <1>5 DEF ClearFails, MaybeDisconnected
  <2>3. call[c].do = "clear" /\ call'[c].do = "clear"
    BY <1>2, <1>5, Unmoved DEF ClearFails, Done, Handler
  <2> QED
    BY <1>2, <2>2, <2>3, PassesExact
<1>6. CASE ClearEnds(c)
  <2>1. call[c].do = "clear" /\ call'[c].do = "idle"
    BY <1>2, <1>6, Unmoved DEF ClearEnds, End, Idle
  <2>2. UNCHANGED <<rules, name, ledger, used, connected>>
    BY <1>6 DEF ClearEnds
  <2> QED
    BY <1>2, <2>1, <2>2, PassesExact
<1>7. ASSUME NEW s \in setting.scopes \cap Session, StopSession(c, s)
      PROVE  Exact(call[c])'
  BY <1>7, StopSessionExact
<1>8. ASSUME NEW S \in Sets(setting.scopes), ForceCleanup(c, S)
      PROVE  Exact(call[c])'
  <2>1. call[c].do = "idle" /\ call'[c].do = "list"
    BY <1>2, <1>8, Unmoved DEF ForceCleanup, Begin, Idle
  <2>2. UNCHANGED <<rules, name, ledger, used, connected>>
    BY <1>8 DEF ForceCleanup
  <2> QED
    BY <1>2, <2>1, <2>2, PassesExact
<1>9. ~ SetRepeats(c) /\ ~ SetFails(c) /\ ~ SweepCannotList(c) /\ ~ SweepFails(c)
  BY <1>1 DEF SetRepeats, SetFails, SweepCannotList, SweepFails, MaybeDisconnected
<1> QED
  BY <1>3, <1>4, <1>5, <1>6, <1>7, <1>8, <1>9, InstallExact, SetRepliesExact,
     ClearDeletesExact, SweepListsExact, SweepDeletesExact, SweepEndsExact
     DEF HandlerStep

LEMMA CarefulStep == IInv /\ CarefulInv /\ [Next]_vars => CarefulInv'
<1> SUFFICES ASSUME IInv, CarefulInv, [Next]_vars, Careful',
                    NEW c \in setting'.callers
             PROVE  Exact(call[c])'
  BY DEF CarefulInv
<1>1. setting' = setting
  BY DEF Next, vars, HandlerStep, SetMock, Install, SetReplies, SetRepeats, SetFails,
     ClearMocks, ClearDeletes, ClearFails, ClearEnds, StopSession, ForceCleanup,
     SweepLists, SweepCannotList, SweepDeletes, SweepFails, SweepEnds, UserDeletes
<1>2. Careful /\ c \in setting.callers /\ Exact(call[c])
  BY <1>1 DEF CarefulInv, Careful, Alone
<1>3. CASE \E d \in setting.callers : HandlerStep(d)
  BY <1>2, <1>3, OnlyOne, HandlerExact DEF Careful, IInv
<1>4. CASE \E r \in Rule : UserDeletes(r)
  BY <1>2, <1>4 DEF UserDeletes, Careful
<1>5. CASE UNCHANGED vars
  BY <1>2, <1>5 DEF vars, Exact, LedgerKept, RulesKnown, ToBeFiled, Swept, Asks
<1> QED
  BY <1>3, <1>4, <1>5 DEF Next

LEMMA CarefulStart == Init => CarefulInv
<1> SUFFICES ASSUME Init, NEW c \in setting.callers PROVE Exact(call[c])
  BY DEF CarefulInv
<1>1. call[c] = Idle
  BY LedgerAssumption DEF Init
<1> QED
  BY <1>1 DEF Init, Exact, LedgerKept, RulesKnown, ToBeFiled, Swept, Asks, Idle

(* With a careful client, rules and ledger differ only by what the handler *)
(* in progress is about to file or to delete (CarefulInv).                 *)
THEOREM CarefulExact == Spec => []CarefulInv
<1> QED
  BY CarefulStart, CarefulStep, Invariance, PTL DEF Spec

LEMMA SomeHandler ==
  ASSUME TypeOK, Alone
  PROVE  \E c \in setting.callers : c \in Caller
<1>1. IsFiniteSet(setting.callers)
  BY SettingType, LedgerAssumption, FS_Subset
<1>2. PICK x : setting.callers = {x}
  BY <1>1, FS_Singleton DEF Alone
<1> QED
  BY <1>2, SettingType

(* Between the handlers of a careful client list_active_mocks reports no   *)
(* drift, for any number of sessions, mocks and rules.                     *)
THEOREM NoDrift == Spec => []DriftFree
<1>1. IInv /\ CarefulInv => DriftFree
  <2> SUFFICES ASSUME IInv, CarefulInv, Careful, AllIdle
               PROVE  rules = {ledger[n] : n \in Name} \ {0}
    BY DEF DriftFree
  <2>1. PICK c \in setting.callers : c \in Caller
    BY SomeHandler DEF IInv, Careful
  <2>2. call[c] = Idle /\ Exact(call[c])
    BY <2>1 DEF AllIdle, CarefulInv
  <2>3. \A n \in Name : ledger[n] # 0 => ledger[n] \in rules
    BY <2>2 DEF Exact, LedgerKept, Swept, Idle
  <2>4. \A x \in rules : x # 0 /\ name[x] \in Name /\ ledger[name[x]] = x
    BY <2>2, Unmoved DEF Exact, RulesKnown, Swept, Idle, IInv, TypeOK, Rule
  <2> QED
    BY <2>3, <2>4
<1> QED
  BY <1>1, Invariance, CarefulExact, PTL

(* With a careful client, stop_and_compile_test and the forced cleanups    *)
(* leave no rule of the session in Proxyman.                               *)
THEOREM SweepsClean == Spec => SweptClean
<1>1. IInv /\ CarefulInv /\ [Next]_vars => [Careful => SweepLeavesNothing]_vars
  <2> SUFFICES ASSUME IInv, CarefulInv, Next, Careful, NEW s \in Session,
                      StopsAtOnce(s) \/ (\E c \in Caller : SweepOver(c, s)),
                      NEW x \in rules', name'[x].scope = s
               PROVE  FALSE
    BY DEF vars, SweepLeavesNothing
  <2>1. PICK c \in setting.callers : HandlerStep(c)
    BY DEF Next, UserDeletes, Careful
  <2>2. /\ c \in Caller /\ Exact(call[c]) /\ call[c] \in Handler
        /\ \A d \in Caller : d # c => call[d] = Idle
    BY <2>1, SettingType, Unmoved, OnlyOne DEF IInv, CarefulInv, Careful, AtWork
  <2>3. CASE StopsAtOnce(s)
    <3>1. ended' # ended /\ call' = call
      BY <2>3 DEF StopsAtOnce
    <3>2. PICK z \in setting.scopes \cap Session : StopSession(c, z)
      BY <2>1, <3>1 DEF HandlerStep, SetMock, Install, SetReplies, SetRepeats,
         SetFails, ClearMocks, ClearDeletes, ClearFails, ClearEnds, ForceCleanup,
         SweepLists, SweepCannotList, SweepDeletes, SweepFails, SweepEnds
    <3>3. z = s
      BY <2>3, <3>2 DEF StopsAtOnce, StopSession
    <3>4. Entries({s}) = {} \/ ~ connected
      <4>1. call[c] = Idle /\ Idle.do # "list"
        BY <3>2 DEF StopSession, Begin, Idle
      <4>2. CASE ~ (Entries({s}) = {} \/ ~ connected)
        <5>1. call'[c].do = "list"
          BY <2>2, <3>2, <3>3, <4>2, Unmoved DEF StopSession, Begin
        <5> QED
          BY <3>1, <4>1, <5>1
      <4> QED
        BY <4>2
    <3>5. x \in rules /\ name[x].scope = s /\ name[x] \in Name /\ x # 0
      <4>1. rules' = rules /\ name' = name
        BY <3>2 DEF StopSession
      <4>2. x \in rules /\ name[x].scope = s /\ rules \subseteq Rule
        BY <4>1 DEF IInv, TypeOK
      <4> QED
        BY <4>2, Unmoved DEF Rule
    <3>6. ledger[name[x]] = x
      BY <2>2, <3>2, <3>5 DEF StopSession, Begin, Exact, RulesKnown, Idle
    <3>7. connected
      BY <2>2, <3>5, <3>6 DEF Exact, LedgerKept
    <3>8. [name |-> name[x], rule |-> ledger[name[x]]] \in Entries({s})
      BY <3>5, <3>6 DEF Entries
    <3> QED
      BY <3>4, <3>7, <3>8
  <2>4. CASE \E d \in Caller : SweepOver(d, s)
    <3>1. SweepOver(c, s)
      BY <2>2, <2>4 DEF SweepOver, Idle
    <3>2. call[c].do = "sweep" /\ s \in call[c].scopes /\ call'[c].do = "idle"
      BY <3>1 DEF SweepOver, Idle
    <3>3. ~ SweepDeletes(c) /\ ~ SweepFails(c)
      BY <2>2, <3>2, Unmoved DEF SweepDeletes, SweepFails, Done, Handler
    <3>4. SweepEnds(c)
      <4>1. call[c] # Idle
        BY <3>2 DEF Idle
      <4>2. /\ \A z, m : ~ SetMock(c, z, m) /\ ~ ClearMocks(c, z, m)
            /\ \A z : ~ StopSession(c, z) /\ ~ ForceCleanup(c, z)
        BY <4>1 DEF SetMock, ClearMocks, StopSession, ForceCleanup, Begin
      <4> QED
        BY <2>1, <3>2, <3>3, <4>2 DEF HandlerStep, Install, SetReplies, SetRepeats,
           SetFails, ClearDeletes, ClearFails, ClearEnds, SweepLists,
           SweepCannotList
    <3>5. x \in rules /\ name[x].scope = s /\ call[c].todo = {}
      BY <3>4 DEF SweepEnds
    <3> QED
      BY <2>2, <3>2, <3>5 DEF Exact, RulesKnown, Swept
  <2> QED
    BY <2>3, <2>4
<1>2. Spec => [][Careful => SweepLeavesNothing]_vars
  BY <1>1, Invariance, CarefulExact, PTL DEF Spec
<1> QED
  BY <1>2 DEF SweptClean
=============================================================================
