--------------------------- MODULE HierarchyDiff ---------------------------
(***************************************************************************)
(* What two hierarchy snapshots say about the user: the diff of            *)
(* src/maestro/hierarchy-differ.ts, the quality filter of                  *)
(* src/session/element-quality.ts and inferInteraction of                  *)
(* src/session/touch-inferrer.ts.                                          *)
(*                                                                         *)
(* A tree is the sequence of its nodes in preorder, a node a record of the *)
(* four strings the code compares; "" stands for an absent one.  What the  *)
(* regular expressions ask of a name is membership in a set of names.      *)
(***************************************************************************)
EXTENDS Naturals, Sequences, FiniteSets, SequencesExt

CONSTANTS
  TransientName,      (* ids and labels that match TRANSIENT_PATTERNS      *)
  DecorativeLabel,    (* DECORATIVE_LABELS                                 *)
  AmbiguousText,      (* texts of two characters or fewer, or digits only  *)
  MaxChangesThreshold

ASSUME DiffAssumption == MaxChangesThreshold \in Nat

Nothing == <<>>

(* The members of s at the positions in I, in order. *)
Only(s, I) ==
  LET at == SetToSortSeq(I, <) IN [k \in DOMAIN at |-> s[at[k]]]

IsNamed(n) == n.id # "" \/ n.label # "" \/ n.text # ""

flattenToElements(nodes) == SelectSeq(nodes, IsNamed)

identityKey(e) ==
  IF e.id # "" THEN <<"id", e.id>>
  ELSE IF e.label # "" THEN <<"label", e.label>> ELSE Nothing

(* The hash of the sorted keys of the flattened trees: equal for trees     *)
(* with the same named elements the same number of times (collisions of    *)
(* the 32-bit hash are left out).                                          *)
areEqualTrees(a, b) ==
  LET Count(t, e) == Cardinality({k \in DOMAIN t : t[k] = e})
  IN  \A e \in ToSet(a) \cup ToSet(b) : IsNamed(e) => Count(a, e) = Count(b, e)

(* Elements without an id or a label cannot be followed.  Of the others,   *)
(* the n-th removed one of an identity and the n-th added one are the same *)
(* element with changed attributes.                                        *)
Nth(s, i) == Cardinality({j \in 1..i : identityKey(s[j]) = identityKey(s[i])})

Matched(removed, added) ==
  {p \in (1..Len(removed)) \X (1..Len(added)) :
     /\ identityKey(removed[p[1]]) # Nothing
     /\ identityKey(removed[p[1]]) = identityKey(added[p[2]])
     /\ Nth(removed, p[1]) = Nth(added, p[2])}

diff(before, after) ==
  LET old     == flattenToElements(before)
      new     == flattenToElements(after)
      added   == SelectSeq(new, LAMBDA e : e \notin ToSet(old))
      removed == SelectSeq(old, LAMBDA e : e \notin ToSet(new))
      pairs   == Matched(removed, added)
      paired  == SetToSortSeq(pairs, LAMBDA p, q : p[1] < q[1])
  IN  [added   |-> Only(added, DOMAIN added \ {p[2] : p \in pairs}),
       removed |-> Only(removed, DOMAIN removed \ {p[1] : p \in pairs}),
       changed |-> [k \in DOMAIN paired |->
                      [before |-> removed[paired[k][1]],
                       after  |-> added[paired[k][2]]]]]

-----------------------------------------------------------------------------
(* Which elements may become the target of an inferred interaction. *)

TapRoles == <<"button", "link", "tab", "switch", "cell", "menuitem">>

InteractiveRole ==
  ToSet(TapRoles) \cup {"textfield", "searchfield", "slider", "checkbox", "radio"}

isLowConfidenceElement(e) ==
  \/ (IF e.id # "" THEN e.id ELSE e.label) \in TransientName
  \/ e.id = "" /\ e.label \in DecorativeLabel /\ e.role \notin InteractiveRole
  \/ e.id = "" /\ e.label = "" /\ e.text \in AmbiguousText

hasIdentity(e) ==
  /\ IsNamed(e)
  /\ ~isLowConfidenceElement(e)

FirstWith(s, Test(_)) ==
  LET fit == SelectSeq(s, Test) IN IF fit = <<>> THEN Nothing ELSE Head(fit)

findFirstIdentifiable(s) == FirstWith(s, hasIdentity)

findBestTapTarget(s) ==
  LET usable     == SelectSeq(s, hasIdentity)
      With(role) == SelectSeq(usable, LAMBDA e : e.role = role)
      roles      == SelectSeq(TapRoles, LAMBDA role : With(role) # <<>>)
  IN  IF roles # <<>> THEN Head(With(Head(roles))) ELSE findFirstIdentifiable(s)

buildInteraction(action, e, source) ==
  IF e = Nothing THEN Nothing
  ELSE [action |-> action, element |-> e, source |-> source]

(* Beyond the threshold only an element with an id or a label will do. *)
TransitionTarget(d) ==
  LET e == IF findBestTapTarget(d.removed) # Nothing
           THEN findBestTapTarget(d.removed) ELSE findBestTapTarget(d.added)
  IN  IF e = Nothing \/ identityKey(e) = Nothing THEN Nothing ELSE e

inferInteraction(d) ==
  LET total  == Len(d.added) + Len(d.removed) + Len(d.changed)
      edited == FirstWith(d.changed, LAMBDA c : c.before.text # c.after.text)
  IN  IF total = 0 THEN Nothing
      ELSE IF total > MaxChangesThreshold
      THEN buildInteraction("tap", TransitionTarget(d), "inferred-transition")
      ELSE IF edited # Nothing
      THEN buildInteraction("type", edited.after, "inferred")
      ELSE IF d.removed # <<>>
      THEN buildInteraction("tap", findBestTapTarget(d.removed), "inferred")
      ELSE buildInteraction("tap", findFirstIdentifiable(d.added), "inferred")
=============================================================================
