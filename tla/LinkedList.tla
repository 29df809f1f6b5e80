----------------------------- MODULE LinkedList -----------------------------
(***************************************************************************)
(* The doubly linked circular list of warmup1/my402list.c, which           *)
(* warmup2.c uses for its queues: the links and the count, against the     *)
(* sequence of objects they stand for.  Elements are allocated, inserted   *)
(* and freed; an object may be on the list more than once.                 *)
(***************************************************************************)
EXTENDS Integers, SequencesExt

CONSTANTS
  Elem,    \* My402ListElem structures
  Item,    \* objects
  anchor,
  Null      \* the NULL pointer

ASSUME ListAssumption == anchor \notin Elem /\ Null \notin Elem \cup Item \cup {anchor}

VARIABLES
  next, prev, obj,
  num_members,
  list,    \* (history) the elements in their order
  fault    \* a NULL pointer was followed

links    == <<next, prev, obj, num_members>>
listVars == <<links, list, fault>>

Node == Elem \cup {anchor}

ListTypeOK ==
  /\ next \in [Node -> Node \cup {Null}] /\ prev \in [Node -> Node \cup {Null}]
  /\ obj \in [Elem -> Item \cup {Null}]
  /\ num_members \in Nat /\ fault \in BOOLEAN

(* My402ListInit. *)
ListInit ==
  /\ next = [n \in Node |-> IF n = anchor THEN anchor ELSE Null]
  /\ prev = next
  /\ obj = [e \in Elem |-> Null]
  /\ num_members = 0
  /\ list = <<>> /\ fault = FALSE

My402ListEmpty == num_members = 0
My402ListFirst == IF My402ListEmpty THEN Null ELSE next[anchor]
My402ListLast  == IF My402ListEmpty THEN Null ELSE prev[anchor]
My402ListNext(e) == IF My402ListEmpty \/ next[e] = anchor THEN Null ELSE next[e]
My402ListPrev(e) == IF My402ListEmpty \/ prev[e] = anchor THEN Null ELSE prev[e]

(* From the first element that holds o, found by My402ListNext. *)
My402ListFind(o) ==
  LET from[e \in Node \cup {Null}] ==
        IF e = Null \/ obj[e] = o THEN e ELSE from[My402ListNext(e)]
  IN from[My402ListFirst]

Fresh(e) == next[e] = Null /\ ~fault

(* Mutant of Between: the node before does not learn of the element.       *)
Between_OneWay(e, o, before, after) ==
  /\ next' = [next EXCEPT ![e] = after]
  /\ prev' = [prev EXCEPT ![e] = before, ![after] = e]
  /\ obj' = [obj EXCEPT ![e] = o]
  /\ num_members' = num_members + 1

(* A new element e for o between two that are neighbours. *)
Between(e, o, before, after) ==
  /\ next' = [next EXCEPT ![e] = after, ![before] = e]
  /\ prev' = [prev EXCEPT ![e] = before, ![after] = e]
  /\ obj' = [obj EXCEPT ![e] = o]
  /\ num_members' = num_members + 1

-----------------------------------------------------------------------------
(* Append and prepend treat the empty list apart, by its count. *)
My402ListAppend(e, o) ==
  /\ Fresh(e)
  /\ Between(e, o, IF My402ListEmpty THEN anchor ELSE prev[anchor], anchor)
  /\ list' = Append(list, e)
  /\ UNCHANGED fault

My402ListPrepend(e, o) ==
  /\ Fresh(e)
  /\ Between(e, o, anchor, IF My402ListEmpty THEN anchor ELSE next[anchor])
  /\ list' = <<e>> \o list
  /\ UNCHANGED fault

On == ToSet(list)
Place(n) == CHOOSE i \in DOMAIN list : list[i] = n

My402ListInsertAfter(e, o, n) ==
  /\ Fresh(e) /\ n \in On
  /\ Between(e, o, n, next[n])
  /\ list' = InsertAt(list, Place(n) + 1, e)
  /\ UNCHANGED fault

My402ListInsertBefore(e, o, n) ==
  /\ Fresh(e) /\ n \in On
  /\ Between(e, o, prev[n], n)
  /\ list' = InsertAt(list, Place(n), e)
  /\ UNCHANGED fault

My402ListUnlink(n) ==
  /\ n \in On /\ ~fault
  /\ next' = [next EXCEPT ![prev[n]] = next[n], ![n] = Null]
  /\ prev' = [prev EXCEPT ![next[n]] = prev[n], ![n] = Null]
  /\ obj' = [obj EXCEPT ![n] = Null]
  /\ num_members' = num_members - 1
  /\ list' = RemoveAt(list, Place(n))
  /\ UNCHANGED fault

(* It starts with My402ListFirst, which is NULL when the list is empty, and*)
(* stops at the anchor.                                                    *)
My402ListUnlinkAll ==
  /\ ~fault
  /\ IF My402ListFirst = Null
     THEN fault' = TRUE /\ UNCHANGED <<links, list>>
     ELSE /\ next' = [n \in Node |-> IF n = anchor THEN anchor ELSE Null]
          /\ prev' = next'
          /\ obj' = [e \in Elem |-> Null]
          /\ num_members' = 0
          /\ list' = <<>> /\ UNCHANGED fault

ListNext ==
  \/ \E e \in Elem, o \in Item :
       \/ My402ListAppend(e, o) \/ My402ListPrepend(e, o)
       \/ \E n \in Elem : My402ListInsertAfter(e, o, n) \/ My402ListInsertBefore(e, o, n)
  \/ \E n \in Elem : My402ListUnlink(n)
  \/ My402ListUnlinkAll

ListSpec == ListInit /\ [][ListNext]_listVars

-----------------------------------------------------------------------------
(* The anchor is before the first element and after the last. *)
NodeAt(s, i) == IF i \in 1 .. Len(s) THEN s[i] ELSE anchor

(* Forwards, backwards and by the count the list is the sequence, whichever*)
(* operations made it, and a search finds the first that holds the object. *)
StandsForSequence ==
  /\ \A i \in 0 .. Len(list) :
       next[NodeAt(list, i)] = NodeAt(list, i + 1) /\ prev[NodeAt(list, i + 1)] = NodeAt(list, i)
  /\ num_members = Len(list)
  /\ \A e \in Elem \ On : next[e] = Null
  /\ \A o \in Item :
       LET hits == {i \in 1 .. Len(list) : obj[list[i]] = o}
       IN My402ListFind(o) = IF hits = {} THEN Null ELSE list[Min(hits)]
=============================================================================
