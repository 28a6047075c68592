---------------------------- MODULE ListHandler ----------------------------
(***************************************************************************)
(* agentx.ListHandler over value.OID: the sorted list of oids and the      *)
(* items keyed by text.  Each method holds the list's mutex from start to  *)
(* end, so it is one step; module Answers calls them for the ranges of a   *)
(* request, one by one.                                                    *)
(*                                                                         *)
(* The text of an oid is the oid and whether some number is written with   *)
(* leading zeros: ParseOID forgets that, OID.String never writes any.      *)
(***************************************************************************)
EXTENDS Integers, Sequences, Functions

CONSTANTS
  Names,            \* the oids programs add, and masters ask for
  Paddings,         \* forms of text: FALSE plain, TRUE with leading zeros
  Values            \* the types and values users and managers give an item

OIDs  == Seq(Nat)   \* sub-identifiers are compared, and nothing is computed with them
NoOID == <<-1>>     \* nil, for "nothing found"
NoTo  == <<>>       \* the null ending oid
Unset == "unset"    \* a new ListItem: type 0, value nil

\* What stands for a value where there is none
Exceptions == {"noSuchObject", "endOfMibView"}

ASSUME ListHandlerAssumption ==
  /\ Names \subseteq OIDs \ {<<>>} /\ Paddings \subseteq BOOLEAN
  /\ Values \cap (Exceptions \cup {Unset}) = {}

-----------------------------------------------------------------------------
(* value/oid.go *)

Texts == [oid : Names, padded : Paddings]

ParseOID(text) == text.oid
String(oid)    == [oid |-> oid, padded |-> FALSE]

\* Mutant of CompareOIDs: an oid equals each of its prefixes.
CompareOIDsPrefixBlind(oid1, oid2) ==
  LET common == {i \in DOMAIN oid1 : i \in DOMAIN oid2}
      differ == {i \in common : oid1[i] # oid2[i]}
      first  == CHOOSE i \in differ : \A j \in differ : i <= j
  IN  IF differ = {} THEN 0 ELSE IF oid1[first] < oid2[first] THEN -1 ELSE 1

\* The first difference decides, then the length.
CompareOIDs(oid1, oid2) ==
  LET common == {i \in DOMAIN oid1 : i \in DOMAIN oid2}
      differ == {i \in common : oid1[i] # oid2[i]}
      first  == CHOOSE i \in differ : \A j \in differ : i <= j
      sign(a, b) == IF a < b THEN -1 ELSE IF a > b THEN 1 ELSE 0
  IN  IF differ # {} THEN sign(oid1[first], oid2[first])
                     ELSE sign(Len(oid1), Len(oid2))

\* sort.Slice: the elements rearranged so that none is before a smaller one
SortOIDs(list) ==
  LET order == CHOOSE p \in Bijection(DOMAIN list, DOMAIN list) :
                 \A i, j \in DOMAIN list : i < j => CompareOIDs(list[p[i]], list[p[j]]) # 1
  IN  [i \in DOMAIN list |-> list[order[i]]]

-----------------------------------------------------------------------------
(* The handler's state and methods *)

VARIABLES
  oids,             \* l.oids
  items             \* l.items: text -> type and value

listVars == <<oids, items>>

ListInit == oids = <<>> /\ items = [text \in {} |-> Unset]

\* Mutant of oidWithin: a null ending oid is compared like any other.
oidWithinNullIsLeast(oid, from, includeFrom, to) ==
  LET fromCompare == CompareOIDs(from, oid) IN
  /\ ~(fromCompare > 0 \/ (fromCompare = 0 /\ ~includeFrom))
  /\ CompareOIDs(to, oid) > 0

\* [from, to), unbounded above when to is empty
oidWithin(oid, from, includeFrom, to) ==
  LET fromCompare == CompareOIDs(from, oid) IN
  /\ ~(fromCompare > 0 \/ (fromCompare = 0 /\ ~includeFrom))
  /\ Len(to) = 0 \/ CompareOIDs(to, oid) > 0

NotFound == [name |-> NoOID, value |-> Unset]

\* The item's name, type and value, or nil
get(oid) ==
  IF String(oid) \in DOMAIN items THEN [name |-> oid, value |-> items[String(oid)]]
  ELSE NotFound

\* The first oid of the list in the range is the answer, found or not.
GetNext(from, includeFrom, to) ==
  LET inside == {i \in DOMAIN oids : oidWithin(oids[i], from, includeFrom, to)} IN
  IF inside = {} THEN NotFound
  ELSE get(oids[CHOOSE i \in inside : \A j \in inside : i <= j])

\* Mutant of NewItem: the new item is not kept in the map.
NewItemUnmapped(text) == items

\* The map with a new item under text
NewItem(text) == [t \in DOMAIN items \cup {text} |-> IF t = text THEN Unset ELSE items[t]]

\* Adding a text the map has already returns the existing item.
Add(text) ==
  /\ text \notin DOMAIN items
  /\ oids' = SortOIDs(Append(oids, ParseOID(text)))
  /\ items' = NewItem(text)

\* Setting an unknown oid changes nothing and reports no error.
Set(oid, v) ==
  /\ String(oid) \in DOMAIN items
  /\ items' = [items EXCEPT ![String(oid)] = v]
  /\ UNCHANGED oids

Listed == {oids[i] : i \in DOMAIN oids}

-----------------------------------------------------------------------------
(* Reference: the lexicographic order of object identifiers *)

\* There is a place up to which they agree and where a has ended, or has the
\* smaller number.
Precedes(a, b) ==
  \E k \in 1 .. Len(b) :
    /\ k <= Len(a) + 1 /\ \A j \in 1 .. k - 1 : a[j] = b[j]
    /\ k = Len(a) + 1 \/ a[k] < b[k]

InRange(o, from, include, to) ==
  /\ Precedes(from, o) \/ (include /\ from = o)
  /\ to = NoTo \/ Precedes(o, to)

Increasing(list) == \A i, j \in DOMAIN list : i < j => Precedes(list[i], list[j])

\* Type invariant of the list: every listed oid has an item under some text.
ListTypeOK ==
  /\ Listed \subseteq Names
  /\ DOMAIN items \subseteq Texts /\ Range(items) \subseteq Values \cup {Unset}
  /\ Listed = {ParseOID(t) : t \in DOMAIN items}

\* The list is sorted and has no duplicate, which would make a getNext walk
\* repeat itself (list_handler_internal_test.go:136, on adding the same
\* OID twice).
StrictlySorted == Increasing(oids)

\* The answer to every range is the least listed oid in it.
GetNextLeast ==
  \A from \in Names \cup {<<>>}, to \in Names \cup {NoTo}, include \in BOOLEAN :
    LET range == {o \in Listed : InRange(o, from, include, to)}
        next  == GetNext(from, include, to).name
    IN  IF range = {} THEN next = NoOID
        ELSE next \in range /\ \A o \in range \ {next} : Precedes(next, o)
=============================================================================
