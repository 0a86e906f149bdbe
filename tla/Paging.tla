---------------------------------- MODULE Paging ----------------------------------
(***************************************************************************)
(* Pages as the services read them: the matches are ordered, one more than *)
(* a page is fetched to tell whether there are more, and is not shown.     *)
(* Matches that are equal in the order come in any order.  A cursor is of  *)
(* the last one shown; a time goes into it as a Date, which has no more    *)
(* than milliseconds.                                                      *)
(***************************************************************************)
EXTENDS Naturals, FiniteSets

CONSTANT Millisecond   \* the database's ticks of time in a millisecond

ASSUME PagingAssumption == Millisecond \in Nat \ {0}

Printed(t) == t - (t % Millisecond)

\* The first n of what is found: no other one is before any of them.  The order
\* is the set of the pairs whose first is before their second.
Firsts(n, found, order) ==
  {first \in SUBSET found :
     /\ Cardinality(first) = IF Cardinality(found) < n THEN Cardinality(found) ELSE n
     /\ order \cap ((found \ first) \X first) = {}}

\* The pages that may be shown
PagesOf(size, found, order) ==
  UNION {IF Cardinality(first) > size THEN Firsts(size, first, order) ELSE {first} :
           first \in Firsts(size + 1, found, order)}

\* A last one: it is before none
LastOf(page, order) == CHOOSE i \in page : \A j \in page : <<i, j>> \notin order
================================================================================
