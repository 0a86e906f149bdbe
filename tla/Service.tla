--------------------------------- MODULE Service ---------------------------------
(***************************************************************************)
(* What the handlers of every service have in common.  A request is served *)
(* by an async function: a call.  A call runs from one await to the next   *)
(* in one step, and the steps of several calls interleave at the awaits.   *)
(* pc is the await a call has reached, hand what its closure holds there.  *)
(* An awaited database or network operation may reject: unless the code    *)
(* catches the error the call ends, and what it wrote before stays.  A     *)
(* crash of the server is a failure of every call in progress.             *)
(***************************************************************************)
EXTENDS Naturals, FiniteSets

CONSTANTS
  Users,
  Calls,        \* bound: the calls that may be in progress at once
  None,         \* no row, nothing in hand
  MaxFailures   \* bound: operations that fail

ASSUME ServiceAssumption == MaxFailures \in Nat

VARIABLES
  pc, hand,
  failures,     \* the operations that have failed so far
  apart         \* history: no two calls have been in progress at once

serviceVars == <<pc, hand, failures, apart>>

ServiceInit ==
  /\ pc = [c \in Calls |-> "idle"]
  /\ hand = [c \in Calls |-> None]
  /\ failures = 0
  /\ apart = TRUE

Idle(c) == pc[c] = "idle"

\* A request arrives, and its handler runs to its first await.
Begin(c, at, held) ==
  /\ Idle(c)
  /\ pc' = [pc EXCEPT ![c] = at]
  /\ hand' = [hand EXCEPT ![c] = held]
  /\ apart' = (apart /\ \A d \in Calls \ {c} : Idle(d))
  /\ UNCHANGED failures

\* The handler goes on to its next await,
Go(c, at, held) ==
  /\ pc' = [pc EXCEPT ![c] = at]
  /\ hand' = [hand EXCEPT ![c] = held]
  /\ UNCHANGED <<failures, apart>>

\* or returns.
End(c) == Go(c, "idle", None)

\* The awaited operation rejects.
Reject(c) ==
  /\ failures < MaxFailures
  /\ failures' = failures + 1
  /\ UNCHANGED apart

\* Nothing catches the error.
Fail(c) ==
  /\ ~Idle(c)
  /\ pc' = [pc EXCEPT ![c] = "idle"]
  /\ hand' = [hand EXCEPT ![c] = None]
  /\ Reject(c)

Unused(table) == {i \in DOMAIN table : table[i] = None}
Used(table)   == {i \in DOMAIN table : table[i] # None}

\* Bound: a call that is to insert a row begins while a key is left for it.
Room(table, insert) ==
  Cardinality(Unused(table)) > Cardinality({c \in Calls : pc[c] \in insert})
================================================================================
