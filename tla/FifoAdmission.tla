---------------------------- MODULE FifoAdmission ----------------------------
(***************************************************************************)
(* What the launch scheduler promises, with no queue, handle, lock or       *)
(* condition variable in it: requests arrive in order, at most one live     *)
(* request names an AVD, a pending request is only admitted when no earlier *)
(* one is pending and a start slot is free, and an allocation ends once.    *)
(* Budgets may delay an admission; they never reorder two of them.          *)
(***************************************************************************)
EXTENDS Naturals, FiniteSets

CONSTANTS
  Requests,   \* numbered in order of arrival
  Names,      \* AVD names
  NoName,     \* the name of a request that is not live
  StartSlots  \* how many allocations may be starting at a time

VARIABLES phase, name

fifoVars == <<phase, name>>

Pending == {r \in Requests : phase[r] = "pending"}
InStart == {r \in Requests : phase[r] = "starting"}
LiveNames == {name[r] : r \in Requests} \ {NoName}

FifoInit ==
  /\ phase = [r \in Requests |-> "new"]
  /\ name = [r \in Requests |-> NoName]

Arrive(r, k) ==
  /\ phase[r] = "new"
  /\ \A q \in Requests : q < r => phase[q] # "new"
  /\ k \notin LiveNames
  /\ phase' = [phase EXCEPT ![r] = "pending"]
  /\ name' = [name EXCEPT ![r] = k]

End(r) ==
  /\ phase[r] \in {"pending", "starting", "running"}
  /\ phase' = [phase EXCEPT ![r] = "done"]
  /\ name' = [name EXCEPT ![r] = NoName]

Start(r) ==
  /\ phase[r] = "pending"
  /\ \A q \in Pending : r <= q
  /\ Cardinality(InStart) < StartSlots
  /\ phase' = [phase EXCEPT ![r] = "starting"]
  /\ UNCHANGED name

Booted(r) ==
  /\ phase[r] = "starting"
  /\ phase' = [phase EXCEPT ![r] = "running"]
  /\ UNCHANGED name

FifoNext ==
  \E r \in Requests :
    \/ \E k \in Names : Arrive(r, k)
    \/ Start(r) \/ Booted(r) \/ End(r)

FifoSpec == FifoInit /\ [][FifoNext]_fifoVars
=============================================================================
