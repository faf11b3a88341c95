------------------------------- MODULE Leases -------------------------------
(***************************************************************************)
(* What the in-flight leases of src/internal/pool/pool.go promise to the   *)
(* chat requests, without counters, picks or outcomes: a request holds at  *)
(* most one account at a time, and an account is held by no more than      *)
(* MaxInFlight requests.                                                   *)
(***************************************************************************)
EXTENDS Naturals, FiniteSets

CONSTANTS Accounts, Requests, MaxInFlight

VARIABLE holds  \* pairs of a request and the account it holds

HoldersOf(a) == {r \in Requests : <<r, a>> \in holds}
Holding(r)   == \E a \in Accounts : <<r, a>> \in holds

LeasesInit == holds = {}

Take(r, a) ==
  /\ ~Holding(r)
  /\ MaxInFlight > 0 => Cardinality(HoldersOf(a)) < MaxInFlight
  /\ holds' = holds \cup {<<r, a>>}

Give(r, a) ==
  /\ <<r, a>> \in holds
  /\ holds' = holds \ {<<r, a>>}

LeasesNext == \E r \in Requests, a \in Accounts : Take(r, a) \/ Give(r, a)

LeasesSpec == LeasesInit /\ [][LeasesNext]_holds
=============================================================================
