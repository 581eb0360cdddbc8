-------------------------- MODULE MCCustodyLedger ---------------------------
(***************************************************************************)
(* CustodyLedger for TLC: a transfer, one that spells its item's id in     *)
(* capitals, one that spells its recipient's id otherwise, and a receipt   *)
(* that is refused for a changed artifact.                                 *)
(***************************************************************************)
EXTENDS CustodyLedger, TLC

CONSTANTS transfer, capitals, recipient, refused

MCRequests   == {transfer, capitals, recipient, refused}
MCTransfers  == {transfer, capitals, recipient}
MCUuids      == 1..4
MCTimes      == 1..4
MCSpellings  == {"small", "CAPITALS"}
MCEvidenceId == [r \in MCRequests |-> IF r = capitals THEN "CAPITALS" ELSE "small"]
MCUpdates    == [r \in MCRequests |->
                   IF r = refused THEN {"artifacts"} ELSE {"evidence"}]
Symmetry     == Permutations(Items)

\* For the clock that may repeat or step back: every id is spelt as stored.
ShortTimes      == 1..2
SmallEvidenceId == [r \in MCRequests |-> "small"]
=============================================================================
