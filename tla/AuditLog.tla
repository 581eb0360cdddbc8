------------------------------ MODULE AuditLog ------------------------------
(***************************************************************************)
(* What the audit ledger promises, without saying how: every change of the *)
(* database and the event that describes it happen in one indivisible      *)
(* step, events form one sequence that only grows at its end, and no       *)
(* request is recorded twice.                                              *)
(***************************************************************************)
EXTENDS Naturals, Sequences

CONSTANTS Requests,   \* the state-changing requests
          Rows,       \* the domain rows they write
          Nobody      \* the writer of a row no request has written

VARIABLES log,        \* the events, oldest first
          value       \* value[x]: the request that wrote row x last

logVars == <<log, value>>

LogInit == /\ log = << >>
           /\ value = [x \in Rows |-> Nobody]

\* Request r changes row x and is recorded as having done so.
Record(r, x) ==
  /\ \A i \in 1..Len(log) : log[i].req # r
  /\ log' = Append(log, [req |-> r, row |-> x])
  /\ value' = [value EXCEPT ![x] = r]

LogNext == \E r \in Requests, x \in Rows : Record(r, x)

LogSpec == LogInit /\ [][LogNext]_logVars
=============================================================================
