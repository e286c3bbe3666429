---------------------------- MODULE AlpacaAdapter ----------------------------
(***************************************************************************)
(* broker-alpaca-adpt: requests for orders and transfers go to Alpaca      *)
(* unless the breaker is open, and the answer is kept in a row whose first *)
(* write, and whose change by the polling, is announced.                   *)
(*                                                                         *)
(* Alpaca is a free choice at each call: it takes the request, refuses it  *)
(* or fails, and when it fails it may have taken it.  The client's three   *)
(* attempts are one call.                                                  *)
(*                                                                         *)
(* The polling reads fields its Lambda does not return: an execution that  *)
(* polls an order always dies at its first answer, and one that polls a    *)
(* transfer does unless the transfer has failed.  Cancellations and        *)
(* account checks are left out: nothing requests them.                     *)
(***************************************************************************)
EXTENDS CircuitBreaker

VARIABLES
  live,      \* the handler of each request
  accepted,  \* orders and transfers Alpaca has taken
  mapping,   \* OrderMapping and TransferMapping rows
  polled     \* transfers whose polling has ended

adapterVars == <<live, accepted, mapping, polled>>

Subjects == Orders \union Transfers
SubjectOf(r) == IF r[1] \in Executions THEN OrderOf[r[1]] ELSE r[1]

Placed(s) == IF s \in Orders THEN "PLACED" ELSE "INITIATED"

(* Mutant: every refusal takes the name a transfer's has.                  *)
RefusedTransfers(s) == "FAILED"

Refused(s) == IF s \in Orders THEN "REJECTED" ELSE "FAILED"

AdapterInit ==
  /\ live = [r \in Requests |-> "new"]
  /\ accepted = {}
  /\ mapping = [s \in Subjects |-> "none"]
  /\ polled = {}

GotoLive(r, pc) == live' = [live EXCEPT ![r] = pc]

(* The announcement of a row that says the subject was refused.            *)
Tell(s) == results' = results \union {[of |-> s, by |-> "alpaca", status |-> Refused(s)]}

-----------------------------------------------------------------------------
CheckBreaker(r) ==
  /\ r \in requests /\ live[r] = "new"
  /\ \E seen \in ReadBreaker : GotoLive(r, IF seen = "OPEN" THEN "reject" ELSE "call")
  /\ UNCHANGED <<accepted, mapping, polled, breakerVars, busVars>>

(* Mutant: the mapping is written before the call.                         *)
CallAfterMapping(r) ==
  /\ live[r] = "call"
  /\ mapping' = [mapping EXCEPT ![SubjectOf(r)] = Placed(SubjectOf(r))]
  /\ \/ GotoLive(r, "done") /\ accepted' = accepted \union {SubjectOf(r)}
     \/ GotoLive(r, "reject") /\ UNCHANGED accepted
     \/ GotoLive(r, "health") /\ UNCHANGED accepted
  /\ UNCHANGED <<polled, breakerVars, busVars>>

(* An order's id is its client_order_id: Alpaca does not take it twice.    *)
(* A transfer has no such key.                                             *)
Call(r) ==
  /\ live[r] = "call"
  /\ LET s == SubjectOf(r) IN
       \/ /\ s \in accepted => s \in Transfers
          /\ accepted' = accepted \union {s}
          /\ \E pc \in {"map", "health"} : GotoLive(r, pc)
       \/ \E pc \in {"reject", "health"} : GotoLive(r, pc) /\ UNCHANGED accepted
  /\ UNCHANGED <<mapping, polled, breakerVars, busVars>>

(* createMapping's put of an order is unconditional; the record after it,  *)
(* and that of a transfer, writes a row only where there is none.          *)
Map(r) ==
  /\ live[r] = "map"
  /\ LET s == SubjectOf(r) IN
       mapping' = IF s \in Orders \/ mapping[s] = "none"
                  THEN [mapping EXCEPT ![s] = Placed(s)] ELSE mapping
  /\ GotoLive(r, "done")
  /\ UNCHANGED <<accepted, polled, breakerVars, busVars>>

(* After a failed call: the health check tells whether Alpaca is down.     *)
CheckHealth(r) ==
  /\ live[r] = "health"
  /\ \E pc \in {"open", "reject"} : GotoLive(r, pc)
  /\ UNCHANGED <<accepted, mapping, polled, breakerVars, busVars>>

Open(r) ==
  /\ live[r] = "open"
  /\ \/ OpenBreaker /\ GotoLive(r, "announce")
     \/ breaker = "OPEN" /\ GotoLive(r, "reject") /\ UNCHANGED <<breaker, openings>>
  /\ UNCHANGED <<closings, stream, heals, shown, flag, accepted, mapping, polled, busVars>>

(* A second write, which a crash can prevent: by then the redelivered      *)
(* request finds the breaker open, at its check or at its put.             *)
WriteBreakerOpenEvent(r) ==
  /\ live[r] = "announce"
  /\ Announce("BROKER_CIRCUIT_OPEN")
  /\ GotoLive(r, "reject")
  /\ UNCHANGED <<breaker, openings, closings, heals, shown, flag,
                 accepted, mapping, polled, busVars>>

Reject(r) ==
  /\ live[r] = "reject"
  /\ LET s == SubjectOf(r) IN
       IF mapping[s] = "none"
       THEN mapping' = [mapping EXCEPT ![s] = Refused(s)] /\ Tell(s)
       ELSE UNCHANGED <<mapping, results>>
  /\ GotoLive(r, "done")
  /\ UNCHANGED <<accepted, polled, breakerVars, requests, faults>>

(* A crash, or SQS handing a finished request out again.                   *)
RedeliverLive(r) ==
  /\ live[r] # "new"
  /\ Fault
  /\ GotoLive(r, "new")
  /\ UNCHANGED <<accepted, mapping, polled, breakerVars, requests, results>>

-----------------------------------------------------------------------------
(* Mutant: the modification of a row is not announced.                     *)
PollSilently(t) ==
  /\ mapping[t] = "INITIATED" /\ t \notin polled
  /\ polled' = polled \union {t}
  /\ \/ mapping' = [mapping EXCEPT ![t] = "FAILED"]
     \/ UNCHANGED mapping
  /\ UNCHANGED <<live, accepted, breakerVars, busVars>>

(* A transfer that failed is written; any other answer kills the polling.  *)
PollTransfer(t) ==
  /\ mapping[t] = "INITIATED" /\ t \notin polled
  /\ polled' = polled \union {t}
  /\ \/ mapping' = [mapping EXCEPT ![t] = "FAILED"] /\ Tell(t)
     \/ UNCHANGED <<mapping, results>>
  /\ UNCHANGED <<live, accepted, breakerVars, requests, faults>>

-----------------------------------------------------------------------------
HandleLive(r) ==
  \/ CheckBreaker(r) \/ Call(r) \/ Map(r) \/ CheckHealth(r)
  \/ Open(r) \/ WriteBreakerOpenEvent(r) \/ Reject(r)

AdapterNext ==
  \/ \E r \in Requests : HandleLive(r) \/ RedeliverLive(r)
  \/ \E t \in Transfers : PollTransfer(t)

(* Every variable of the adapter stays in its type.                        *)
AdapterTypeOK ==
  /\ live \in [Requests ->
       {"new", "call", "map", "health", "open", "announce", "reject", "done"}]
  /\ accepted \subseteq Subjects /\ polled \subseteq Transfers
  /\ mapping \in [Subjects -> {"none", "PLACED", "REJECTED", "INITIATED", "FAILED"}]
=============================================================================
