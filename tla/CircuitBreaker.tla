---------------------------- MODULE CircuitBreaker ----------------------------
(***************************************************************************)
(* The breaker of broker-alpaca-adpt.  The handler that finds Alpaca down  *)
(* opens it and then writes a row that announces it; each delivery of the  *)
(* announcement starts an execution that heals it; closing is announced in *)
(* the same way.  investor-bff switches its feature flags with the two     *)
(* announcements, whatever order they come in.                             *)
(*                                                                         *)
(* The announcements of a tenant reach the bus in the order of their rows  *)
(* and are stamped there: an announcement's place in the stream is its     *)
(* time stamp.  The three flags are switched alike, so there is one here.  *)
(***************************************************************************)
EXTENDS BrokerBus, Sequences

CONSTANTS
  MaxAttempts,  \* health checks of one healing
  MaxEvents     \* bound on the announcements

ASSUME BreakerAssumption == MaxAttempts \in Nat \ {0} /\ MaxEvents \in Nat

VARIABLES
  breaker,   \* "OPEN" or "CLOSED"; an absent row is not open
  openings,  \* times it was opened, and closed
  closings,
  stream,    \* what was announced
  heals,     \* the healings of each announcement, the second by a duplicate
  shown,     \* the latest announcement investor-bff has handled, 0 for none
  flag       \* the feature flag and the stamp of its last update

breakerVars == <<breaker, openings, closings, stream, heals, shown, flag>>

Heals == (1 .. MaxEvents) \X {1, 2}

BreakerInit ==
  /\ breaker = "CLOSED" /\ openings = 0 /\ closings = 0
  /\ stream = <<>>
  /\ heals = [h \in Heals |-> [pc |-> "none", attempts |-> 0]]
  /\ shown = 0
  /\ flag = [enabled |-> TRUE, lastEventAt |-> 0]

(* MaxEvents leaves room for every announcement.                           *)
Announce(event) ==
  /\ Len(stream) < MaxEvents
  /\ stream' = Append(stream, event)

(* The conditional put of the open breaker.                                *)
OpenBreaker ==
  /\ breaker = "CLOSED"
  /\ breaker' = "OPEN" /\ openings' = openings + 1

(* What a read of the row may return: no read asks for a consistent one.   *)
ReadBreaker == {"CLOSED"} \union (IF openings > 0 THEN {"OPEN"} ELSE {})

-----------------------------------------------------------------------------
SetHeal(h, pc) == heals' = [heals EXCEPT ![h].pc = pc]

(* Each delivery starts a healing: the trigger has no execution name.      *)
StartHeal(h) ==
  /\ h[1] \in DOMAIN stream /\ stream[h[1]] = "BROKER_CIRCUIT_OPEN"
  /\ heals[h].pc = "none"
  /\ IF h[2] = 1 THEN UNCHANGED faults ELSE Fault
  /\ SetHeal(h, "check")
  /\ UNCHANGED <<breaker, openings, closings, stream, shown, flag, requests, results>>

(* The healing's own read.  One that returns the row of before the opening *)
(* ends it as if there were nothing to heal.                               *)
CheckBreakerState(h) ==
  /\ heals[h].pc = "check"
  /\ \E seen \in ReadBreaker :
       SetHeal(h, IF seen = "OPEN" THEN "health"
                  ELSE IF breaker = "OPEN" THEN "misled" ELSE "healthy")
  /\ UNCHANGED <<breaker, openings, closings, stream, shown, flag, busVars>>

HealthCheck(h) ==
  /\ heals[h].pc = "health"
  /\ SetHeal(h, "close")
  /\ UNCHANGED <<breaker, openings, closings, stream, shown, flag, busVars>>

(* Mutant: the last attempt ends the healing like a success.               *)
HealthCheckGivesUp(h) ==
  /\ heals[h].pc = "health"
  /\ heals' = [heals EXCEPT ![h].attempts = @ + 1,
       ![h].pc = IF heals[h].attempts + 1 < MaxAttempts THEN "health" ELSE "healthy"]
  /\ UNCHANGED <<breaker, openings, closings, stream, shown, flag, busVars>>

(* IncrementAttempt, CheckAttemptLimit.                                    *)
HealthCheckFails(h) ==
  /\ heals[h].pc = "health"
  /\ heals' = [heals EXCEPT ![h].attempts = @ + 1,
       ![h].pc = IF heals[h].attempts + 1 < MaxAttempts THEN "health" ELSE "escalate"]
  /\ UNCHANGED <<breaker, openings, closings, stream, shown, flag, busVars>>

(* Mutant: the update has no condition.                                    *)
CloseAnyway(h) ==
  /\ heals[h].pc = "close"
  /\ breaker' = "CLOSED" /\ closings' = closings + 1
  /\ SetHeal(h, "emit")
  /\ UNCHANGED <<openings, stream, shown, flag, busVars>>

(* Only the transition from open to closed goes on to the announcement.    *)
CloseBreaker(h) ==
  /\ heals[h].pc = "close"
  /\ IF breaker = "OPEN"
     THEN breaker' = "CLOSED" /\ closings' = closings + 1 /\ SetHeal(h, "emit")
     ELSE SetHeal(h, "healthy") /\ UNCHANGED <<breaker, closings>>
  /\ UNCHANGED <<openings, stream, shown, flag, busVars>>

EmitBreakerClosed(h) ==
  /\ heals[h].pc = "emit"
  /\ Announce("BROKER_CIRCUIT_CLOSED")
  /\ SetHeal(h, "healed")
  /\ UNCHANGED <<breaker, openings, closings, shown, flag, busVars>>

EscalateHealFailure(h) ==
  /\ heals[h].pc = "escalate"
  /\ SetHeal(h, "escalated")
  /\ UNCHANGED <<breaker, openings, closings, stream, shown, flag, busVars>>

(* A call of DynamoDB fails, perhaps after it was carried out: only the    *)
(* health check is retried or caught.                                      *)
HealFails(h) ==
  /\ heals[h].pc \in {"check", "close", "emit", "escalate"}
  /\ Fault
  /\ \/ UNCHANGED <<breaker, closings>>
     \/ /\ heals[h].pc = "close" /\ breaker = "OPEN"
        /\ breaker' = "CLOSED" /\ closings' = closings + 1
  /\ SetHeal(h, "dead")
  /\ UNCHANGED <<openings, stream, shown, flag, requests, results>>

-----------------------------------------------------------------------------
Enables(event) == event = "BROKER_CIRCUIT_CLOSED"

(* Mutant: the put has no condition.                                       *)
UpdateFlagAnyway(n) ==
  /\ n \in DOMAIN stream
  /\ shown' = IF shown < n THEN n ELSE shown
  /\ flag' = [enabled |-> Enables(stream[n]), lastEventAt |-> n]
  /\ UNCHANGED <<breaker, openings, closings, stream, heals, busVars>>

(* broadcast-listener.ts and updateFeatureFlag, for any delivery.  One     *)
(* whose mutation fails is logged and lost, so that nothing says that each *)
(* announcement is shown.                                                  *)
UpdateFlag(n) ==
  /\ n \in DOMAIN stream
  /\ shown' = IF shown < n THEN n ELSE shown
  /\ flag' = IF flag.lastEventAt < n
             THEN [enabled |-> Enables(stream[n]), lastEventAt |-> n] ELSE flag
  /\ UNCHANGED <<breaker, openings, closings, stream, heals, busVars>>

-----------------------------------------------------------------------------
Heal(h) ==
  \/ CheckBreakerState(h) \/ HealthCheck(h) \/ HealthCheckFails(h)
  \/ CloseBreaker(h) \/ EmitBreakerClosed(h) \/ EscalateHealFailure(h)

BreakerNext ==
  \/ \E h \in Heals : StartHeal(h) \/ Heal(h) \/ HealFails(h)
  \/ \E n \in 1 .. MaxEvents : UpdateFlag(n)

(* Every variable of the breaker stays in its type.                        *)
BreakerTypeOK ==
  /\ breaker \in {"OPEN", "CLOSED"}
  /\ openings \in Nat /\ closings \in Nat
  /\ stream \in Seq({"BROKER_CIRCUIT_OPEN", "BROKER_CIRCUIT_CLOSED"})
  /\ Len(stream) <= MaxEvents
  /\ heals \in [Heals ->
       [pc : {"none", "check", "health", "close", "emit", "escalate",
              "healthy", "misled", "healed", "escalated", "dead"},
        attempts : 0 .. MaxAttempts]]
  /\ shown \in 0 .. MaxEvents
  /\ flag \in [enabled : BOOLEAN, lastEventAt : 0 .. MaxEvents]
=============================================================================
