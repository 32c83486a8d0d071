--------------------------- MODULE FallbackChain ----------------------------
(***************************************************************************)
(* pkg/providers/fallback.go and cooldown.go: concurrent requests walk     *)
(* their chains of candidates and share one CooldownTracker.               *)
(*                                                                         *)
(* A method of the tracker is one step (it holds the mutex); between the   *)
(* cooldown check and the mark of its result a request waits for the       *)
(* provider for as long as it takes, and others check and mark meanwhile.  *)
(* Time is in minutes; 0 is Go's zero time.                                *)
(***************************************************************************)
EXTENDS Integers, Sequences

CONSTANTS
  Providers,
  Requests,     \* callers of Execute and ExecuteImage
  ImageCallers, \* those of ExecuteImage, which ignores the tracker
  Chain,        \* Chain[r]: the providers of r's candidates, in order
  Times         \* the instants at which anything happens

ASSUME ChainAssumption ==
  /\ ImageCallers \subseteq Requests
  /\ Chain \in [Requests -> Seq(Providers)]
  /\ \A r \in Requests : Chain[r] # <<>>
  /\ Times \subseteq Nat

VARIABLES
  now,
  entry,     \* entry[p]: the tracker's cooldownEntry
  req,       \* req[r]: where Execute is, and in which candidate
  attempts,  \* attempts[r]: what became of each candidate so far
  lastBad    \* history: lastBad[p], time of the last failure, 0 after a success

vars == <<now, entry, req, attempts, lastBad>>

(* No entry and an entry of zeroes behave alike. *)
NoEntry == [errors |-> 0, billing |-> 0, cooldownEnd |-> 0, disabledUntil |-> 0, lastFailure |-> 0]

States   == {"check", "run", "ok", "canceled", "aborted", "exhausted"}
Attempts == {"skipped", "failed", "last"}

TypeOK ==
  /\ now \in Nat \ {0}
  /\ entry \in [Providers -> [errors : Nat, billing : Nat, cooldownEnd : Nat,
                              disabledUntil : Nat, lastFailure : Nat]]
  /\ req \in [Requests -> [at : States, i : Nat \ {0}]]
  /\ \A r \in Requests : req[r].i <= Len(Chain[r])
  /\ attempts \in [Requests -> Seq(Attempts)]
  /\ lastBad \in [Providers -> Nat]

Init ==
  /\ now = 1
  /\ entry = [p \in Providers |-> NoEntry]
  /\ req = [r \in Requests |-> [at |-> "check", i |-> 1]]
  /\ attempts = [r \in Requests |-> <<>>]
  /\ lastBad = [p \in Providers |-> 0]

-----------------------------------------------------------------------------
(* calculateStandardCooldown: min(1h, 1min * 5^min(n-1, 3)). *)
StandardCooldown(n) ==
  IF n <= 1 THEN 1 ELSE IF n = 2 THEN 5 ELSE IF n = 3 THEN 25 ELSE 60

(* calculateBillingCooldown: min(24h, 5h * 2^min(n-1, 10)). *)
Uncapped(n) ==
  IF n <= 1 THEN 300 ELSE IF n = 2 THEN 600 ELSE IF n = 3 THEN 1200 ELSE 2400
BillingCooldown(n) ==
  IF n <= 1 THEN 300 ELSE IF n = 2 THEN 600 ELSE IF n = 3 THEN 1200 ELSE 1440

FailureWindow == 1440    \* defaultFailureWindow

WindowPassed(e) == e.lastFailure # 0 /\ now - e.lastFailure > FailureWindow

(* A billing failure disables the provider; any other leaves that alone.   *)
LastReasonWins(e, reason, billing) ==
  IF reason = "billing" THEN now + BillingCooldown(billing) ELSE 0
Disabled(e, reason, billing) ==
  IF reason = "billing" THEN now + BillingCooldown(billing) ELSE e.disabledUntil

(* MarkFailure.  Of FailureCounts only the billing count is ever used. *)
MarkFailure(p, reason) ==
  LET e        == entry[p]
      errors   == IF WindowPassed(e) THEN 1 ELSE e.errors + 1
      billing  == (IF WindowPassed(e) THEN 0 ELSE e.billing)
                  + (IF reason = "billing" THEN 1 ELSE 0)
  IN /\ entry' = [entry EXCEPT ![p] =
          [errors        |-> errors,
           billing       |-> billing,
           lastFailure   |-> now,
           disabledUntil |-> Disabled(e, reason, billing),
           cooldownEnd   |-> IF reason = "billing" THEN e.cooldownEnd
                                                   ELSE now + StandardCooldown(errors)]]
     /\ lastBad' = [lastBad EXCEPT ![p] = now]

(* MarkSuccess keeps lastFailure. *)
MarkSuccess(p) ==
  /\ entry' = [entry EXCEPT ![p] = [NoEntry EXCEPT !.lastFailure = entry[p].lastFailure]]
  /\ lastBad' = [lastBad EXCEPT ![p] = 0]

IsAvailable(p) == now >= entry[p].disabledUntil /\ now >= entry[p].cooldownEnd

-----------------------------------------------------------------------------
Provider(r) == Chain[r][req[r].i]
IsLast(r)   == req[r].i = Len(Chain[r])
End(r, how) == req' = [req EXCEPT ![r].at = how]

(* The next candidate of the loop, or the aggregate error after the last.  *)
NoRecord(r, what) == attempts' = attempts
Note(r, what)     == attempts' = [attempts EXCEPT ![r] = Append(@, what)]
NextCandidate(r)  == IF IsLast(r) THEN End(r, "exhausted")
                     ELSE req' = [req EXCEPT ![r] = [at |-> "check", i |-> @.i + 1]]

(* ctx.Err() == context.Canceled at the top of the loop. *)
Abandon(r) ==
  /\ req[r].at = "check"
  /\ End(r, "canceled")
  /\ UNCHANGED <<now, entry, attempts, lastBad>>

(* The cooldown check; ExecuteImage has none. *)
Skips(r) == r \notin ImageCallers /\ ~IsAvailable(Provider(r))

Skip(r) ==
  /\ req[r].at = "check"
  /\ Skips(r)
  /\ Note(r, "skipped")
  /\ NextCandidate(r)
  /\ UNCHANGED <<now, entry, lastBad>>

Run(r) ==
  /\ req[r].at = "check"
  /\ ~Skips(r)
  /\ req' = [req EXCEPT ![r].at = "run"]
  /\ UNCHANGED <<now, entry, attempts, lastBad>>

Unmarked == UNCHANGED <<entry, lastBad>>

Succeed(r) ==
  /\ req[r].at = "run"
  /\ End(r, "ok")
  /\ IF r \in ImageCallers THEN Unmarked ELSE MarkSuccess(Provider(r))
  /\ UNCHANGED <<now, attempts>>

(* The user aborted, or the error is unclassified or a format error: no    *)
(* further candidate, and no mark.                                         *)
Abort(r) ==
  /\ req[r].at = "run"
  /\ \E how \in {"canceled", "aborted"} : End(r, how)
  /\ Note(r, "last")
  /\ Unmarked
  /\ UNCHANGED now

(* A retriable error; every reason but billing is treated alike. *)
Fail(r) ==
  /\ req[r].at = "run"
  /\ IF r \in ImageCallers THEN Unmarked
     ELSE \E reason \in {"billing", "other"} : MarkFailure(Provider(r), reason)
  /\ Note(r, "failed")
  /\ NextCandidate(r)
  /\ UNCHANGED now

(* The same caller asks again. *)
Restart(r) ==
  /\ req[r].at \notin {"check", "run"}
  /\ req' = [req EXCEPT ![r] = [at |-> "check", i |-> 1]]
  /\ attempts' = [attempts EXCEPT ![r] = <<>>]
  /\ UNCHANGED <<now, entry, lastBad>>

Tick(t) ==
  /\ t > now
  /\ now' = t
  /\ UNCHANGED <<entry, req, attempts, lastBad>>

Step(r) == \/ Abandon(r) \/ Skip(r) \/ Run(r) \/ Succeed(r) \/ Abort(r) \/ Fail(r)

Next ==
  \/ \E r \in Requests : Step(r) \/ Restart(r)
  \/ \E t \in Times : Tick(t)

Spec == Init /\ [][Next]_vars

-----------------------------------------------------------------------------
(* However old the requests whose failures arrive, in whatever order and   *)
(* for whatever reason: a failure never brings the end of a provider's     *)
(* cooldown or disabling forward.  Only a success does.                    *)
NeverShortened ==
  [][\A p \in Providers :
        lastBad'[p] # 0 =>
          /\ entry'[p].cooldownEnd >= entry[p].cooldownEnd
          /\ entry'[p].disabledUntil >= entry[p].disabledUntil]_vars

(* No provider is out for more than 24 hours after its last failure, and   *)
(* none is out without a failure that no success followed.                 *)
CooldownJustified ==
  \A p \in Providers : ~IsAvailable(p) => lastBad[p] # 0 /\ now < lastBad[p] + 1440

(* The aggregate error accounts for every candidate of the chain, once; an *)
(* Execute that stopped early tried the candidates before it, no other.    *)
AttemptsComplete ==
  \A r \in Requests :
    LET done == CASE req[r].at \in {"check", "run", "ok"} -> {req[r].i - 1}
                  [] req[r].at = "exhausted" -> {Len(Chain[r])}
                  [] req[r].at = "aborted"   -> {req[r].i}
                  [] req[r].at = "canceled"  -> {req[r].i - 1, req[r].i}
    IN Len(attempts[r]) \in done

(* Both: whatever requests race on the cooldowns, each is explained by the *)
(* provider's own failures, and each request's error by its attempts.      *)
ChainSound == CooldownJustified /\ AttemptsComplete
=============================================================================
