----------------------------- MODULE TronClient -----------------------------
(***************************************************************************)
(* The TRON HTTP client (internal/blockchain/tron/client.go): post sends a *)
(* request to one provider after the other, the next one each time taken   *)
(* from an index all goroutines share, and after a round of them waits and *)
(* begins another, RetryAttempts rounds in all.  The HTTP client's timeout *)
(* makes a provider that hangs one that fails.                             *)
(***************************************************************************)
EXTENDS Integers, FiniteSets

CONSTANTS
    N,              \* the number of providers
    Callers,        \* goroutines that call post
    RetryAttempts,  \* c.retryAttempts
    MaxChanges      \* bound: how often a provider breaks down or comes back

ASSUME ClientAssumption ==
    /\ N \in Nat \ {0}
    /\ RetryAttempts \in Nat \ {0}
    /\ MaxChanges \in Nat

Providers == 0..(N - 1)

VARIABLES
    up,         \* the providers that answer
    changes,
    current,    \* currentIndex
    cpc,        \* caller -> idle, pick, call, wait; ok or failed at the end
    prov,       \* caller -> the provider it asks
    tries,      \* caller -> requests of this round
    attempt,    \* caller -> rounds before this one
    failedBy,   \* history: caller -> the providers that failed its request
    alone,      \* history: caller -> no other has moved the index meanwhile
    ctxDone     \* the tracker's context

callVars == <<cpc, prov, tries, attempt, failedBy, alone>>
clientVars == <<up, changes, current, callVars, ctxDone>>

ClientInit ==
    /\ up = Providers
    /\ changes = 0
    /\ current = 0
    /\ cpc = [c \in Callers |-> "idle"]
    /\ prov = [c \in Callers |-> 0]
    /\ tries = [c \in Callers |-> 0]
    /\ attempt = [c \in Callers |-> 0]
    /\ failedBy = [c \in Callers |-> {}]
    /\ alone = [c \in Callers |-> TRUE]
    /\ ctxDone = FALSE

Ended(c) == cpc[c] \in {"idle", "ok", "failed", "cancelled"}

StartCall(c) ==
    /\ Ended(c)
    /\ ~ctxDone
    /\ cpc' = [cpc EXCEPT ![c] = "pick"]
    /\ tries' = [tries EXCEPT ![c] = 0]
    /\ attempt' = [attempt EXCEPT ![c] = 0]
    /\ failedBy' = [failedBy EXCEPT ![c] = {}]
    /\ alone' = [alone EXCEPT ![c] = TRUE]
    /\ UNCHANGED <<up, changes, current, prov, ctxDone>>

(* Mutant of Following: the index stays where it is.                       *)
FollowingSame(p) == p

Following(p) == (p + 1) % N

(* nextProvider, under the client's lock.                                  *)
NextProvider(c) ==
    /\ cpc[c] = "pick"
    /\ cpc' = [cpc EXCEPT ![c] = "call"]
    /\ prov' = [prov EXCEPT ![c] = current]
    /\ current' = Following(current)
    /\ alone' = [d \in Callers |-> d = c /\ alone[d]]
    /\ UNCHANGED <<up, changes, tries, attempt, failedBy, ctxDone>>

(* Mutant of NextTry: rounds are not counted.                              *)
NextTryForever(c) ==
    /\ cpc' = [cpc EXCEPT ![c] = IF tries[c] + 1 < N THEN "pick" ELSE "wait"]
    /\ tries' = [tries EXCEPT ![c] = (@ + 1) % N]
    /\ UNCHANGED attempt

(* The next provider, the next round, or the end.                          *)
NextTry(c) ==
    \/ /\ tries[c] + 1 < N
       /\ cpc' = [cpc EXCEPT ![c] = "pick"]
       /\ tries' = [tries EXCEPT ![c] = @ + 1]
       /\ UNCHANGED attempt
    \/ /\ tries[c] + 1 = N
       /\ attempt[c] + 1 < RetryAttempts
       /\ cpc' = [cpc EXCEPT ![c] = "wait"]
       /\ tries' = [tries EXCEPT ![c] = 0]
       /\ attempt' = [attempt EXCEPT ![c] = @ + 1]
    \/ /\ tries[c] + 1 = N
       /\ attempt[c] + 1 = RetryAttempts
       /\ cpc' = [cpc EXCEPT ![c] = "failed"]
       /\ UNCHANGED <<tries, attempt>>

(* doPost returns.                                                         *)
Answer(c) ==
    /\ cpc[c] = "call"
    /\ \/ /\ ctxDone
          /\ cpc' = [cpc EXCEPT ![c] = "cancelled"]
          /\ UNCHANGED <<tries, attempt, failedBy>>
       \/ /\ ~ctxDone
          /\ prov[c] \in up
          /\ cpc' = [cpc EXCEPT ![c] = "ok"]
          /\ UNCHANGED <<tries, attempt, failedBy>>
       \/ /\ ~ctxDone
          /\ prov[c] \notin up
          /\ failedBy' = [failedBy EXCEPT ![c] = @ \cup {prov[c]}]
          /\ NextTry(c)
    /\ UNCHANGED <<up, changes, current, prov, alone, ctxDone>>

(* The delay between two rounds is over, or cut short by the context.      *)
DelayEnds(c) ==
    /\ cpc[c] = "wait"
    /\ \/ cpc' = [cpc EXCEPT ![c] = "pick"]
       \/ ctxDone /\ cpc' = [cpc EXCEPT ![c] = "cancelled"]
    /\ UNCHANGED <<up, changes, current, prov, tries, attempt, failedBy, alone,
                   ctxDone>>

(* A provider breaks down, or comes back.                                  *)
Change(p) ==
    /\ changes < MaxChanges
    /\ changes' = changes + 1
    /\ up' = IF p \in up THEN up \ {p} ELSE up \cup {p}
    /\ UNCHANGED <<current, callVars, ctxDone>>

(* The tracker's Stop.                                                     *)
CancelCalls ==
    /\ ~ctxDone
    /\ ctxDone' = TRUE
    /\ UNCHANGED <<up, changes, current, callVars>>

CallStep(c) == NextProvider(c) \/ Answer(c) \/ DelayEnds(c)

ClientNext ==
    \/ \E c \in Callers : StartCall(c) \/ CallStep(c)
    \/ \E p \in Providers : Change(p)
    \/ CancelCalls

ClientSpec == ClientInit /\ [][ClientNext]_clientVars

(* Requests return, by the HTTP client's timeout at the latest, and timers *)
(* fire.                                                                   *)
FairClientSpec == ClientSpec /\ \A c \in Callers : WF_clientVars(CallStep(c))

-----------------------------------------------------------------------------
(* Properties.                                                             *)

(* Every variable holds a value of its Go type, and every index is within  *)
(* the slice of providers.                                                 *)
ClientTypeOK ==
    /\ up \subseteq Providers
    /\ changes \in Nat
    /\ current \in Providers
    /\ cpc \in [Callers -> {"idle", "pick", "call", "wait", "ok", "failed",
                            "cancelled"}]
    /\ prov \in [Callers -> Providers]
    /\ tries \in [Callers -> Providers]
    /\ attempt \in [Callers -> 0..(RetryAttempts - 1)]
    /\ failedBy \in [Callers -> SUBSET Providers]
    /\ alone \in [Callers -> BOOLEAN]
    /\ ctxDone \in BOOLEAN

(* A call gives up only when every provider has failed it: automatic       *)
(* failover (README.md: "Automatic failover between RPC providers").  This *)
(* is for a call during which no other one takes a provider, since those   *)
(* move the index past providers this call then does not ask.              *)
FailsOver ==
    \A c \in Callers : cpc[c] = "failed" /\ alone[c] => failedBy[c] = Providers

(* Every call ends, with an answer or an error, however the callers share  *)
(* the index and whatever the providers do.                                *)
CallsReturn == \A c \in Callers : ~Ended(c) ~> Ended(c)
=============================================================================
