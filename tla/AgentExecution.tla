---------------------------- MODULE AgentExecution ----------------------------
(***************************************************************************)
(* The agent's tool executions: PolicyGate of app/agent/authorization.py   *)
(* and ExecutionEngine of app/agent/execution.py, with the vendor system   *)
(* behind an ExecutionAdapter.                                             *)
(*                                                                         *)
(* The engine runs one call of execute at a time and keeps its receipts in *)
(* memory.  The vendor system is external: what is submitted to it settles *)
(* later or never, its reply may be lost or malformed, and verify looks at *)
(* what has settled.  Time is what is left of each approval.               *)
(***************************************************************************)
EXTENDS Integers

CONSTANTS
  Requests,      \* AuthorizationRequests, each with the tool it names
  Grants,        \* ApprovalGrants: the request approved and the lifetime
  Keys,          \* idempotency keys
  Policy,        \* the Policy of the gate
  MaxAttempts,   \* the max_attempts of every call
  None

ASSUME AttemptsAssumption == MaxAttempts \in Nat \ {0}

ASSUME GrantAssumption ==
  /\ None \notin Grants \cup Nat
  /\ \A g \in Grants : g.approves \in Requests /\ g.lifetime \in Nat \cup {None}

VARIABLES
  receipts,   \* _receipts_by_idempotency
  call,       \* the running call of execute, or None
  left,       \* left[g]: time until approval g expires, None if it never does
  submitted,  \* what reached the vendor system
  settled,    \* ... and took effect there
  calls,      \* calls[k]: adapter.execute calls of this process for key k
  answer      \* the receipt execute returned last, or None

vars == <<receipts, call, left, submitted, settled, calls, answer>>

external == <<left, submitted, settled>>

-------------------------------------------------------------------------------
(***************************************************************************)
(* The policy gate.                                                        *)
(***************************************************************************)

\* Mutant of action_fingerprint: the payload is left out.
action_fingerprint_NoPayload(r) ==
  <<r.organization_id, r.workspace_id, r.actor_id, r.action,
    <<r.tool.name, r.tool.version>>, r.resource_id>>

\* The SHA-256 of these fields, taken to be injective.
action_fingerprint(r) ==
  <<r.organization_id, r.workspace_id, r.actor_id, r.action,
    <<r.tool.name, r.tool.version>>, r.input_payload, r.resource_id>>

\* A grant carries the tenant and the fingerprint of the request it approves.
is_valid_for(g, r) ==
  /\ g.approves.organization_id = r.organization_id
  /\ g.approves.workspace_id = r.workspace_id
  /\ action_fingerprint(g.approves) = action_fingerprint(r)
  /\ g.lifetime # None => left[g] > 0

RiskRank == [low |-> 0, medium |-> 1, high |-> 2, critical |-> 3]

InScope(r) ==
  r.tool.scope_level = "resource" =>
    /\ r.resource_id # None
    /\ \/ Policy.allowed_resource_ids = None
       \/ r.resource_id \in Policy.allowed_resource_ids

NeedsApproval(r) ==
  r.tool.side_effect = "write" /\ Policy.require_approval_for_writes

\* PolicyGate.authorize; g is None when no approval is given.
Authorized(r, g) ==
  /\ r.action = r.tool.name
  /\ r.tool.required_capabilities
       \subseteq Policy.allowed_capabilities \cap r.capabilities
  /\ RiskRank[r.tool.risk] <= RiskRank[Policy.max_risk]
  /\ InScope(r)
  /\ r.tool.side_effect = "write" => r.action \in Policy.writable_actions
  /\ NeedsApproval(r) => g # None /\ is_valid_for(g, r)

-------------------------------------------------------------------------------
(***************************************************************************)
(* The engine.                                                             *)
(***************************************************************************)

Init ==
  /\ receipts = [k \in Keys |-> None]
  /\ call = None
  /\ left = [g \in Grants |-> g.lifetime]
  /\ submitted = {}
  /\ settled = {}
  /\ calls = [k \in Keys |-> 0]
  /\ answer = None

\* _receipt and _store: the call ends with this receipt.
Return(k, r, status, attempts) ==
  LET receipt == [key |-> k, action |-> action_fingerprint(r),
                  status |-> status, attempts |-> attempts]
  IN  /\ receipts' = [receipts EXCEPT ![k] = receipt]
      /\ answer' = receipt
      /\ call' = None

\* adapter.execute is called for the n-th time.
Hand(k, r, g, n) ==
  /\ call' = [phase |-> "execute", key |-> k, request |-> r, grant |-> g,
              attempts |-> n]
  /\ calls' = [calls EXCEPT ![k] = @ + 1]
  /\ UNCHANGED <<receipts, answer>>

\* A key that has a receipt gets it again, whatever is asked for.
Replay(k) ==
  /\ receipts[k] # None
  /\ answer' = receipts[k]
  /\ UNCHANGED <<receipts, call, calls>>

\* Mutant of Fresh: a failed execution may be asked for again.
Fresh_AfterFailure(k) == receipts[k] # None => receipts[k].status = "failed"

Fresh(k) == receipts[k] = None

Reject(k, r, g) ==
  /\ Fresh(k) /\ ~Authorized(r, g)
  /\ Return(k, r, "rejected", 0)
  /\ UNCHANGED calls

RefuseInput(k, r, g) ==
  /\ Fresh(k) /\ Authorized(r, g) /\ r.input_payload \notin r.tool.accepts
  /\ Return(k, r, "failed", 0)
  /\ UNCHANGED calls

Start(k, r, g) ==
  /\ Fresh(k) /\ Authorized(r, g) /\ r.input_payload \in r.tool.accepts
  /\ Hand(k, r, g, 1)

Execute(k, r, g) ==
  /\ call = None
  /\ Replay(k) \/ Reject(k, r, g) \/ RefuseInput(k, r, g) \/ Start(k, r, g)
  /\ UNCHANGED external

\* Mutant of AttemptFails: the loop runs once more than max_attempts.
AttemptFails_OneMore ==
  IF call.attempts <= MaxAttempts
  THEN Hand(call.key, call.request, call.grant, call.attempts + 1)
  ELSE /\ Return(call.key, call.request, "failed", call.attempts)
       /\ UNCHANGED calls

\* Mutant of AttemptFails: the receipt counts attempts from zero.
AttemptFails_FromZero ==
  IF call.attempts < MaxAttempts
  THEN Hand(call.key, call.request, call.grant, call.attempts + 1)
  ELSE /\ Return(call.key, call.request, "failed", call.attempts - 1)
       /\ UNCHANGED calls

\* The except clause of the attempt loop: the next attempt starts at once,
\* without asking the gate again; the last one ends the call.
AttemptFails ==
  IF call.attempts < MaxAttempts
  THEN Hand(call.key, call.request, call.grant, call.attempts + 1)
  ELSE /\ Return(call.key, call.request, "failed", call.attempts)
       /\ UNCHANGED calls

Submission ==
  [key |-> call.key, request |-> call.request, grant |-> call.grant]

\* adapter.execute submits, or not, and returns an output of the declared
\* schema, or not (or raises).
AdapterExecutes ==
  /\ call # None /\ call.phase = "execute"
  /\ submitted' \in {submitted, submitted \cup {Submission}}
  /\ UNCHANGED <<left, settled>>
  /\ \/ /\ Submission \in submitted'
        /\ call' = [call EXCEPT !.phase = "verify"]
        /\ UNCHANGED <<receipts, calls, answer>>
     \/ AttemptFails

\* Mutant of Verified: a verification that does not say so counts.
Verified_Always == TRUE

\* verification["verified"]: the vendor system has settled the submission.
Verified == Submission \in settled

\* adapter.verify: it raises or denies, or confirms what has settled.
AdapterVerifies ==
  /\ call # None /\ call.phase = "verify"
  /\ UNCHANGED external
  /\ \/ /\ Verified
        /\ Return(call.key, call.request, "succeeded", call.attempts)
        /\ UNCHANGED calls
     \/ AttemptFails

-------------------------------------------------------------------------------
(***************************************************************************)
(* The vendor system, the clock and the end of the process.                *)
(***************************************************************************)

Settle ==
  /\ \E s \in submitted \ settled : settled' = settled \cup {s}
  /\ UNCHANGED <<receipts, call, left, submitted, calls, answer>>

Running(g) == g.lifetime # None /\ left[g] > 0

Tick ==
  /\ \E g \in Grants : Running(g)
  /\ left' = [g \in Grants |-> IF Running(g) THEN left[g] - 1 ELSE left[g]]
  /\ UNCHANGED <<receipts, call, submitted, settled, calls, answer>>

\* The process ends, at any point, and its receipts with it.
Crash ==
  /\ receipts' = [k \in Keys |-> None]
  /\ calls' = [k \in Keys |-> 0]
  /\ call' = None
  /\ answer' = None
  /\ UNCHANGED external

Next ==
  \/ \E k \in Keys, r \in Requests, g \in Grants \cup {None} : Execute(k, r, g)
  \/ AdapterExecutes \/ AdapterVerifies
  \/ Settle \/ Tick \/ Crash

Spec == Init /\ [][Next]_vars

-------------------------------------------------------------------------------
(***************************************************************************)
(* Properties.                                                             *)
(***************************************************************************)

Receipts ==
  [key : Keys, action : {action_fingerprint(r) : r \in Requests},
   status : {"succeeded", "failed", "rejected"}, attempts : 0 .. MaxAttempts]

Calls ==
  [phase : {"execute", "verify"}, key : Keys, request : Requests,
   grant : Grants \cup {None}, attempts : 1 .. MaxAttempts]

Submissions == [key : Keys, request : Requests, grant : Grants \cup {None}]

ASSUME NoneAssumption == None \notin Receipts /\ None \notin Calls

\* The type invariant of the engine: attempts never pass max_attempts.
TypeOK ==
  /\ receipts \in [Keys -> Receipts \cup {None}]
  /\ call \in Calls \cup {None}
  /\ left \in [Grants -> Nat \cup {None}]
  /\ \A g \in Grants : left[g] = None <=> g.lifetime = None
  /\ submitted \subseteq Submissions
  /\ settled \subseteq submitted
  /\ calls \in [Keys -> Nat]
  /\ answer \in Receipts \cup {None}

\* The two requests name the same action, field by field.
SameAction(a, r) ==
  /\ a.organization_id = r.organization_id
  /\ a.workspace_id = r.workspace_id
  /\ a.action = r.action
  /\ a.tool.name = r.tool.name /\ a.tool.version = r.tool.version
  /\ a.input_payload = r.input_payload
  /\ a.resource_id = r.resource_id

\* docs/v1.10-authorization-policy-gate.md:7-14: whatever reaches the vendor
\* system, on a first attempt, a retry or a call that reuses a key after a
\* restart, was allowed by the policy (capabilities, risk ceiling, resource
\* scope, writable actions), and a consequential write was approved for exactly
\* this organization, workspace, tool version, payload, resource.
SubmissionsAuthorized ==
  \A s \in submitted :
    /\ s.request.tool.required_capabilities
         \subseteq Policy.allowed_capabilities \cap s.request.capabilities
    /\ RiskRank[s.request.tool.risk] <= RiskRank[Policy.max_risk]
    /\ InScope(s.request)
    /\ s.request.tool.side_effect = "write" =>
         s.request.tool.name \in Policy.writable_actions
    /\ NeedsApproval(s.request) =>
         s.grant # None /\ SameAction(s.grant.approves, s.request)

\* A receipt that says succeeded, returned at once or replayed later, is of an
\* action that has taken effect in the vendor system under that key.
SuccessIsSettled ==
  answer # None =>
    (answer.status = "succeeded" =>
       \E s \in settled : /\ s.key = answer.key
                          /\ action_fingerprint(s.request) = answer.action)

\* The attempts of a receipt are the calls the adapter saw: a rejected action
\* and an invalid input never reach it.
ReceiptsCountCalls ==
  /\ \A k \in Keys : receipts[k] # None => receipts[k].attempts = calls[k]
  /\ \A k \in Keys :
       receipts[k] = None /\ (call = None \/ call.key # k) => calls[k] = 0
  /\ call # None => receipts[call.key] = None /\ call.attempts = calls[call.key]

\* tests/test_agent_execution_engine.py:123: a key that has a receipt is not
\* executed again, and keeps its receipt, while the process lives.
ReceiptsAreFinal ==
  [][\A k \in Keys : receipts[k] # None /\ receipts'[k] # None =>
       receipts'[k] = receipts[k] /\ calls'[k] <= calls[k]]_vars

\* tests/test_agent_execution_engine.py:123, for a key that is used for several
\* actions: while the process lives, a key stands for one action only.  Whatever
\* the adapter gets under a key after its first call is a retry of that call,
\* with the request and the approval that the gate saw, never another action.
OneActionPerKey ==
  [][\A k \in Keys : calls[k] > 0 /\ calls'[k] > calls[k] =>
       /\ call # None /\ call.key = k
       /\ call'.request = call.request /\ call'.grant = call.grant]_vars

\* docs/v1.10-authorization-policy-gate.md:13: an approval cannot authorize an
\* action after its expiry time, so none is handed to an adapter with it.
HandedInTime ==
  [][\A k \in Keys : calls'[k] > calls[k] /\ NeedsApproval(call'.request) =>
       is_valid_for(call'.grant, call'.request)]_vars

===============================================================================
