------------------------- MODULE AgentExecutionProofs -------------------------
(***************************************************************************)
(* Theorems about AgentExecution, for every set of requests, grants and    *)
(* keys, every policy and every max_attempts.                              *)
(***************************************************************************)
EXTENDS AgentExecution, TLAPS

\* What the gate grants: what SubmissionsAuthorized says of a submission, of any request and approval.
Allowed(r, g) ==
  /\ r.tool.required_capabilities
       \subseteq Policy.allowed_capabilities \cap r.capabilities
  /\ RiskRank[r.tool.risk] <= RiskRank[Policy.max_risk]
  /\ InScope(r)
  /\ r.tool.side_effect = "write" => r.tool.name \in Policy.writable_actions
  /\ NeedsApproval(r) => g # None /\ SameAction(g.approves, r)

\* The strengthening of SubmissionsAuthorized: the running call is allowed too.
CallAllowed == call # None => Allowed(call.request, call.grant)

\* The strengthening of SuccessIsSettled: every stored receipt tells the truth.
ReceiptsTrue ==
  \A k \in Keys :
    receipts[k] # None =>
      (receipts[k].status = "succeeded" =>
         \E s \in settled : /\ s.key = receipts[k].key
                            /\ action_fingerprint(s.request) = receipts[k].action)

AgentInv ==
  /\ TypeOK
  /\ SubmissionsAuthorized /\ CallAllowed
  /\ SuccessIsSettled /\ ReceiptsTrue
  /\ ReceiptsCountCalls

-------------------------------------------------------------------------------

\* An approval is valid only for the action it was given for: the fingerprint
\* binds every field.
LEMMA ApprovalBinds ==
  ASSUME NEW r, NEW g, is_valid_for(g, r)
  PROVE  SameAction(g.approves, r)
  BY DEF is_valid_for, action_fingerprint, SameAction

\* What PolicyGate.authorize lets pass is allowed.
LEMMA GateAllows ==
  ASSUME NEW r, NEW g, Authorized(r, g)
  PROVE  Allowed(r, g)
  BY ApprovalBinds DEF Authorized, Allowed

\* A receipt built by Return is a receipt.
LEMMA ReceiptType ==
  ASSUME NEW k \in Keys, NEW r \in Requests, NEW n \in 0 .. MaxAttempts,
         NEW st \in {"succeeded", "failed", "rejected"}
  PROVE  [key |-> k, action |-> action_fingerprint(r), status |-> st,
          attempts |-> n] \in Receipts
  BY DEF Receipts

-------------------------------------------------------------------------------
\* The three ways a step of the engine changes its state, each from a state of
\* the invariant.

\* A step that writes a receipt keeps the invariant.
LEMMA ReturnKeeps ==
  ASSUME AgentInv, NEW k \in Keys, NEW r \in Requests,
         NEW n \in 0 .. MaxAttempts,
         NEW st \in {"succeeded", "failed", "rejected"},
         Return(k, r, st, n), UNCHANGED calls,
         n = calls[k], call = None \/ call.key = k,
         left' = left, submitted' = submitted, settled' = settled,
         st = "succeeded" =>
           \E s \in settled : /\ s.key = k
                              /\ action_fingerprint(s.request) = action_fingerprint(r)
  PROVE  AgentInv'
<1> DEFINE receipt == [key |-> k, action |-> action_fingerprint(r),
                       status |-> st, attempts |-> n]
<1>1. receipt \in Receipts /\ receipt # None
  BY ReceiptType, NoneAssumption
<1>2. /\ receipts' = [receipts EXCEPT ![k] = receipt]
      /\ answer' = receipt /\ call' = None
      /\ receipt.key = k /\ receipt.status = st /\ receipt.attempts = n
      /\ receipt.action = action_fingerprint(r)
  BY DEF Return
<1> HIDE DEF receipt
<1>3. TypeOK'
  BY <1>1, <1>2 DEF AgentInv, TypeOK
<1>4. SubmissionsAuthorized' /\ CallAllowed'
  BY <1>2 DEF AgentInv, SubmissionsAuthorized, CallAllowed
<1>5. SuccessIsSettled' /\ ReceiptsTrue'
  BY <1>1, <1>2 DEF AgentInv, SuccessIsSettled, ReceiptsTrue, TypeOK
<1>6. ReceiptsCountCalls'
  BY <1>1, <1>2 DEF AgentInv, ReceiptsCountCalls, TypeOK
<1> QED BY <1>3, <1>4, <1>5, <1>6 DEF AgentInv

\* So does a step that hands an attempt to the adapter.
LEMMA HandKeeps ==
  ASSUME AgentInv, NEW k \in Keys, NEW r \in Requests,
         NEW g \in Grants \cup {None}, NEW n \in 1 .. MaxAttempts,
         Hand(k, r, g, n), Allowed(r, g),
         receipts[k] = None, n = calls[k] + 1, call = None \/ call.key = k,
         left' = left, settled' = settled,
         submitted \subseteq submitted', submitted' \subseteq Submissions,
         SubmissionsAuthorized'
  PROVE  AgentInv'
<1> DEFINE c == [phase |-> "execute", key |-> k, request |-> r, grant |-> g,
                 attempts |-> n]
<1>1. c \in Calls /\ c # None
  BY NoneAssumption DEF Calls
<1>2. /\ call' = c /\ calls' = [calls EXCEPT ![k] = @ + 1]
      /\ receipts' = receipts /\ answer' = answer
      /\ c.key = k /\ c.request = r /\ c.grant = g /\ c.attempts = n
  BY DEF Hand
<1> HIDE DEF c
<1>3. TypeOK'
  BY <1>1, <1>2 DEF AgentInv, TypeOK
<1>4. CallAllowed'
  BY <1>2 DEF CallAllowed, Allowed, NeedsApproval, SameAction
<1>5. SuccessIsSettled' /\ ReceiptsTrue'
  BY <1>2 DEF AgentInv, SuccessIsSettled, ReceiptsTrue
<1>6. ReceiptsCountCalls'
  BY <1>1, <1>2 DEF AgentInv, ReceiptsCountCalls, TypeOK
<1> QED BY <1>3, <1>4, <1>5, <1>6 DEF AgentInv

\* A failed attempt ends the call or starts the next one: both are within
\* the invariant, whatever the adapter had submitted by then.
LEMMA AttemptFailsKeeps ==
  ASSUME AgentInv, call # None, AttemptFails,
         left' = left, settled' = settled,
         submitted' \in {submitted, submitted \cup {Submission}}
  PROVE  AgentInv'
<1> DEFINE k == call.key
           r == call.request
           n == call.attempts
<1>1. /\ k \in Keys /\ r \in Requests /\ call.grant \in Grants \cup {None}
      /\ n \in 1 .. MaxAttempts /\ n = calls[k] /\ receipts[k] = None
      /\ Allowed(r, call.grant)
  BY DEF AgentInv, TypeOK, Calls, ReceiptsCountCalls, CallAllowed
<1>2. Submission \in Submissions
  BY <1>1 DEF Submission, Submissions
<1>3. submitted \subseteq submitted' /\ submitted' \subseteq Submissions
  BY <1>2 DEF AgentInv, TypeOK
<1>4. SubmissionsAuthorized'
  BY <1>1 DEF AgentInv, SubmissionsAuthorized, Submission, Allowed, NeedsApproval,
              SameAction
<1>5. CASE n < MaxAttempts
  <2>1. Hand(k, r, call.grant, n + 1) /\ n + 1 \in 1 .. MaxAttempts
    BY <1>1, <1>5, AttemptsAssumption DEF AttemptFails
  <2> QED BY <2>1, <1>1, <1>3, <1>4, HandKeeps
<1>6. CASE ~(n < MaxAttempts)
  <2>1. Return(k, r, "failed", n) /\ calls' = calls
    BY <1>6 DEF AttemptFails
  <2>2. n \in 0 .. MaxAttempts
    BY <1>1
  <2> DEFINE receipt == [key |-> k, action |-> action_fingerprint(r),
                         status |-> "failed", attempts |-> n]
  <2>3. receipt \in Receipts /\ receipt # None
    BY <1>1, <2>2, ReceiptType, NoneAssumption
  <2>4. /\ receipts' = [receipts EXCEPT ![k] = receipt]
        /\ answer' = receipt /\ call' = None
        /\ receipt.status = "failed" /\ receipt.attempts = n
    BY <2>1 DEF Return
  <2> HIDE DEF receipt
  <2>5. TypeOK'
    BY <1>3, <2>1, <2>3, <2>4 DEF AgentInv, TypeOK
  <2>6. SuccessIsSettled' /\ ReceiptsTrue' /\ CallAllowed'
    BY <2>3, <2>4 DEF AgentInv, SuccessIsSettled, ReceiptsTrue, TypeOK, CallAllowed
  <2>7. ReceiptsCountCalls'
    BY <1>1, <2>1, <2>3, <2>4 DEF AgentInv, ReceiptsCountCalls, TypeOK
  <2> QED BY <1>4, <2>5, <2>6, <2>7 DEF AgentInv
<1> QED BY <1>5, <1>6

-------------------------------------------------------------------------------

\* There are no receipts, submissions or calls at the start.
LEMMA AgentInit == Init => AgentInv
<1> SUFFICES ASSUME Init PROVE AgentInv
  OBVIOUS
<1> USE DEF Init
<1>1. TypeOK
  BY GrantAssumption DEF TypeOK
<1>2. SubmissionsAuthorized /\ CallAllowed /\ SuccessIsSettled /\ ReceiptsTrue
  BY DEF SubmissionsAuthorized, CallAllowed, SuccessIsSettled, ReceiptsTrue
<1>3. ReceiptsCountCalls
  BY DEF ReceiptsCountCalls
<1> QED BY <1>1, <1>2, <1>3 DEF AgentInv

\* Every exit of execute before the first attempt, and the first attempt, keep it.
LEMMA ExecuteKeeps ==
  ASSUME AgentInv, NEW k \in Keys, NEW r \in Requests,
         NEW g \in Grants \cup {None}, Execute(k, r, g)
  PROVE  AgentInv'
<1>1. call = None /\ left' = left /\ submitted' = submitted /\ settled' = settled
  BY DEF Execute, external
<1>2. CASE Replay(k)
  <2> USE <1>2 DEF Replay
  <2>1. TypeOK'
    BY <1>1 DEF AgentInv, TypeOK
  <2>2. SubmissionsAuthorized' /\ CallAllowed' /\ ReceiptsCountCalls'
    BY <1>1 DEF AgentInv, SubmissionsAuthorized, CallAllowed, ReceiptsCountCalls
  <2>3. SuccessIsSettled' /\ ReceiptsTrue'
    BY <1>1 DEF AgentInv, SuccessIsSettled, ReceiptsTrue
  <2> QED BY <2>1, <2>2, <2>3 DEF AgentInv
<1>3. Fresh(k) => receipts[k] = None /\ calls[k] = 0
  BY <1>1 DEF Fresh, AgentInv, ReceiptsCountCalls
<1>4. 0 \in 0 .. MaxAttempts /\ 1 \in 1 .. MaxAttempts
  BY AttemptsAssumption
<1>5. CASE Reject(k, r, g)
  BY <1>1, <1>3, <1>4, <1>5, ReturnKeeps DEF Reject
<1>6. CASE RefuseInput(k, r, g)
  BY <1>1, <1>3, <1>4, <1>6, ReturnKeeps DEF RefuseInput
<1>7. CASE Start(k, r, g)
  <2>1. Hand(k, r, g, 1) /\ Allowed(r, g) /\ receipts[k] = None /\ 1 = calls[k] + 1
    BY <1>3, <1>7, GateAllows DEF Start
  <2>2. /\ submitted \subseteq submitted' /\ submitted' \subseteq Submissions
        /\ SubmissionsAuthorized'
    BY <1>1 DEF AgentInv, TypeOK, SubmissionsAuthorized
  <2> QED BY <1>1, <1>4, <2>1, <2>2, HandKeeps
<1> QED BY <1>2, <1>5, <1>6, <1>7 DEF Execute

\* What adapter.execute does and how it ends.
LEMMA AdapterExecutesKeeps ==
  ASSUME AgentInv, AdapterExecutes
  PROVE  AgentInv'
<1>1. /\ call # None /\ left' = left /\ settled' = settled
      /\ submitted' \in {submitted, submitted \cup {Submission}}
  BY DEF AdapterExecutes
<1>2. CASE AttemptFails
  BY <1>1, <1>2, AttemptFailsKeeps
<1>3. CASE /\ call' = [call EXCEPT !.phase = "verify"]
           /\ UNCHANGED <<receipts, calls, answer>>
  <2>1. /\ call \in Calls /\ call.key \in Keys /\ call.request \in Requests
        /\ call.grant \in Grants \cup {None} /\ Allowed(call.request, call.grant)
    BY <1>1 DEF AgentInv, TypeOK, Calls, CallAllowed
  <2>2. /\ call' \in Calls /\ call' # None
        /\ call'.key = call.key /\ call'.request = call.request
        /\ call'.grant = call.grant /\ call'.attempts = call.attempts
    BY <1>3, <2>1, NoneAssumption DEF Calls
  <2>3. Submission \in Submissions
    BY <2>1 DEF Submission, Submissions
  <2>4. TypeOK'
    BY <1>1, <1>3, <2>2, <2>3 DEF AgentInv, TypeOK
  <2>5. SubmissionsAuthorized'
    BY <1>1, <2>1 DEF AgentInv, SubmissionsAuthorized, Submission, Allowed,
                      NeedsApproval, SameAction
  <2>6. CallAllowed'
    BY <2>1, <2>2 DEF CallAllowed, Allowed, NeedsApproval, SameAction
  <2>7. SuccessIsSettled' /\ ReceiptsTrue'
    BY <1>1, <1>3 DEF AgentInv, SuccessIsSettled, ReceiptsTrue
  <2>8. ReceiptsCountCalls'
    BY <1>1, <1>3, <2>2 DEF AgentInv, ReceiptsCountCalls
  <2> QED BY <2>4, <2>5, <2>6, <2>7, <2>8 DEF AgentInv
<1> QED BY <1>2, <1>3 DEF AdapterExecutes

\* What adapter.verify answers and the attempt after it.
LEMMA AdapterVerifiesKeeps ==
  ASSUME AgentInv, AdapterVerifies
  PROVE  AgentInv'
<1>1. call # None /\ left' = left /\ submitted' = submitted /\ settled' = settled
  BY DEF AdapterVerifies, external
<1>2. CASE AttemptFails
  BY <1>1, <1>2, AttemptFailsKeeps
<1>3. CASE /\ Verified
           /\ Return(call.key, call.request, "succeeded", call.attempts)
           /\ UNCHANGED calls
  <2>1. /\ call.key \in Keys /\ call.request \in Requests
        /\ call.attempts \in 0 .. MaxAttempts /\ call.attempts = calls[call.key]
    BY <1>1 DEF AgentInv, TypeOK, Calls, ReceiptsCountCalls
  <2>2. \E s \in settled : /\ s.key = call.key
                           /\ action_fingerprint(s.request)
                                = action_fingerprint(call.request)
    BY <1>3 DEF Verified, Submission
  <2> QED BY <1>1, <1>3, <2>1, <2>2, ReturnKeeps
<1> QED BY <1>2, <1>3 DEF AdapterVerifies

\* The vendor system, the clock and a crash leave the engine's promises alone.
LEMMA EnvironmentKeeps ==
  ASSUME AgentInv, Settle \/ Tick \/ Crash \/ UNCHANGED vars
  PROVE  AgentInv'
<1>1. CASE Settle
  <2>1. TypeOK'
    BY <1>1 DEF AgentInv, TypeOK, Settle
  <2>2. SubmissionsAuthorized' /\ CallAllowed' /\ ReceiptsCountCalls'
    BY <1>1 DEF AgentInv, SubmissionsAuthorized, CallAllowed, ReceiptsCountCalls, Settle
  <2>3. SuccessIsSettled' /\ ReceiptsTrue'
    BY <1>1 DEF AgentInv, SuccessIsSettled, ReceiptsTrue, Settle
  <2> QED BY <2>1, <2>2, <2>3 DEF AgentInv
<1>2. CASE Tick
  <2>1. \A g \in Grants : /\ left'[g] \in Nat \cup {None}
                          /\ left'[g] = None <=> g.lifetime = None
    BY <1>2, GrantAssumption DEF AgentInv, TypeOK, Tick, Running
  <2>2. TypeOK'
    BY <1>2, <2>1 DEF AgentInv, TypeOK, Tick
  <2>3. SubmissionsAuthorized' /\ CallAllowed' /\ ReceiptsCountCalls'
    BY <1>2 DEF AgentInv, SubmissionsAuthorized, CallAllowed, ReceiptsCountCalls, Tick
  <2>4. SuccessIsSettled' /\ ReceiptsTrue'
    BY <1>2 DEF AgentInv, SuccessIsSettled, ReceiptsTrue, Tick
  <2> QED BY <2>2, <2>3, <2>4 DEF AgentInv
<1>3. CASE Crash
  <2>1. TypeOK'
    BY <1>3 DEF AgentInv, TypeOK, Crash, external
  <2>2. SubmissionsAuthorized' /\ CallAllowed' /\ ReceiptsCountCalls'
    BY <1>3 DEF AgentInv, SubmissionsAuthorized, CallAllowed, ReceiptsCountCalls,
                Crash, external
  <2>3. SuccessIsSettled' /\ ReceiptsTrue'
    BY <1>3 DEF AgentInv, SuccessIsSettled, ReceiptsTrue, Crash, external
  <2> QED BY <2>1, <2>2, <2>3 DEF AgentInv
<1>4. CASE UNCHANGED vars
  <2>1. TypeOK'
    BY <1>4 DEF AgentInv, TypeOK, vars
  <2>2. SubmissionsAuthorized' /\ CallAllowed' /\ ReceiptsCountCalls'
    BY <1>4 DEF AgentInv, SubmissionsAuthorized, CallAllowed, ReceiptsCountCalls, vars
  <2>3. SuccessIsSettled' /\ ReceiptsTrue'
    BY <1>4 DEF AgentInv, SuccessIsSettled, ReceiptsTrue, vars
  <2> QED BY <2>1, <2>2, <2>3 DEF AgentInv
<1> QED BY <1>1, <1>2, <1>3, <1>4

\* Every step keeps the invariant.
LEMMA AgentStep == AgentInv /\ [Next]_vars => AgentInv'
<1> SUFFICES ASSUME AgentInv, [Next]_vars PROVE AgentInv'
  OBVIOUS
<1>1. CASE \E k \in Keys, r \in Requests, g \in Grants \cup {None} : Execute(k, r, g)
  BY <1>1, ExecuteKeeps
<1>2. CASE AdapterExecutes
  BY <1>2, AdapterExecutesKeeps
<1>3. CASE AdapterVerifies
  BY <1>3, AdapterVerifiesKeeps
<1>4. CASE Settle \/ Tick \/ Crash \/ UNCHANGED vars
  BY <1>4, EnvironmentKeeps
<1> QED BY <1>1, <1>2, <1>3, <1>4 DEF Next

\* Every reachable state satisfies the invariant.
LEMMA AgentInvariant == Spec => []AgentInv
  BY AgentInit, AgentStep, PTL DEF Spec

-------------------------------------------------------------------------------

\* The types of the engine's state; no receipt counts more attempts than
\* max_attempts.
THEOREM AgentTypeCorrect == Spec => []TypeOK
<1>1. AgentInv => TypeOK
  BY DEF AgentInv
<1> QED BY <1>1, AgentInvariant, PTL

\* Whatever reaches the vendor system passed the gate, and a consequential
\* write was approved for exactly that action.
THEOREM NothingUnauthorized == Spec => []SubmissionsAuthorized
<1>1. AgentInv => SubmissionsAuthorized
  BY DEF AgentInv
<1> QED BY <1>1, AgentInvariant, PTL

\* A receipt that says succeeded is of an action that took effect.
THEOREM SuccessIsReal == Spec => []SuccessIsSettled
<1>1. AgentInv => SuccessIsSettled
  BY DEF AgentInv
<1> QED BY <1>1, AgentInvariant, PTL

\* The attempts of a receipt are the calls its adapter saw.
THEOREM ReceiptsCount == Spec => []ReceiptsCountCalls
<1>1. AgentInv => ReceiptsCountCalls
  BY DEF AgentInv
<1> QED BY <1>1, AgentInvariant, PTL

\* While the process lives, a key with a receipt keeps it and is not executed
\* again.
THEOREM ReceiptsFinal == Spec => ReceiptsAreFinal
<1> DEFINE A == \A k \in Keys : receipts[k] # None /\ receipts'[k] # None =>
                  receipts'[k] = receipts[k] /\ calls'[k] <= calls[k]
<1>1. AgentInv /\ [Next]_vars => [A]_vars
  <2> SUFFICES ASSUME AgentInv, Next, NEW k \in Keys,
                      receipts[k] # None, receipts'[k] # None
               PROVE  receipts'[k] = receipts[k] /\ calls'[k] <= calls[k]
    OBVIOUS
  <2>1. calls[k] \in Nat
    BY DEF AgentInv, TypeOK
  <2>2. ASSUME NEW j \in Keys, NEW r \in Requests, NEW g \in Grants \cup {None},
               Execute(j, r, g)
        PROVE  receipts'[k] = receipts[k] /\ calls'[k] <= calls[k]
    BY <2>1, <2>2 DEF Execute, Replay, Reject, RefuseInput, Start, Fresh, Return,
                      Hand, AgentInv, TypeOK
  <2>3. call # None => call.key # k /\ call.key \in Keys
    BY DEF AgentInv, ReceiptsCountCalls, TypeOK, Calls
  <2>4. CASE call # None /\ AttemptFails
    BY <2>1, <2>3, <2>4 DEF AttemptFails, Return, Hand, AgentInv, TypeOK
  <2>5. CASE AdapterExecutes
    BY <2>1, <2>4, <2>5 DEF AdapterExecutes
  <2>6. CASE AdapterVerifies
    BY <2>1, <2>3, <2>4, <2>6 DEF AdapterVerifies, Return, AgentInv, TypeOK
  <2>7. CASE Settle \/ Tick
    BY <2>1, <2>7 DEF Settle, Tick
  <2>8. CASE Crash
    BY <2>8 DEF Crash
  <2> QED BY <2>2, <2>5, <2>6, <2>7, <2>8 DEF Next
<1> QED BY <1>1, AgentInvariant, PTL DEF Spec, ReceiptsAreFinal

\* While the process lives, a key stands for one action: what the adapter gets
\* under it after its first call is a retry of that very call.
THEOREM OneAction == Spec => OneActionPerKey
<1> DEFINE A == \A k \in Keys : calls[k] > 0 /\ calls'[k] > calls[k] =>
                  /\ call # None /\ call.key = k
                  /\ call'.request = call.request /\ call'.grant = call.grant
<1>1. AgentInv /\ [Next]_vars => [A]_vars
  <2> SUFFICES ASSUME AgentInv, Next, NEW k \in Keys,
                      calls[k] > 0, calls'[k] > calls[k]
               PROVE  /\ call # None /\ call.key = k
                      /\ call'.request = call.request /\ call'.grant = call.grant
    OBVIOUS
  <2>1. calls \in [Keys -> Nat]
    BY DEF AgentInv, TypeOK
  <2>2. ASSUME NEW j \in Keys, NEW r \in Requests, NEW g \in Grants \cup {None},
               Execute(j, r, g)
        PROVE  FALSE
    <3>1. call = None
      BY <2>2 DEF Execute
    <3>2. Fresh(j) => calls[j] = 0
      BY <3>1 DEF Fresh, AgentInv, ReceiptsCountCalls
    <3>3. Start(j, r, g)
      BY <2>1, <2>2 DEF Execute, Replay, Reject, RefuseInput
    <3>4. calls' = [calls EXCEPT ![j] = @ + 1] /\ calls[j] = 0
      BY <3>2, <3>3 DEF Start, Hand
    <3> QED BY <2>1, <3>4
  <2>3. CASE call # None /\ AttemptFails
    <3>1. Hand(call.key, call.request, call.grant, call.attempts + 1)
      BY <2>1, <2>3 DEF AttemptFails
    <3>2. calls' = [calls EXCEPT ![call.key] = @ + 1]
      BY <3>1 DEF Hand
    <3>3. call.key = k
      BY <2>1, <3>2
    <3>4. call'.request = call.request /\ call'.grant = call.grant
      BY <3>1 DEF Hand
    <3> QED BY <2>3, <3>3, <3>4
  <2>4. CASE AdapterExecutes
    BY <2>1, <2>3, <2>4 DEF AdapterExecutes
  <2>5. CASE AdapterVerifies
    BY <2>1, <2>3, <2>5 DEF AdapterVerifies
  <2>6. CASE Settle \/ Tick
    BY <2>1, <2>6 DEF Settle, Tick
  <2>7. CASE Crash
    BY <2>1, <2>7 DEF Crash
  <2> QED BY <2>2, <2>4, <2>5, <2>6, <2>7 DEF Next
<1> QED BY <1>1, AgentInvariant, PTL DEF Spec, OneActionPerKey

\* What is left of docs/v1.10-authorization-policy-gate.md:13, since HandedInTime is
\* false: a write whose approval has expired, or was for another action, never
\* starts.  Only a retry of a call that started in time can be late.
THEOREM OnlyRetriesAreLate ==
  Spec => [][\A k \in Keys : calls'[k] > calls[k] /\ NeedsApproval(call'.request) =>
               \/ call'.grant # None /\ is_valid_for(call'.grant, call'.request)
               \/ /\ calls[k] > 0 /\ call # None /\ call.key = k
                  /\ call'.request = call.request /\ call'.grant = call.grant]_vars
<1> DEFINE A == \A k \in Keys : calls'[k] > calls[k] /\ NeedsApproval(call'.request) =>
                  \/ call'.grant # None /\ is_valid_for(call'.grant, call'.request)
                  \/ /\ calls[k] > 0 /\ call # None /\ call.key = k
                     /\ call'.request = call.request /\ call'.grant = call.grant
           B == \A k \in Keys : calls[k] > 0 /\ calls'[k] > calls[k] =>
                  /\ call # None /\ call.key = k
                  /\ call'.request = call.request /\ call'.grant = call.grant
<1>1. AgentInv /\ [Next]_vars /\ [B]_vars => [A]_vars
  <2> SUFFICES ASSUME AgentInv, Next, vars' # vars, B, NEW k \in Keys,
                      calls'[k] > calls[k], NeedsApproval(call'.request),
                      ~(calls[k] > 0)
               PROVE  call'.grant # None /\ is_valid_for(call'.grant, call'.request)
    OBVIOUS
  <2>1. calls \in [Keys -> Nat]
    BY DEF AgentInv, TypeOK
  <2>2. ASSUME NEW j \in Keys, NEW r \in Requests, NEW g \in Grants \cup {None},
               Execute(j, r, g)
        PROVE  call'.grant # None /\ is_valid_for(call'.grant, call'.request)
    <3>1. Start(j, r, g)
      BY <2>1, <2>2 DEF Execute, Replay, Reject, RefuseInput
    <3>2. Authorized(r, g) /\ call'.request = r /\ call'.grant = g
      BY <3>1 DEF Start, Hand
    <3> QED BY <3>2 DEF Authorized
  <2>3. ASSUME call # None, AttemptFails PROVE FALSE
    <3>1. call.key \in Keys /\ call.attempts = calls[call.key] /\ call.attempts \in 1 .. MaxAttempts
      BY <2>3 DEF AgentInv, TypeOK, Calls, ReceiptsCountCalls
    <3>2. calls' = calls \/ calls' = [calls EXCEPT ![call.key] = @ + 1]
      BY <2>3 DEF AttemptFails, Hand
    <3> QED BY <2>1, <3>1, <3>2
  <2>4. CASE AdapterExecutes
    BY <2>1, <2>3, <2>4 DEF AdapterExecutes
  <2>5. CASE AdapterVerifies
    BY <2>1, <2>3, <2>5 DEF AdapterVerifies
  <2>6. CASE Settle \/ Tick \/ Crash
    BY <2>1, <2>6 DEF Settle, Tick, Crash
  <2> QED BY <2>2, <2>4, <2>5, <2>6 DEF Next
<1>2. Spec => [][B]_vars
  BY OneAction DEF OneActionPerKey
<1> QED BY <1>1, <1>2, AgentInvariant, PTL DEF Spec

===============================================================================
