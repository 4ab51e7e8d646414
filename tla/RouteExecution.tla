---------------------------- MODULE RouteExecution ----------------------------
(* From a drained batch to the chain: execution-manager checks the allowances *)
(* of each route, has the fund wallet approve what is missing, simulates what *)
(* is ready and sends the best from its worker, whose gas the same fund       *)
(* wallet tops up; monitor-web configures executors with that wallet too,     *)
(* since approveToken is onlyOwner. The worker's lane is reduced to what this *)
(* needs of it (ExecutionLane has the whole).                                 *)
EXTENDS RouteEncoding, SequencesExt

CONSTANTS
  Scenarios,  \* [batches, live, late, gas, faults, lowered, configures]: see sc
  LateRow,    \* a row another process may add to factory_registry
  Whitelists, \* does the web's executor have whitelist mappings? (a hub has not)
  WebTokens,  \* the tokens of the pair monitor-web configures, in order
  Discovered, \* the pools it has just discovered: [family, pool]
  Allowed0, Mapped0,  \* what the chain has at first
  TargetGas, MinGas,        \* worker_target_balance, worker_min_balance
  MaxReady,   \* MAX_SIMULATIONS_PER_CYCLE
  Capacity,   \* SIMULATION_RECORD_QUEUE_CAPACITY
  Gains,      \* profits a simulation may see; a failed one sees none
  Slots       \* bound: nonces of the fund wallet followed past the mined one

ASSUME ExecutionAssumption ==
  /\ \A s \in Scenarios :
       /\ s.batches \subseteq Seq(Routes)
       /\ {s.live, s.late} \subseteq BOOLEAN
       /\ {s.faults, s.lowered, s.configures} \subseteq Nat /\ s.gas \in 0..TargetGas
  /\ TargetGas \in Nat /\ MinGas \in 1..TargetGas /\ MaxReady \in Nat \ {0}
  /\ Capacity \in Nat \ {0} /\ Gains \subseteq Nat \ {0} /\ Slots \in Nat \ {0}

\* A route goes through pools, and the factory of V2 pairs has an address.
ASSUME PoolsAreNamed ==
  /\ V2Factory # None
  /\ \A r \in Routes : \A i \in DOMAIN Route[r] : Route[r][i].pool # None

VARIABLES
  sc,            \* what this behaviour has: the batches, sequences of candidates best
                 \* first, one cycle may drain; live or dry-run; the late row; gas at
                 \* first; and bounds on failed calls, lowered allowances and the web's
                 \* configurations
  plans,         \* Plans, for the rows factory_registry may have
  allow, mapped, \* chain: approved keys, whitelist mappings of the web's executor
  pool,          \* fund wallet: its transaction at each nonce from the mined one on
  gas,           \* chain: the worker's balance
  arb,           \* the worker's route transaction, mined or not, or None
  registry,      \* factory_registry
  lane,          \* Redis: [status, balance] of the worker
  opps,          \* Postgres: candidates of this batch with a row in opportunities
  simq,          \* simulation records on their way: [live, rows]
  bot,           \* execution-manager
  web,           \* monitor-web's executor configuration
  lost,          \* keys an owner or a spender has lowered
  won,           \* the last call that succeeded on chain, or None
  abandoned,     \* gas sent in transfers the process stopped waiting for
  flags,         \* what must not happen: "replaced", "orphan"
  faults, runs

chainVars == <<allow, mapped, pool, gas, arb>>
dbVars == <<registry, lane, opps, simq>>
history == <<lost, won, abandoned, flags>>
fixed == <<sc, plans>>
vars == <<fixed, chainVars, dbVars, bot, web, history, faults, runs>>

-----------------------------------------------------------------------------
(* The fund wallet's nonces, counted from the mined one: slot 1 is mined next *)

Latest == 1

NoTx == [by |-> "nobody", does |-> "nothing"]

Pending == CHOOSE n \in 1..(Slots + 1) :
             /\ n = Slots + 1 \/ pool[n] = NoTx
             /\ \A m \in 1..(n - 1) : pool[m] # NoTx

(* eth_sendRawTransaction: a nonce already mined, or (unless the fees are    *)
(* high enough) one already taken, is refused.                               *)
Refusable(n) == n \in Latest..Slots => pool[n] # NoTx

Sends(n, tx) ==
  /\ n \in Latest..Slots
  /\ pool' = [pool EXCEPT ![n] = tx]
  /\ flags' = IF pool[n].by = "bot" /\ tx.by = "bot"
              THEN flags \cup {"replaced"} ELSE flags

(* A nonce somebody holds, after the next one is mined; 0 when it is past.   *)
Shifted(n) == IF n = 0 THEN 0 ELSE n - 1

Fails == faults < sc.faults /\ faults' = faults + 1

ApproveTx(by, key) == [by |-> by, does |-> "approve", key |-> key]

MapTx(value) == [by |-> "web", does |-> "map", value |-> value]

GasTx(value) == [by |-> "bot", does |-> "gas", value |-> value]

MineFund ==
  /\ pool[Latest] # NoTx
  /\ LET tx == pool[Latest] IN
     /\ allow' = IF tx.does = "approve" THEN allow \cup {tx.key} ELSE allow
     /\ mapped' = IF tx.does = "map" THEN mapped \cup {tx.value} ELSE mapped
     /\ gas' = IF tx.does = "gas" THEN gas + tx.value ELSE gas
     /\ bot' = [bot EXCEPT
                 !.nonce = Shifted(@),
                 !.mined = @ \/ (bot.pc = "wait" /\ bot.nonce = Latest /\ tx.by = "bot")]
  /\ pool' = [n \in 1..Slots |-> IF n = Slots THEN NoTx ELSE pool[n + 1]]
  /\ web' = [web EXCEPT !.nonce = Shifted(@)]
  /\ UNCHANGED <<fixed, arb, dbVars, history, faults, runs>>

(* The node forgets a transaction it had accepted.                           *)
DropFund ==
  /\ Fails
  /\ \E n \in 1..Slots : pool[n] # NoTx /\ pool' = [pool EXCEPT ![n] = NoTx]
  /\ UNCHANGED <<fixed, allow, mapped, gas, arb, dbVars, bot, web, history, runs>>

MineArb ==
  /\ arb # None /\ ~arb.mined
  /\ arb' = [arb EXCEPT !.mined = TRUE]
  /\ gas' = gas - 1
  /\ \E success \in BOOLEAN :
       /\ success => Accepts(arb.executor, arb.call, allow)
       /\ won' = IF success THEN arb.call ELSE won
  /\ UNCHANGED <<fixed, allow, mapped, pool, dbVars, bot, web, lost, abandoned, flags, faults, runs>>

(* An owner revokes an allowance, or a spender uses it up.                   *)
LowerAllowance ==
  /\ Cardinality(lost) < sc.lowered
  /\ \E key \in allow : allow' = allow \ {key} /\ lost' = lost \cup {key}
  /\ UNCHANGED <<fixed, mapped, pool, gas, arb, dbVars, bot, web, won, abandoned, flags, faults, runs>>

TrustFactory ==
  /\ sc.late /\ LateRow \notin registry
  /\ registry' = registry \cup {LateRow}
  /\ UNCHANGED <<fixed, chainVars, lane, opps, simq, bot, web, history, faults, runs>>

-----------------------------------------------------------------------------
(* execution-manager. What it makes of a route, for the factory rows it read *)
(* when it started.                                                          *)

Plans(rows) ==
  LET trusted == TrustedFactorySet(rows) IN
  [r \in Routes |-> [encodable |-> Encodable(trusted, r), executor |-> Executor(trusted, r),
                    call |-> Encode(trusted, r),
                    approvals |-> IF Encodable(trusted, r) THEN RequiredApprovals(trusted, r)
                                  ELSE {}]]

\* None is no transaction of the worker.
ASSUME NoneIsNothing ==
  \A rows \in SUBSET {LateRow}, r \in Routes, mined \in BOOLEAN :
    None # [executor |-> Plans(rows)[r].executor, call |-> Plans(rows)[r].call, mined |-> mined]

(* A table, filled once so that TLC does not work it out at every step.      *)
Plan(r) == plans[bot.rows][r]

(* It ends on the first error a call returns to the loop; *)
(* whoever supervises it starts it again.                                    *)

Down(cause) ==
  [pc |-> "down", rows |-> {}, cache |-> {}, todo |-> <<>>,
   ready |-> {}, done |-> {}, sims |-> {}, missing |-> {}, nonce |-> 0, value |-> 0,
   mined |-> FALSE, cause |-> cause]

Die(cause) == bot' = Down(cause) /\ simq' = <<>>

(* A call that fails or times out, other than those the code carries on from.*)
Fault ==
  /\ bot.pc # "down" /\ Fails
  /\ Die("node")
  /\ abandoned' = IF bot.pc = "wait" /\ ~bot.mined THEN abandoned + bot.value ELSE abandoned
  /\ UNCHANGED <<fixed, chainVars, registry, lane, opps, web, lost, won, flags, runs>>

Start ==
  /\ bot.pc = "down"
  /\ bot' = [bot EXCEPT !.pc = IF sc.live THEN "reconcile" ELSE "drain",
                        !.rows = registry, !.cause = "none"]
  /\ UNCHANGED <<fixed, chainVars, dbVars, web, history, faults, runs>>

Ready(l) == l.status = "idle" /\ l.balance >= MinGas

(* The lane after its receipt, if there is one, has been handled.            *)
Settled ==
  IF lane.status = "pending" /\ arb.mined THEN [status |-> "idle", balance |-> gas] ELSE lane

(* reconcile_pending_worker_lanes, select_cached_ready_worker                *)
SelectWorker ==
  /\ bot.pc = "select"
  /\ lane' = Settled
  /\ arb' = IF Settled # lane THEN None ELSE arb
  /\ bot' = [bot EXCEPT !.pc = IF Ready(Settled) THEN "drain" ELSE "reconcile"]
  /\ UNCHANGED <<fixed, allow, mapped, pool, gas, registry, opps, simq, web, history, faults, runs>>

\* Mutant of ReconcileWorker: the transfer is the target, not what is missing.
X_SendsTarget ==
  /\ bot.pc = "reconcile"
  /\ arb' = IF Settled # lane THEN None ELSE arb
  /\ lane' = IF Settled.status # "pending" /\ gas >= MinGas
             THEN [status |-> "idle", balance |-> gas] ELSE Settled
  /\ IF Settled.status = "pending" THEN Die("busy")
     ELSE /\ bot' = IF gas >= MinGas THEN [bot EXCEPT !.pc = "drain"]
                    ELSE [bot EXCEPT !.pc = "fund", !.value = TargetGas]
          /\ UNCHANGED simq
  /\ UNCHANGED <<fixed, allow, mapped, pool, gas, registry, opps, web, history, faults, runs>>

(* reconcile_worker_lanes: a lane without a receipt stays as it is, and with *)
(* no other worker the process ends.                                         *)
ReconcileWorker ==
  /\ bot.pc = "reconcile"
  /\ arb' = IF Settled # lane THEN None ELSE arb
  /\ CASE Settled.status = "pending" -> lane' = Settled /\ Die("busy")
       [] Settled.status # "pending" /\ gas >= MinGas ->
            /\ lane' = [status |-> "idle", balance |-> gas]
            /\ bot' = [bot EXCEPT !.pc = "drain"]
            /\ UNCHANGED simq
       [] OTHER ->
            /\ lane' = Settled
            /\ bot' = [bot EXCEPT !.pc = "fund", !.value = TargetGas - gas]
            /\ UNCHANGED simq
  /\ UNCHANGED <<fixed, allow, mapped, pool, gas, registry, opps, web, history, faults, runs>>

(* fund_worker_lane_if_needed                                                *)
ReadFundingNonce ==
  /\ bot.pc = "fund"
  /\ bot' = [bot EXCEPT !.pc = "pay", !.nonce = Pending]
  /\ UNCHANGED <<fixed, chainVars, dbVars, web, history, faults, runs>>

SendFunding ==
  /\ bot.pc = "pay"
  /\ Sends(bot.nonce, GasTx(bot.value))
  /\ bot' = [bot EXCEPT !.pc = "wait", !.mined = FALSE]
  /\ UNCHANGED <<fixed, allow, mapped, gas, arb, dbVars, web, lost, won, abandoned, faults, runs>>

FundingRefused ==
  /\ bot.pc = "pay" /\ Refusable(bot.nonce)
  /\ Die("node")
  /\ UNCHANGED <<fixed, chainVars, registry, lane, opps, web, history, faults, runs>>

FundingMined ==
  /\ bot.pc = "wait" /\ bot.mined
  /\ lane' = [status |-> "idle", balance |-> gas]
  /\ bot' = [bot EXCEPT !.pc = "drain", !.nonce = 0, !.value = 0, !.mined = FALSE]
  /\ UNCHANGED <<fixed, chainVars, registry, opps, simq, web, history, faults, runs>>

Gone == bot.nonce \in Latest..Slots => pool[bot.nonce] # GasTx(bot.value)

(* wait_for_worker_funding_receipt gives up: it has to when the transfer is   *)
(* dropped or replaced, or behind a nonce that is missing. One that is only   *)
(* slow is a Fault.                                                           *)
FundingTimesOut ==
  /\ bot.pc = "wait" /\ ~bot.mined /\ (Gone \/ pool[Latest] = NoTx)
  /\ Die("node")
  /\ abandoned' = IF Gone THEN abandoned ELSE abandoned + bot.value
  /\ UNCHANGED <<fixed, chainVars, registry, lane, opps, web, lost, won, flags, faults, runs>>

(* The searcher's own queue records opportunities when it can.               *)
RecordOpportunities(candidates) == opps' = opps \cup candidates

SearcherRecords ==
  /\ bot.pc # "down"
  /\ RecordOpportunities(Range(bot.todo) \cup bot.ready \cup bot.done)
  /\ UNCHANGED <<fixed, chainVars, registry, lane, simq, bot, web, history, faults, runs>>

\* Mutant of Drain: a live batch leaves its opportunities to the searcher's queue.
X_DrainOnly(b) ==
  /\ bot.pc = "drain"
  /\ opps' = {}
  /\ bot' = IF sc.live THEN [bot EXCEPT !.pc = "check", !.todo = b]
            ELSE [bot EXCEPT !.pc = "simulate",
                             !.ready = {b[i] : i \in {j \in DOMAIN b : j <= MaxReady}}]
  /\ UNCHANGED <<fixed, chainVars, registry, lane, simq, web, history, faults, runs>>

Drain(b) ==
  /\ bot.pc = "drain"
  /\ IF sc.live
     THEN /\ opps' = Range(b)
          /\ bot' = [bot EXCEPT !.pc = "check", !.todo = b]
     ELSE /\ opps' = {}
          /\ bot' = [bot EXCEPT !.pc = "simulate",
                                !.ready = {b[i] : i \in {j \in DOMAIN b : j <= MaxReady}}]
  /\ UNCHANGED <<fixed, chainVars, registry, lane, simq, web, history, faults, runs>>

(* try_send drops what finds the queue full.                                 *)
Enqueue(candidates) ==
  simq' = IF candidates = {} \/ Len(simq) = Capacity THEN simq
          ELSE Append(simq, [live |-> sc.live, rows |-> candidates \subseteq opps])

FlushSimulations ==
  /\ simq # <<>>
  /\ simq' = Tail(simq)
  /\ flags' = IF Head(simq).live /\ ~Head(simq).rows THEN flags \cup {"orphan"} ELSE flags
  /\ UNCHANGED <<fixed, chainVars, registry, lane, opps, bot, web, lost, won, abandoned, faults, runs>>

-----------------------------------------------------------------------------
(* live_approval_preflight, candidate after candidate.                       *)

Candidate == Head(bot.todo)

Checking == bot.pc = "check" /\ bot.todo # <<>> /\ Cardinality(bot.ready) < MaxReady

Skipped == [bot EXCEPT !.pc = "check", !.todo = Tail(@), !.missing = {}, !.nonce = 0]

\* Mutant of SkipUnencodable: the error goes up to the loop.
X_RaiseUnencodable ==
  /\ Checking /\ ~Plan(Candidate).encodable
  /\ Die("candidate")
  /\ UNCHANGED <<fixed, chainVars, registry, lane, opps, web, history, faults, runs>>

SkipUnencodable ==
  /\ Checking /\ ~Plan(Candidate).encodable
  /\ bot' = Skipped
  /\ Enqueue({Candidate})
  /\ UNCHANGED <<fixed, chainVars, registry, lane, opps, web, history, faults, runs>>

(* missing_approvals_cached; a read that fails leaves everything missing.    *)
MissingApprovals(r) == Plan(r).approvals \ (bot.cache \cup allow)

CheckApprovals ==
  /\ Checking /\ Plan(Candidate).encodable
  /\ \/ /\ bot' = [bot EXCEPT
                   !.cache = @ \cup (Plan(Candidate).approvals \cap allow),
                   !.missing = MissingApprovals(Candidate),
                   !.pc = IF MissingApprovals(Candidate) = {} THEN "check" ELSE "admin",
                   !.ready = IF MissingApprovals(Candidate) = {} THEN @ \cup {Candidate} ELSE @,
                   !.todo = IF MissingApprovals(Candidate) = {} THEN Tail(@) ELSE @]
        /\ UNCHANGED faults
     \/ /\ Fails /\ Plan(Candidate).approvals # {}
        /\ bot' = [bot EXCEPT !.pc = "admin",
                              !.missing = Plan(Candidate).approvals]
  /\ UNCHANGED <<fixed, chainVars, dbVars, web, history, runs>>

\* Mutant of AdminPending: a nonce that is only the next one counts as taken.
X_AlwaysTaken ==
  /\ bot.pc = "admin"
  /\ bot' = IF Pending >= Latest THEN Skipped ELSE [bot EXCEPT !.pc = "nonce"]
  /\ UNCHANGED <<fixed, chainVars, dbVars, web, history, faults, runs>>

AdminPending ==
  /\ bot.pc = "admin"
  /\ bot' = IF Pending > Latest THEN Skipped ELSE [bot EXCEPT !.pc = "nonce"]
  /\ UNCHANGED <<fixed, chainVars, dbVars, web, history, faults, runs>>

ReadApprovalNonce ==
  /\ bot.pc = "nonce"
  /\ IF Plan(Candidate).executor = None
     THEN bot' = Skipped /\ Enqueue({Candidate})
     ELSE bot' = [bot EXCEPT !.pc = "approve", !.nonce = Pending] /\ UNCHANGED simq
  /\ UNCHANGED <<fixed, chainVars, registry, lane, opps, web, history, faults, runs>>

SendApproval ==
  /\ bot.pc = "approve"
  /\ \E key \in bot.missing : Sends(bot.nonce, ApproveTx("bot", key))
  /\ Enqueue({Candidate})
  /\ bot' = Skipped
  /\ UNCHANGED <<fixed, allow, mapped, gas, arb, registry, lane, opps, web, lost, won, abandoned,
                 faults, runs>>

(* The approval is refused or fails; the Dropped row names the candidate.    *)
ApprovalFails ==
  /\ bot.pc = "approve"
  /\ IF Refusable(bot.nonce) THEN UNCHANGED faults ELSE Fails
  /\ IF Candidate \in opps THEN bot' = Skipped /\ Enqueue({Candidate}) ELSE Die("row")
  /\ UNCHANGED <<fixed, chainVars, registry, lane, opps, web, history, runs>>

BeginSimulations ==
  /\ bot.pc = "check" /\ ~Checking
  /\ bot' = [bot EXCEPT !.pc = "simulate", !.todo = <<>>]
  /\ UNCHANGED <<fixed, chainVars, dbVars, web, history, faults, runs>>

-----------------------------------------------------------------------------
(* The simulations run as tasks of their own, and end in any order.          *)

Simulate ==
  /\ bot.pc = "simulate"
  /\ \E r \in bot.ready :
       LET next == [bot EXCEPT !.ready = @ \ {r}, !.done = @ \cup {r}] IN
       \/ bot' = next
       \/ /\ Plan(r).encodable /\ Plan(r).executor # None
          /\ Accepts(Plan(r).executor, Plan(r).call, allow)
          /\ \E gain \in Gains :
               bot' = [next EXCEPT !.sims = @ \cup {[route |-> r, gain |-> gain]}]
  /\ UNCHANGED <<fixed, chainVars, dbVars, web, history, faults, runs>>

EndSimulations ==
  /\ bot.pc = "simulate" /\ bot.ready = {}
  /\ bot' = [bot EXCEPT !.pc = IF sc.live THEN "submit" ELSE "drain", !.done = {},
                        !.sims = IF sc.live THEN @ ELSE {}]
  /\ Enqueue(bot.done)
  /\ UNCHANGED <<fixed, chainVars, registry, lane, opps, web, history, faults, runs>>

Best == CHOOSE s \in bot.sims : \A o \in bot.sims : o.gain <= s.gain

Submitting == bot.pc = "submit" /\ bot.sims # {}

WithoutBest == [bot EXCEPT !.sims = @ \ {Best}]

(* Expired by now, or another process holds its submission lock.             *)
SkipSubmission ==
  /\ Submitting
  /\ bot' = WithoutBest
  /\ UNCHANGED <<fixed, chainVars, dbVars, web, history, faults, runs>>

SubmitBest ==
  /\ Submitting
  /\ arb' = [executor |-> Plan(Best.route).executor, call |-> Plan(Best.route).call, mined |-> FALSE]
  /\ lane' = [lane EXCEPT !.status = "pending"]
  /\ IF Best.route \in opps
     THEN bot' = [bot EXCEPT !.pc = "select", !.sims = {}] /\ UNCHANGED simq
     ELSE Die("row")
  /\ UNCHANGED <<fixed, allow, mapped, pool, gas, registry, opps, web, history, faults, runs>>

SubmissionFails ==
  /\ Submitting /\ Fails
  /\ lane' = [lane EXCEPT !.status = "cooldown"]
  /\ IF Best.route \in opps THEN bot' = WithoutBest /\ UNCHANGED simq ELSE Die("row")
  /\ UNCHANGED <<fixed, chainVars, registry, opps, web, history, runs>>

EndBatch ==
  /\ bot.pc = "submit" /\ bot.sims = {}
  /\ bot' = [bot EXCEPT !.pc = "select"]
  /\ UNCHANGED <<fixed, chainVars, dbVars, web, history, faults, runs>>

-----------------------------------------------------------------------------
(* monitor-web: configure_executor_for_pair. The nonce is read once and      *)
(* counted up; the first error ends the configuration.                       *)

Deployed == Settings.execAny

Offers(f) == \E d \in Discovered : d.family = f

ExecutorRouters ==
  ({Settings.router["classic"], Settings.router["uniswap"]}
   \cup {RouterOf(f) : f \in {g \in {"pancake", "slipstream"} : Offers(g)}}) \ {None}

Mapping(value) == [does |-> "map", value |-> value]

ForToken(supported, token) ==
  (IF supported THEN <<Mapping(token)>> ELSE <<>>)
  \o SetToSeq({[does |-> "approve", key |-> <<Deployed, token, router>>] : router \in ExecutorRouters})

WebItems(supported) ==
  LET mappings == {Mapping(v) : v \in ExecutorRouters
                     \cup IF Offers("classic") THEN {Settings.factory["classic"]} \ {None} ELSE {}}
      pools == {Mapping(d.pool) : d \in Discovered}
  IN (IF supported THEN SetToSeq(mappings) ELSE <<>>)
     \o FoldLeft(LAMBDA acc, token : acc \o ForToken(supported, token), <<>>, WebTokens)
     \o (IF supported THEN SetToSeq(pools) ELSE <<>>)

WebIdle == [nonce |-> 0, todo |-> <<>>]

(* executor_whitelists_supported takes a failed probe for a no.              *)
WebStart ==
  /\ web.todo = <<>> /\ runs < sc.configures /\ runs' = runs + 1
  /\ \/ web' = [nonce |-> Pending, todo |-> WebItems(Whitelists)] /\ UNCHANGED faults
     \/ Whitelists /\ Fails /\ web' = [nonce |-> Pending, todo |-> WebItems(FALSE)]
  /\ UNCHANGED <<fixed, chainVars, dbVars, bot, history>>

Enabled(item) ==
  IF item.does = "map" THEN item.value \in mapped ELSE item.key \in allow

WebTx(item) == IF item.does = "map" THEN MapTx(item.value) ELSE ApproveTx("web", item.key)

WebSkip ==
  /\ web.todo # <<>> /\ Enabled(Head(web.todo))
  /\ web' = [web EXCEPT !.todo = Tail(@)]
  /\ UNCHANGED <<fixed, chainVars, dbVars, bot, history, faults, runs>>

WebSend ==
  /\ web.todo # <<>> /\ ~Enabled(Head(web.todo))
  /\ Sends(web.nonce, WebTx(Head(web.todo)))
  /\ web' = [nonce |-> web.nonce + 1, todo |-> Tail(web.todo)]
  /\ UNCHANGED <<fixed, allow, mapped, gas, arb, dbVars, bot, lost, won, abandoned, faults, runs>>

WebFails ==
  /\ web.todo # <<>>
  /\ \/ ~Enabled(Head(web.todo)) /\ Refusable(web.nonce) /\ UNCHANGED faults
     \/ Fails
  /\ web' = WebIdle
  /\ UNCHANGED <<fixed, chainVars, dbVars, bot, history, runs>>

-----------------------------------------------------------------------------
Init ==
  /\ sc \in Scenarios /\ plans = [rows \in SUBSET {LateRow} |-> Plans(rows)]
  /\ allow = Allowed0 /\ mapped = Mapped0
  /\ pool = [n \in 1..Slots |-> NoTx]
  /\ gas = sc.gas /\ arb = None
  /\ registry = {} /\ lane = [status |-> "idle", balance |-> 0]
  /\ opps = {} /\ simq = <<>>
  /\ bot = Down("none")
  /\ web = WebIdle
  /\ lost = {} /\ won = None /\ abandoned = 0 /\ flags = {}
  /\ faults = 0 /\ runs = 0

Chain == MineFund \/ DropFund \/ MineArb \/ LowerAllowance

Worker ==
  SelectWorker \/ ReconcileWorker \/ ReadFundingNonce \/ SendFunding \/ FundingRefused
  \/ FundingMined \/ FundingTimesOut

Preflight ==
  SkipUnencodable \/ CheckApprovals \/ AdminPending \/ ReadApprovalNonce \/ SendApproval
  \/ ApprovalFails \/ BeginSimulations

Submission ==
  Simulate \/ EndSimulations \/ SkipSubmission \/ SubmitBest \/ SubmissionFails \/ EndBatch

Steps == Start \/ Worker \/ (\E b \in sc.batches : Drain(b)) \/ Preflight \/ Submission

Web == WebSkip \/ WebSend \/ WebFails

Next ==
  \/ Chain \/ TrustFactory \/ Fault \/ Steps
  \/ SearcherRecords \/ FlushSimulations
  \/ WebStart \/ Web

Spec == Init /\ [][Next]_vars

(* The loop runs while the process is up, and a supervisor restarts it; the  *)
(* chain mines what is next; the web's request runs to its end.              *)
FairSpec ==
  Spec /\ WF_vars(Steps) /\ WF_vars(MineFund) /\ WF_vars(MineArb) /\ WF_vars(Web)

-----------------------------------------------------------------------------
Keys == {<<e, s.tin, RouterOf(f)>> : e \in {Settings.exec2, Settings.execMulti, Settings.execAny},
          s \in UNION {Range(Route[r]) : r \in Routes}, f \in DOMAIN Families}
Sums == 0..(TargetGas * (sc.faults + 2))

(* Every variable stays within its type.                                     *)
TypeOK ==
  /\ gas \in Sums /\ abandoned \in Sums
  /\ DOMAIN pool = 1..Slots
  /\ lane.status \in {"idle", "pending", "cooldown"} /\ lane.balance \in Sums
  /\ (lane.status = "pending") <=> (arb # None)
  /\ opps \subseteq Routes /\ Len(simq) <= Capacity
  /\ bot.pc \in {"down", "select", "reconcile", "fund", "pay", "wait", "drain", "check", "admin",
                 "nonce", "approve", "simulate", "submit"}
  /\ bot.nonce \in 0..(Slots + 1) /\ web.nonce \in 0..(Slots + 2)
  /\ bot.ready \cup bot.done \subseteq Routes /\ bot.cache \subseteq Keys
  /\ Cardinality(bot.ready) <= MaxReady

(* A route the preflight lets through to simulation has every allowance its   *)
(* own executor will be asked for, unless one was lowered on chain since      *)
(* (missing_approvals_cached, with the cache that outlives the batch).        *)
ReadyIsApproved ==
  sc.live => \A r \in bot.ready :
    \A e \in Range(Plan(r).call) :
      NeedsHub(e.kind) \/ <<Plan(r).executor, e.tin, e.router>> \in allow \cup lost

(* No candidate can end the process: it ends when a call to the node, Redis  *)
(* or Postgres fails, or when no worker is ready, never because a route       *)
(* cannot be encoded or a row cannot be written for want of its opportunity   *)
(* (live_approval_preflight; run_live_submission_batch).                      *)
NoCandidateKills == bot.cause \in {"none", "node", "busy"}

(* What succeeds on chain went through pools of factories that are built in,  *)
(* configured or trusted in the registry, and that those factories answer     *)
(* for (step_execution_kind, factory_for_step; ExecutorHub._validatePool).    *)
OnlyTrustedPools ==
  won # None => \A e \in Range(won) :
    \/ e.kind = "Adapter" /\ e.factory \in {Settings.factory[f] : f \in Adapted}
    \/ /\ <<e.factory, {e.tin, e.tout}, e.fee, e.pool>> \in Known
       /\ \/ e.factory = V2Factory
          \/ \E f \in DOMAIN BuiltIn : e.factory \in TrustedFactorySet(registry)[f]

(* What the preflight lets through is approved and what the hub executes is   *)
(* trusted; every variable has its type.                                       *)
RoutesSound == TypeOK /\ ReadyIsApproved /\ OnlyTrustedPools

InFlight(n) == IF pool[n].does = "gas" THEN pool[n].value ELSE 0

(* The gas that the wallet's first n transactions bring the worker.           *)
Bringing[n \in 0..Slots] == IF n = 0 THEN 0 ELSE Bringing[n - 1] + InFlight(n)

(* The worker never gets more gas than its target, but for the transfers the  *)
(* process had stopped waiting for (fund_worker_lane_if_needed).              *)
FundedWithinTarget ==
  gas + Bringing[Slots] <= TargetGas + abandoned

(* execution-manager never replaces its own fund wallet transaction by        *)
(* another one: an approval by a transfer or a later approval, or the other   *)
(* way round (admin_has_pending_nonce, get_transaction_count).                *)
OwnNoncesApart == "replaced" \notin flags

(* The fund wallet pays each thing once and what it was asked to.               *)
WalletSound == FundedWithinTarget /\ OwnNoncesApart

(* The simulations of a live batch find the opportunities they refer to when  *)
(* they are flushed, whatever the searcher's own queue has managed to write.  *)
LiveSimulationsKept == "orphan" \notin flags

(* The routes of every batch that can be encoded have all their allowances    *)
(* some day, in spite of other transactions of the wallet and of restarts,    *)
(* unless one of them is lowered after the process has cached it.             *)
RouteGetsApproved ==
  <>(sc.live => \A r \in Routes :
       (\A b \in sc.batches : r \in Range(b)) => plans[{}][r].approvals \subseteq allow \cup lost)

=============================================================================
