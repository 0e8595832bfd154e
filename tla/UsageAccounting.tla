--------------------------- MODULE UsageAccounting ---------------------------
(***************************************************************************)
(* What an LLM call costs, on its way through the service: the vendor's    *)
(* counters become an LLMUsage (src/llm/providers), the "done" event       *)
(* passes some of it on (src/agents/orchestrator.py, src/api/chat.py),     *)
(* calculate_cost prices it (src/llm/pricing.py), log_usage stores it      *)
(* (src/services/usage_logger.py), WalletGate.debit_after_call charges it, *)
(* and once an hour reconcile_job (src/services/scheduler.py) compares the *)
(* two tables.  Tokens are priced in 10^-6 USD per million, costs are in   *)
(* Money's micros and what the tables hold is in its quanta, which are     *)
(* 10^-6 USD.  The role is exempt from row-level security, without which   *)
(* reconcile_job would see no rows.                                        *)
(***************************************************************************)
EXTENDS Money, FiniteSets, Functions

CONSTANTS
    Tenants,
    Markup,       \* [Tenants -> markup_rate]
    Models,
    Family,       \* [Models -> whose API serves it]
    PriceRows,    \* model_pricing
    NoPrice,      \* NULL in a price row
    Calls,
    TenantOf,     \* [Calls -> Tenants]
    Bills,        \* the tokens a vendor counts for a call
    NoUsage,      \* the stream had no chunk with usage
    HoursPerDay,  \* of the price list's calendar
    LastHour,     \* bound of the clock
    Tolerance     \* of the reconciliation, in quanta

Families == {"openai", "gemini", "anthropic"}

(* What a vendor has counted: input tokens read afresh or from its cache,  *)
(* output tokens of the text and of the reasoning before it.               *)
BillRows == [fresh : Nat, cached : Nat, text : Nat, thoughts : Nat]

PriceTable ==
    [model : Models, from : Nat, to : Nat \cup {NoPrice},
     input : Nat, output : Nat, cached : Nat \cup {NoPrice}]

ASSUME FamilyAssumption == Family \in [Models -> Families]
ASSUME MarkupAssumption == Markup \in [Tenants -> Nat]
ASSUME TenantOfAssumption == TenantOf \in [Calls -> Tenants]
ASSUME BillsAssumption == Bills \subseteq BillRows
ASSUME PriceRowsAssumption == PriceRows \subseteq PriceTable
(* As in every row of scripts/seed_pricing.py, the cache is a discount.     *)
ASSUME DiscountAssumption == \A p \in PriceRows : p.cached # NoPrice => p.cached <= p.input
ASSUME ClockAssumption == HoursPerDay \in Nat \ {0} /\ LastHour \in Nat
ASSUME ToleranceAssumption == IsFiniteSet(Calls) /\ Tolerance \in Nat

VARIABLES
    now,        \* the hour, from one reconciliation to the next
    call,       \* [Calls -> the call and its two records]
    reported    \* the tenants that the last reconciliation found to mismatch

vars == <<now, call, reported>>

Usages == [prompt : Nat, output : Nat, cached : Nat, thoughts : Nat]

(* A record of a call: the row in llm_usage_log or the debit in            *)
(* credit_transactions.  hour is its created_at, the time its transaction  *)
(* began; of history, price is the row that it was priced with.            *)
Records ==
    [state : {"none", "due", "priced", "open", "stored", "lost"},
     cost : Nat, amount : Nat, hour : 0..LastHour, price : PriceRows \cup {NoPrice}]

CallState ==
    [pc : {"new", "done"}, model : Models, bill : Bills,
     usage : Usages \cup {NoUsage}, log : Records, debit : Records]

TypeOK ==
    /\ now \in 0..LastHour
    /\ call \in [Calls -> CallState]
    /\ reported \subseteq Tenants

NoRecord == [state |-> "none", cost |-> 0, amount |-> 0, hour |-> 0, price |-> NoPrice]

Init ==
    /\ now = 0
    /\ call \in [Calls -> {[pc |-> "new", model |-> m, bill |-> b, usage |-> NoUsage,
                            log |-> NoRecord, debit |-> NoRecord] : m \in Models, b \in Bills}]
    /\ reported = {}

LostRecord == [NoRecord EXCEPT !.state = "lost"]

Become(c, state) == call' = [call EXCEPT ![c] = state] /\ UNCHANGED <<now, reported>>

-----------------------------------------------------------------------------
(* The provider's LLMUsage.  The API of OpenAI, of DeepSeek and of Groq     *)
(* counts cached tokens in the prompt and reasoning in the completion.     *)
OpenAIUsage(b) ==
    [prompt |-> b.fresh + b.cached, output |-> b.text + b.thoughts,
     cached |-> b.cached, thoughts |-> b.thoughts]

(* Gemini's candidates leave the reasoning out.                            *)
GeminiUsage(b) ==
    [prompt |-> b.fresh + b.cached, output |-> b.text,
     cached |-> b.cached, thoughts |-> b.thoughts]

(* Anthropic's input leaves the cached tokens out.                         *)
AnthropicUsage(b) ==
    [prompt |-> b.fresh, output |-> b.text + b.thoughts,
     cached |-> b.cached, thoughts |-> 0]

Extract(m, b) ==
    CASE Family[m] = "openai" -> OpenAIUsage(b)
      [] Family[m] = "gemini" -> GeminiUsage(b)
      [] Family[m] = "anthropic" -> AnthropicUsage(b)

ZeroUsage == [prompt |-> 0, output |-> 0, cached |-> 0, thoughts |-> 0]

(* Mutation: the endpoint copies the whole LLMUsage.                       *)
PassAllOn(usage) == IF usage = NoUsage THEN ZeroUsage ELSE usage

(* Prompt and output are all that the "done" event and the endpoint copy.  *)
PassOn(usage) ==
    IF usage = NoUsage THEN ZeroUsage
    ELSE [usage EXCEPT !.cached = 0, !.thoughts = 0]

Today == now \div HoursPerDay

ValidRows(m) ==
    {p \in PriceRows : p.model = m /\ p.from <= Today /\ (p.to = NoPrice \/ Today <= p.to)}

(* ORDER BY effective_from DESC LIMIT 1, NoPrice if there is none.         *)
PriceOf(m) ==
    IF ValidRows(m) = {} THEN NoPrice
    ELSE CHOOSE p \in ValidRows(m) : \A q \in ValidRows(m) : q.from <= p.from

(* calculate_cost.  Where the price of cached tokens is NULL or zero,      *)
(* "price or 0" is the int 0, tokens * 0 / 1_000_000 is a float, and the   *)
(* sum of a Decimal and a float raises: the cost is 0.0.                   *)
Cost(usage, p) ==
    IF p = NoPrice \/ p.cached \in {NoPrice, 0} THEN 0
    ELSE HalfEven((usage.prompt - usage.cached) * p.input + usage.cached * p.cached
                      + (usage.output + usage.thoughts) * p.output, 10000)

(* NUMERIC(10,6) rounds a tie away from zero.                              *)
Logged(cost) == (cost + Quantum \div 2) \div Quantum

Charged(c, cost) == HalfEven(Quantize(cost) * Markup[TenantOf[c]], 100)

-----------------------------------------------------------------------------
(* The "done" event carries the usage of the last chunk that had one, as   *)
(* Anthropic's last always has.                                            *)
(* Usage is logged in the background, and whoever passed the call through  *)
(* WalletGate debits it.                                                   *)
EndStream(c) ==
    LET s == call[c] IN
    /\ s.pc = "new"
    /\ \E usage \in {Extract(s.model, s.bill), NoUsage} :
           /\ Family[s.model] = "anthropic" => usage # NoUsage
           /\ Become(c, [s EXCEPT !.pc = "done", !.usage = usage,
                                  !.log.state = "due", !.debit.state = "due"])

(* calculate_cost for the log; a failed lookup costs nothing.              *)
PriceLog(c) ==
    LET s == call[c] IN
    /\ s.log.state = "due"
    /\ \E p \in {PriceOf(s.model), NoPrice} :
           Become(c, [s EXCEPT !.log.state = "priced", !.log.price = p,
                               !.log.cost = Cost(PassOn(s.usage), p)])

BeginLog(c) ==
    LET s == call[c] IN
    /\ s.log.state = "priced"
    /\ Become(c, [s EXCEPT !.log.state = "open", !.log.hour = now,
                           !.log.amount = Logged(s.log.cost)])

(* debit_after_call, for what the caller takes the call to cost.           *)
BeginDebit(c) ==
    LET s == call[c] IN
    /\ s.debit.state = "due"
    /\ \E p \in {PriceOf(s.model), NoPrice} :
           LET cost == Cost(PassOn(s.usage), p)
           IN  Become(c, [s EXCEPT !.debit = [state |-> "open", cost |-> cost, price |-> p,
                                              hour |-> now, amount |-> Charged(c, cost)]])

(* Mutation: log_usage lets an error of the database out.                  *)
StoreLogOrRaise(c) ==
    /\ call[c].log.state = "open"
    /\ \E end \in {"stored", "raised"} : Become(c, [call[c] EXCEPT !.log.state = end])

(* Errors of the database are logged and swallowed by both.                *)
StoreLog(c) ==
    /\ call[c].log.state = "open"
    /\ \/ Become(c, [call[c] EXCEPT !.log.state = "stored"])
       \/ Become(c, [call[c] EXCEPT !.log = LostRecord])

StoreDebit(c) ==
    /\ call[c].debit.state = "open"
    /\ \/ Become(c, [call[c] EXCEPT !.debit.state = "stored"])
       \/ Become(c, [call[c] EXCEPT !.debit = LostRecord])

-----------------------------------------------------------------------------
DebitsOf(t) == {c \in Calls : TenantOf[c] = t /\ call[c].debit.state = "stored"
                              /\ call[c].debit.hour = now}
LogsOf(t) == {c \in Calls : TenantOf[c] = t /\ call[c].log.state = "stored"
                            /\ call[c].log.hour = now}

TotalDebited(t) == SumFunction([c \in DebitsOf(t) |-> call[c].debit.amount])
TotalCost(t) == SumFunction([c \in LogsOf(t) |-> call[c].log.amount])

NextHour == now < LastHour /\ now' = now + 1

(* Mutation: the usage is left in dollars.                                 *)
ReconcileInDollars ==
    /\ NextHour
    /\ reported' = {t \in Tenants :
           /\ DebitsOf(t) # {} /\ LogsOf(t) # {}
           /\ Abs(TotalDebited(t) - TotalCost(t) \div 100) > Tolerance}
    /\ UNCHANGED call

(* The JOIN keeps the tenants with rows in both tables.                    *)
Reconcile ==
    /\ NextHour
    /\ reported' = {t \in Tenants :
           /\ DebitsOf(t) # {} /\ LogsOf(t) # {}
           /\ Abs(TotalDebited(t) - TotalCost(t)) > Tolerance}
    /\ UNCHANGED call

(* The query fails, or the loop is too busy at the hour.                   *)
ReconcileMissed ==
    /\ NextHour
    /\ reported' = {}
    /\ UNCHANGED call

Abandoned(record) ==
    IF record.state \in {"due", "priced", "open"} THEN LostRecord ELSE record

(* A new process counts its hours from its start; the tasks of the old one *)
(* and its open transactions are gone.                                     *)
Restart ==
    /\ NextHour
    /\ reported' = {}
    /\ call' = [c \in Calls |-> [call[c] EXCEPT
                   !.log = Abandoned(@), !.debit = Abandoned(@)]]

Next ==
    \/ \E c \in Calls :
           \/ EndStream(c) \/ PriceLog(c) \/ BeginLog(c) \/ StoreLog(c)
           \/ BeginDebit(c) \/ StoreDebit(c)
    \/ Reconcile \/ ReconcileMissed \/ Restart

Spec == Init /\ [][Next]_vars

-----------------------------------------------------------------------------
(* The vendor's own bill for a call, and the counters of it that the log   *)
(* never sees: reasoning that Gemini counts apart, and cached tokens that  *)
(* Anthropic does.                                                         *)
VendorCost(b, p) ==
    b.fresh * p.input + b.cached * p.cached + (b.text + b.thoughts) * p.output

Unseen(family, b, p) ==
    CASE family = "gemini" -> b.thoughts * p.output
      [] family = "anthropic" -> b.cached * p.cached
      [] OTHER -> 0

(* Usage that was read and priced is logged at no less than the vendor     *)
(* bills for what the log sees, and at no more than all of its prompt at   *)
(* the full price: nothing is counted twice on the way.                    *)
LoggedCoversBill ==
    \A c \in Calls :
        LET b == call[c].bill
            p == call[c].log.price
            unseen == Unseen(Family[call[c].model], b, p)
            unit == 10000 * Quantum
        IN  /\ call[c].log.state = "stored" /\ call[c].usage # NoUsage
            /\ p # NoPrice /\ p.cached \notin {NoPrice, 0}
            => /\ unit * (call[c].log.amount + 1) >= VendorCost(b, p) - unseen
               /\ unit * (call[c].log.amount - 1) <=
                      VendorCost(b, p) - unseen + b.cached * (p.input - p.cached)

LoggedIn(c, h) == call[c].log.state = "stored" /\ call[c].log.hour = h
PostedIn(c, h) == call[c].debit.state = "stored" /\ call[c].debit.hour = h

(* A tenant without a markup is reported only if there is a reason: a call *)
(* that the hour has in one of the tables only, since the other record was *)
(* lost, is not committed yet or belongs to another hour; one that was     *)
(* priced differently for the two; or so many calls that their roundings,  *)
(* a quantum apart at most for each, can exceed the tolerance.             *)
AlarmHasCause ==
    [][now' = now + 1 => \A t \in reported' : Markup[t] = 100 =>
          \/ Cardinality(DebitsOf(t)) > Tolerance
          \/ \E c \in Calls :
                 /\ TenantOf[c] = t
                 /\ \/ LoggedIn(c, now) # PostedIn(c, now)
                    \/ PostedIn(c, now) /\ call[c].log.cost # call[c].debit.cost]_vars

(* README.md:50: every LLM call is logged with its estimated cost.         *)
EveryPricedCallCosts ==
    \A c \in Calls :
        LET b == call[c].bill
            p == call[c].log.price
        IN  /\ call[c].log.state = "stored" /\ call[c].usage # NoUsage /\ p # NoPrice
            /\ b.fresh * p.input + b.text * p.output >= 10000 * Quantum
            => call[c].log.amount > 0
=============================================================================
