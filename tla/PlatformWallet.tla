--------------------------- MODULE PlatformWallet ---------------------------
(***************************************************************************)
(* The company's own withdrawals: PlatformWalletService and the codes of   *)
(* WithdrawalCodeService (platform-wallet/).  The commissions earned are   *)
(* withdrawn by a SuperAdmin, each time with a code received by e-mail.    *)
(* No balance is stored: it is summed again behind an advisory lock of the *)
(* currency, in a transaction whose statements each see the rows of their  *)
(* own moment.                                                             *)
(***************************************************************************)
EXTENDS Integers, FiniteSets, Sequences

CONSTANTS
    Withdrawals,  \* rows of platform_withdrawals
    Calls,        \* concurrent requests of the SuperAdmin
    Currencies,
    Salaries,     \* one salary of one person for one month
    Unpaid,       \* the motif of a withdrawal that pays no salary
    Free,         \* nobody holds the lock
    NoSheet,      \* no pay sheet yet
    Amounts,
    MaxEarned,    \* bound: commissions of one currency
    MaxCodes,     \* bound: codes asked for
    MaxAttempts,  \* WITHDRAWAL_CODE_MAX_ATTEMPTS
    StaffChecks   \* does the SuperAdmin close by what the merchant account shows?

ASSUME PlatformAssumption ==
    /\ IsFiniteSet(Withdrawals)
    /\ Amounts \subseteq Nat \ {0} /\ MaxEarned \in Nat
    /\ \A amount \in Amounts : amount <= MaxEarned
    /\ MaxCodes \in Nat /\ MaxAttempts \in Nat \ {0}
    /\ Unpaid \notin Salaries /\ Free \notin Calls /\ NoSheet \notin Currencies
    /\ StaffChecks \in BOOLEAN

VARIABLES
    manual,     \* isManualTransfer: no operator is plugged in
    earned,     \* commissions of finished services, per currency
    sheet,      \* the currency of the pay sheet a salary comes from, once it is made
    codes,      \* the WITHDRAWAL rows of otp_codes of the SuperAdmin, the oldest first
    withdrawal,
    transfer,   \* what became of the money at the operator or the merchant account
    lock,       \* pg_advisory_xact_lock, per currency
    call,
    missed,     \* history: closed as paid between the two sums of a balance, so counted in neither
    moved       \* history: the salaries whose pay sheet, once made, changed its currency

vars == <<manual, earned, sheet, codes, withdrawal, transfer, lock, call, missed, moved>>
moneyVars == <<manual, earned, sheet, transfer, missed, moved>>

-----------------------------------------------------------------------------
Motifs == Salaries \cup {Unpaid}
CodeStatus == {"PENDING", "VERIFIED", "EXPIRED"}
\* A code is valid while it is PENDING and its ten minutes last.
Code == [cur : Currencies, amount : Amounts, status : CodeStatus, valid : BOOLEAN,
         attempts : 0..MaxAttempts]
Absent == [status |-> "ABSENT"]
Withdrawal == [status : {"PROCESSING", "PAID", "FAILED"}, cur : Currencies, amount : Amounts,
               motif : Motifs, code : 1..MaxCodes]
Idle == [at |-> "idle"]
\* A request at its statements, with what it has read by then.
Confirming == {"count", "burn", "use", "lock", "sumPaid"}
Allowing == {"sumProcessing", "salary", "create"}
HasCode == Confirming \cup Allowing \cup {"mail"}
Request ==
    {Idle}
    \cup [at : {"expire", "issue"}, cur : Currencies, amount : Amounts]
    \cup [at : {"mail"}, code : 1..MaxCodes]
    \cup [at : {"read"}, cur : Currencies, amount : Amounts, motif : Motifs]
    \cup [at : Confirming, cur : Currencies, amount : Amounts, motif : Motifs, code : 1..MaxCodes,
          last : BOOLEAN]
    \cup [at : Allowing, cur : Currencies, amount : Amounts, motif : Motifs, code : 1..MaxCodes, left : Int]
    \cup [at : {"disburse", "closePaid", "closeFailed"}, w : Withdrawals]

Init ==
    /\ manual \in BOOLEAN
    /\ earned = [cur \in Currencies |-> 0]
    /\ sheet = [salary \in Salaries |-> NoSheet]
    /\ codes = <<>>
    /\ withdrawal = [w \in Withdrawals |-> Absent]
    /\ transfer = [w \in Withdrawals |-> "NONE"]
    /\ lock = [cur \in Currencies |-> Free]
    /\ call = [c \in Calls |-> Idle]
    /\ missed = {} /\ moved = {}

At(c, where) == call[c].at = where
Goes(c, where) == call' = [call EXCEPT ![c].at = where]
Return(c) == call' = [call EXCEPT ![c] = Idle]

\* The money of a currency in withdrawals of these statuses, one by one.
Money(cur, statuses) ==
    {unit \in Withdrawals \X (1..MaxEarned) :
        LET row == withdrawal[unit[1]] IN
        row.status \in statuses /\ row.cur = cur /\ unit[2] <= row.amount}
Total(cur, statuses) == Cardinality(Money(cur, statuses))
Open == {"PROCESSING", "PAID"}

SalaryIsOut(motif) ==
    \E w \in Withdrawals : withdrawal[w].status \in Open /\ withdrawal[w].motif = motif

-----------------------------------------------------------------------------
(* requestCode: the code that will confirm one withdrawal.                  *)

\* What it checks before sending (beneficiary, motif, balance) changes nothing.
RequestCode(c, cur, amount) ==
    /\ At(c, "idle") /\ Len(codes) < MaxCodes
    /\ call' = [call EXCEPT ![c] = [at |-> "expire", cur |-> cur, amount |-> amount]]
    /\ UNCHANGED <<moneyVars, codes, withdrawal, lock>>

Used(k, status) == [codes[k] EXCEPT !.status = status, !.valid = FALSE]

ExpireFormer(c) ==
    /\ At(c, "expire")
    /\ codes' = [k \in DOMAIN codes |->
                    IF codes[k].status = "PENDING" THEN Used(k, "EXPIRED") ELSE codes[k]]
    /\ Goes(c, "issue")
    /\ UNCHANGED <<moneyVars, withdrawal, lock>>

IssueCode(c) ==
    /\ At(c, "issue") /\ Len(codes) < MaxCodes
    /\ codes' = Append(codes, [cur |-> call[c].cur, amount |-> call[c].amount,
                               status |-> "PENDING", valid |-> TRUE, attempts |-> 0])
    /\ call' = [call EXCEPT ![c] = [at |-> "mail", code |-> Len(codes) + 1]]
    /\ UNCHANGED <<moneyVars, withdrawal, lock>>

MailSent(c) ==
    /\ At(c, "mail")
    /\ Return(c)
    /\ UNCHANGED <<moneyVars, codes, withdrawal, lock>>

\* The row is deleted, used meanwhile or not: no statement tells it from an expired one.
MailFails(c) ==
    /\ At(c, "mail")
    /\ codes' = [codes EXCEPT ![call[c].code] = Used(call[c].code, "EXPIRED")]
    /\ Return(c)
    /\ UNCHANGED <<moneyVars, withdrawal, lock>>

\* Ten minutes; a request that has read the code goes on with it.
CodeExpires(k) ==
    /\ k \in DOMAIN codes /\ codes[k].status = "PENDING" /\ codes[k].valid
    /\ codes' = [codes EXCEPT ![k].valid = FALSE]
    /\ UNCHANGED <<moneyVars, withdrawal, lock, call>>

-----------------------------------------------------------------------------
(* withdraw: the motif is checked, then the code is consumed.               *)

Withdraw(c, cur, amount, motif) ==
    /\ At(c, "idle")
    /\ motif # Unpaid => sheet[motif] = cur /\ ~SalaryIsOut(motif)
    /\ call' = [call EXCEPT ![c] = [at |-> "read", cur |-> cur, amount |-> amount, motif |-> motif]]
    /\ UNCHANGED <<moneyVars, codes, withdrawal, lock>>

Matches(c) ==
    {k \in DOMAIN codes : codes[k].status = "PENDING" /\ codes[k].valid
                          /\ codes[k].cur = call[c].cur /\ codes[k].amount = call[c].amount}

ReadCode(c) ==
    /\ At(c, "read")
    /\ IF Matches(c) = {} THEN Return(c)
       ELSE \E k \in Matches(c) :
               /\ \A j \in Matches(c) : j <= k
               /\ call' = [call EXCEPT ![c] =
                    [at |-> "count", cur |-> @.cur, amount |-> @.amount, motif |-> @.motif,
                     code |-> k, last |-> codes[k].attempts + 1 >= MaxAttempts]]
    /\ UNCHANGED <<moneyVars, codes, withdrawal, lock>>

\* Mutant: the limit is the one that was read with the row.
CountUnclaimed(c) ==
    /\ At(c, "count")
    /\ codes' = [codes EXCEPT ![call[c].code].attempts = @ + 1]
    /\ Goes(c, "use") \/ Goes(c, "burn")
    /\ UNCHANGED <<moneyVars, withdrawal, lock>>

\* The attempt is claimed before the comparison: the code is the right one, or it is not.
CountAttempt(c) ==
    LET k == call[c].code IN
    /\ At(c, "count")
    /\ IF codes[k].status = "PENDING" /\ codes[k].attempts < MaxAttempts
       THEN /\ codes' = [codes EXCEPT ![k].attempts = @ + 1]
            /\ Goes(c, "use") \/ IF call[c].last THEN Goes(c, "burn") ELSE Return(c)
       ELSE UNCHANGED codes /\ Goes(c, "burn")
    /\ UNCHANGED <<moneyVars, withdrawal, lock>>

BurnCode(c) ==
    LET k == call[c].code IN
    /\ At(c, "burn")
    /\ codes' = IF codes[k].status = "PENDING" THEN [codes EXCEPT ![k] = Used(k, "EXPIRED")] ELSE codes
    /\ Return(c)
    /\ UNCHANGED <<moneyVars, withdrawal, lock>>

UseCode(c) ==
    LET k == call[c].code IN
    /\ At(c, "use")
    /\ IF codes[k].status = "PENDING"
       THEN codes' = [codes EXCEPT ![k] = Used(k, "VERIFIED")] /\ Goes(c, "lock")
       ELSE UNCHANGED codes /\ Return(c)
    /\ UNCHANGED <<moneyVars, withdrawal, lock>>

-----------------------------------------------------------------------------
(* withdraw: the transaction behind the lock of the currency.               *)

\* Mutant: no lock.
SkipLock(c) ==
    /\ At(c, "lock")
    /\ Goes(c, "sumPaid")
    /\ UNCHANGED <<moneyVars, codes, withdrawal, lock>>

TakeLock(c) ==
    /\ At(c, "lock") /\ lock[call[c].cur] = Free
    /\ lock' = [lock EXCEPT ![call[c].cur] = c]
    /\ Goes(c, "sumPaid")
    /\ UNCHANGED <<moneyVars, codes, withdrawal>>

Leave(c, locks) == [cur \in Currencies |-> IF locks[cur] = c THEN Free ELSE locks[cur]]

\* computeBalance: what was earned and paid by now ...
SumPaid(c) ==
    /\ At(c, "sumPaid")
    /\ call' = [call EXCEPT ![c] =
         [at |-> "sumProcessing", cur |-> @.cur, amount |-> @.amount, motif |-> @.motif, code |-> @.code,
          left |-> earned[@.cur] - Total(@.cur, {"PAID"})]]
    /\ UNCHANGED <<moneyVars, codes, withdrawal, lock>>

\* ... and, by a statement of its own, what is on its way.
SumProcessing(c) ==
    LET available == call[c].left - Total(call[c].cur, {"PROCESSING"}) IN
    /\ At(c, "sumProcessing")
    /\ IF call[c].amount > available
       THEN Return(c) /\ lock' = Leave(c, lock)
       ELSE UNCHANGED lock /\ Goes(c, IF call[c].motif = Unpaid THEN "create" ELSE "salary")
    /\ UNCHANGED <<moneyVars, codes, withdrawal>>

\* Mutant: what was checked before the code is not checked again.
TrustFormerCheck(c) ==
    /\ At(c, "salary")
    /\ Goes(c, "create")
    /\ UNCHANGED <<moneyVars, codes, withdrawal, lock>>

AssertSalaryNotPaid(c) ==
    /\ At(c, "salary")
    /\ IF SalaryIsOut(call[c].motif)
       THEN Return(c) /\ lock' = Leave(c, lock)
       ELSE UNCHANGED lock /\ Goes(c, "create")
    /\ UNCHANGED <<moneyVars, codes, withdrawal>>

\* The commit.
Create(c, w) ==
    /\ At(c, "create") /\ withdrawal[w].status = "ABSENT"
    /\ withdrawal' = [withdrawal EXCEPT ![w] =
         [status |-> "PROCESSING", cur |-> call[c].cur, amount |-> call[c].amount,
          motif |-> call[c].motif, code |-> call[c].code]]
    /\ lock' = Leave(c, lock)
    /\ call' = [call EXCEPT ![c] = IF manual THEN Idle ELSE [at |-> "disburse", w |-> w]]
    /\ UNCHANGED <<moneyVars, codes>>

-----------------------------------------------------------------------------
(* The operator, and the closing of a withdrawal                            *)

Operated == <<manual, earned, sheet, codes, lock, missed, moved>>

DisburseAnswered(c) ==
    /\ At(c, "disburse")
    /\ \E answer \in {"PAID", "REFUSED", "ACCEPTED"} :
          /\ transfer' = [transfer EXCEPT ![call[c].w] = answer]
          /\ CASE answer = "PAID"     -> Goes(c, "closePaid")
               [] answer = "REFUSED"  -> Goes(c, "closeFailed")
               [] answer = "ACCEPTED" -> Return(c)
    /\ UNCHANGED <<Operated, withdrawal>>

\* Mutant: no answer is taken for a refusal.
SilenceIsRefusal(c) ==
    /\ At(c, "disburse")
    /\ \E fact \in {"NONE", "ACCEPTED", "PAID"} : transfer' = [transfer EXCEPT ![call[c].w] = fact]
    /\ Goes(c, "closeFailed")
    /\ UNCHANGED <<Operated, withdrawal>>

\* Network cut, delay passed: the money may have gone; nothing is closed.
DisburseUnknown(c) ==
    /\ At(c, "disburse")
    /\ \E fact \in {"NONE", "ACCEPTED", "PAID"} : transfer' = [transfer EXCEPT ![call[c].w] = fact]
    /\ Return(c)
    /\ UNCHANGED <<Operated, withdrawal>>

OperatorDecides(w) ==
    /\ transfer[w] = "ACCEPTED"
    /\ \E end \in {"PAID", "REFUSED"} : transfer' = [transfer EXCEPT ![w] = end]
    /\ UNCHANGED <<Operated, withdrawal, call>>

\* The transfer made by hand from the merchant account.
TransferByHand(w) ==
    /\ manual /\ withdrawal[w].status = "PROCESSING" /\ transfer[w] = "NONE"
    /\ transfer' = [transfer EXCEPT ![w] = "PAID"]
    /\ UNCHANGED <<Operated, withdrawal, call>>

BetweenSums(w) == \E c \in Calls : At(c, "sumProcessing") /\ call[c].cur = withdrawal[w].cur

\* Only a withdrawal in progress is closed; this statement knows nothing of the lock.
Close(w, status) ==
    IF withdrawal[w].status = "PROCESSING"
    THEN /\ withdrawal' = [withdrawal EXCEPT ![w].status = status]
         /\ missed' = IF status = "PAID" /\ BetweenSums(w) THEN missed \cup {w} ELSE missed
    ELSE UNCHANGED <<withdrawal, missed>>

Beside == <<manual, earned, sheet, moved, transfer, codes, lock>>

CloseAsPaid(c) ==
    /\ At(c, "closePaid") /\ Close(call[c].w, "PAID")
    /\ Return(c)
    /\ UNCHANGED Beside

CloseAsFailed(c) ==
    /\ At(c, "closeFailed") /\ Close(call[c].w, "FAILED")
    /\ Return(c)
    /\ UNCHANGED Beside

MarkPaid(w) ==
    /\ withdrawal[w].status # "ABSENT"
    /\ StaffChecks => transfer[w] = "PAID"
    /\ Close(w, "PAID")
    /\ UNCHANGED <<Beside, call>>

\* A SuperAdmin who checks does so once the request that sends is over.
MarkFailed(w) ==
    /\ withdrawal[w].status # "ABSENT"
    /\ StaffChecks => /\ transfer[w] \in {"NONE", "REFUSED"}
                      /\ \A c \in Calls : ~(At(c, "disburse") /\ call[c].w = w)
    /\ Close(w, "FAILED")
    /\ UNCHANGED <<Beside, call>>

-----------------------------------------------------------------------------
(* What else happens                                                        *)

\* releaseHeldFunds: the commission of a finished service. It is never taken back.
Earn(cur) ==
    /\ earned[cur] < MaxEarned
    /\ earned' = [earned EXCEPT ![cur] = @ + 1]
    /\ UNCHANGED <<manual, sheet, codes, withdrawal, transfer, lock, call, missed, moved>>

\* upsertPayProfile: made, then edited.
EditSheet(salary, cur) ==
    /\ sheet' = [sheet EXCEPT ![salary] = cur]
    /\ moved' = IF sheet[salary] \in {NoSheet, cur} THEN moved ELSE moved \cup {salary}
    /\ UNCHANGED <<manual, earned, codes, withdrawal, transfer, lock, call, missed>>

\* The process stops, or a transaction outlives its delay: what was not committed is undone.
Die(c) ==
    /\ ~At(c, "idle")
    /\ lock' = Leave(c, lock)
    /\ Return(c)
    /\ UNCHANGED <<moneyVars, codes, withdrawal>>

Next ==
    \/ \E c \in Calls :
          \/ \E cur \in Currencies, amount \in Amounts :
                \/ RequestCode(c, cur, amount)
                \/ \E motif \in Motifs : Withdraw(c, cur, amount, motif)
          \/ ExpireFormer(c) \/ IssueCode(c) \/ MailSent(c) \/ MailFails(c)
          \/ ReadCode(c) \/ CountAttempt(c) \/ BurnCode(c) \/ UseCode(c)
          \/ TakeLock(c) \/ SumPaid(c) \/ SumProcessing(c) \/ AssertSalaryNotPaid(c)
          \/ \E w \in Withdrawals : Create(c, w)
          \/ DisburseAnswered(c) \/ DisburseUnknown(c) \/ CloseAsPaid(c) \/ CloseAsFailed(c)
          \/ Die(c)
    \/ \E w \in Withdrawals :
          OperatorDecides(w) \/ TransferByHand(w) \/ MarkPaid(w) \/ MarkFailed(w)
    \/ \E k \in 1..MaxCodes : CodeExpires(k)
    \/ \E cur \in Currencies : Earn(cur) \/ \E salary \in Salaries : EditSheet(salary, cur)

Spec == Init /\ [][Next]_vars

-----------------------------------------------------------------------------
\* Types: above all, no code takes more attempts than it may.
TypeOK ==
    /\ manual \in BOOLEAN
    /\ earned \in [Currencies -> 0..MaxEarned]
    /\ sheet \in [Salaries -> Currencies \cup {NoSheet}]
    /\ codes \in Seq(Code) /\ Len(codes) <= MaxCodes
    /\ withdrawal \in [Withdrawals -> Withdrawal \cup {Absent}]
    /\ transfer \in [Withdrawals -> {"NONE", "ACCEPTED", "PAID", "REFUSED"}]
    /\ lock \in [Currencies -> Calls \cup {Free}]
    /\ call \in [Calls -> Request]
    /\ \A c \in Calls : call[c].at \in HasCode => call[c].code \in DOMAIN codes
    /\ missed \subseteq Withdrawals /\ moved \subseteq Salaries

\* What is out of a currency passes what was earned by no more than the withdrawals closed as
\* paid between the two sums of a balance, which counts them in neither: however many requests
\* are made at once, and whoever closes meanwhile, nothing else is spent twice.
Seen(cur, statuses) == {unit \in Money(cur, statuses) : unit[1] \notin missed}
CountedIsEarned == \A cur \in Currencies : Cardinality(Seen(cur, Open)) <= earned[cur]

\* "Two simultaneous withdrawals cannot overdraw" (platform-wallet.service.ts:314-315): they
\* can, by what was closed between the two sums (MCPlatformWallet_overdrawn.cfg).
NeverOverdrawn == \A cur \in Currencies : Total(cur, Open) <= earned[cur]

PaySameSalary(w, v) ==
    /\ withdrawal[w].status \in Open /\ withdrawal[v].status \in Open
    /\ withdrawal[w].motif = withdrawal[v].motif /\ withdrawal[w].motif # Unpaid

\* Two requests for one salary, each with its code, do not both pass: never in one currency, and
\* in two only after its pay sheet went from the one to the other, for the lock is the currency's.
SalaryOncePerSheet ==
    \A w, v \in Withdrawals : PaySameSalary(w, v) /\ w # v =>
        withdrawal[w].cur # withdrawal[v].cur /\ withdrawal[w].motif \in moved

\* A salary is out once, which its currency's lock does not see to when the pay sheet moves
\* (MCPlatformWallet_moved.cfg).
SalaryOnce == \A w, v \in Withdrawals : PaySameSalary(w, v) => w = v

\* Each withdrawal was confirmed by a code of its own, asked for this currency and amount.
CodeOfItsOwn ==
    /\ \A w \in Withdrawals : withdrawal[w] # Absent =>
          /\ codes[withdrawal[w].code].cur = withdrawal[w].cur
          /\ codes[withdrawal[w].code].amount = withdrawal[w].amount
    /\ \A w, v \in Withdrawals :
          withdrawal[w] # Absent /\ withdrawal[v] # Absent /\ withdrawal[w].code = withdrawal[v].code => w = v

\* What the books say is what happened to the money: a timeout is not taken for a refusal, and
\* the money of a withdrawal that may have gone is not made available again.
BooksAreTrue ==
    \A w \in Withdrawals :
        /\ withdrawal[w].status = "PAID" => transfer[w] = "PAID"
        /\ withdrawal[w].status = "FAILED" => transfer[w] \in {"NONE", "REFUSED"}

\* A closed withdrawal stays as it was closed, and keeps its motif, amount and code.
ClosedIsFinal ==
    [][\A w \in Withdrawals : withdrawal[w].status \in {"PAID", "FAILED"} => withdrawal'[w] = withdrawal[w]]_vars
=============================================================================
