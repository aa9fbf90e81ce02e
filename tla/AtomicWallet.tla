---------------------------- MODULE AtomicWallet ----------------------------
(***************************************************************************)
(* What the wallet promises its callers, with no database, no handlers and *)
(* no failures: a request moves money in one step, computed from the funds *)
(* of that very moment, and a request key of an account moves money at     *)
(* most once.  Wallet.tla is shown to implement this specification.        *)
(***************************************************************************)
EXTENDS Integers

CONSTANTS
  Requests,     \* the requests clients may send: [op, account, key, amount]
  OpeningRows,  \* the account rows the system may start from
  Accounts,
  MaxInt        \* the largest amount of money an account can hold

VARIABLES
  funds,        \* per account: real balance, bonus balance and status
  settled       \* the <<account, key>> pairs that have moved money

vars == <<funds, settled>>

TxId(r) == <<r.account, r.key>>

\* Real money pays only for what the bonus does not cover.
Moved(f, r) ==
  LET fromBonus == IF f.bonus < r.amount THEN f.bonus ELSE r.amount
  IN  IF r.op = "bet"
      THEN [balance |-> f.balance - (r.amount - fromBonus),
            bonus   |-> f.bonus - fromBonus,
            status  |-> f.status]
      ELSE IF r.op = "withdraw"
      THEN [f EXCEPT !.balance = @ - r.amount]
      ELSE [f EXCEPT !.balance = @ + r.amount]

Covered(f, r) ==
  /\ r.amount > 0
  /\ r.op # "win" => f.status = "active"
  /\ Moved(f, r).balance \in 0..MaxInt

Init ==
  /\ \E rows \in [Accounts -> OpeningRows] :
       funds = [a \in Accounts |->
                 [balance |-> rows[a].balance, bonus |-> rows[a].bonus,
                  status  |-> rows[a].status]]
  /\ settled = {}

Settle(r) ==
  /\ TxId(r) \notin settled
  /\ Covered(funds[r.account], r)
  /\ funds' = [funds EXCEPT ![r.account] = Moved(@, r)]
  /\ settled' = settled \union {TxId(r)}

Next == \E r \in Requests : Settle(r)

Spec == Init /\ [][Next]_vars
=============================================================================
