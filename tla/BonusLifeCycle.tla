--------------------------- MODULE BonusLifeCycle ---------------------------
(***************************************************************************)
(* What the bonus engine promises, without its repository calls: a bonus   *)
(* is awarded active, its progress only grows while it is active, it       *)
(* leaves that status once and for good, and a one-time rule is claimed    *)
(* once by an account.                                                     *)
(***************************************************************************)
EXTENDS Integers, Sequences

CONSTANTS Accounts, RuleIds, OneTimeRules, OpeningRows

VARIABLE rows

Claimed(a, rule) ==
  \E i \in DOMAIN rows : rows[i].account = a /\ rows[i].rule = rule

Init == rows = OpeningRows

Award(a, rule, amount, required) ==
  /\ rule \in OneTimeRules => ~Claimed(a, rule)
  /\ rows' = Append(rows,
       [account |-> a, rule |-> rule, amount |-> amount,
        required |-> required, progress |-> 0, status |-> "active"])

Wager(i, contribution) ==
  /\ rows[i].status = "active"
  /\ contribution > 0
  /\ LET progress == rows[i].progress + contribution IN
     rows' = [rows EXCEPT ![i] =
       [account |-> @.account, rule |-> @.rule, amount |-> @.amount,
        required |-> @.required, progress |-> progress,
        status |-> IF progress >= @.required THEN "completed" ELSE "active"]]

Close(i, status) ==
  /\ rows[i].status = "active"
  /\ rows' = [rows EXCEPT ![i].status = status]

\* The quantified amounts are read off the step, so that TLC need not guess.
Next ==
  \/ LET new == rows'[Len(rows')] IN
     /\ Len(rows') = Len(rows) + 1
     /\ new.account \in Accounts
     /\ new.rule \in RuleIds
     /\ Award(new.account, new.rule, new.amount, new.required)
  \/ \E i \in DOMAIN rows :
       \/ Len(rows') = Len(rows) /\ Wager(i, rows'[i].progress - rows[i].progress)
       \/ \E status \in {"expired", "forfeited"} : Close(i, status)

Spec == Init /\ [][Next]_rows
=============================================================================
