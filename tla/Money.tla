------------------------------- MODULE Money -------------------------------
(***************************************************************************)
(* The questions the dashboard asks (analytics.controller.ts): each is     *)
(* answered by the operators of Analytics or Spend from what the tables    *)
(* hold at that time, `asked`.                                             *)
(***************************************************************************)
EXTENDS Integers, Sequences

CONSTANT None   \* no date, no balance
VARIABLE asked

ASSUME NoneAssumption == None \notin Int

A == INSTANCE Analytics

Nothing == [about |-> "nothing"]

\* What the columns of the tables hold: a period of the schema, a date or none, a
\* currency, whole amounts; a rate is positive, or 0 when it is not known; snapshots
\* are in the order they were taken.
IsSeq(s) == s \in Seq({s[i] : i \in DOMAIN s})
IsPortfolio(p) ==
    /\ {"accounts", "services", "rates", "base", "clock"} \subseteq DOMAIN p
    /\ p.clock \in Nat /\ IsSeq(p.services)
    /\ p.base \in DOMAIN p.rates /\ p.rates \in [DOMAIN p.rates -> Nat]
    /\ \A i \in DOMAIN p.services :
          LET s == p.services[i]
          IN  /\ s.account \in DOMAIN p.accounts /\ s.cost \in Int /\ s.currency \in DOMAIN p.rates
              /\ s.due \in Int \cup {None} /\ s.period \in DOMAIN A!MonthlyFactor
    /\ \A a \in DOMAIN p.accounts :
          LET x == p.accounts[a]
          IN  x = [balance |-> x.balance, currency |-> x.currency, isPostpaid |-> x.isPostpaid]
              /\ x.balance \in Int \cup {None} /\ x.currency \in DOMAIN p.rates /\ x.isPostpaid \in BOOLEAN
IsLedger(l) ==
    /\ l.monthsBack \in Nat /\ l.months \in Nat /\ IsSeq(l.payments)
    /\ \A i \in DOMAIN l.payments : l.payments[i].amount \in Int /\ l.payments[i].day \in Int
    /\ \A i \in DOMAIN l.services : l.services[i].cost \in Int /\ l.services[i].due \in Int
IsAccount(x) ==
    /\ {"charges", "snapshots", "days", "currency", "firstChargeAt", "isPostpaid", "dated", "balance", "monthly"} \subseteq DOMAIN x
    /\ x.days \in Nat /\ IsSeq(x.charges) /\ IsSeq(x.snapshots)
    /\ {x.currency, x.firstChargeAt, x.balance} \subseteq Int \cup {None} /\ x.monthly \in Int
    /\ \A c \in DOMAIN x.charges :
          x.charges[c].at \in Int /\ x.charges[c].amount \in Int /\ x.charges[c].currency \in Int
    /\ \A n \in DOMAIN x.snapshots : x.snapshots[n].at \in Int /\ x.snapshots[n].balance \in Int
    /\ \A m, n \in DOMAIN x.snapshots : m < n => x.snapshots[m].at <= x.snapshots[n].at

IsQuestion(q) ==
    /\ q.about = "portfolio" => IsPortfolio(q)
    /\ q.about = "ledger" => IsLedger(q)
    /\ q.about = "account" => IsAccount(q)

MoneyInit == asked = Nothing
Ask(q) == asked = Nothing /\ IsQuestion(q) /\ asked' = q
MoneyNext == \E q : Ask(q)
MoneySpec == MoneyInit /\ [][MoneyNext]_asked

----------------------------------------------------------------------------
(* What must hold of the answers, each property of its own questions.      *)

\* The lists ahead and overdue part the dated services, and the breakdowns add up
\* (Analytics!PartitionHolds).
ListsPartition == asked.about = "portfolio" => A!PartitionHolds(asked)

\* The top-ups suggested are what is missing (Analytics!TopUpSuffices).
TopUpsSuffice == asked.about = "portfolio" => A!TopUpSuffices(asked)

\* The chart, the cards and the charges to come agree (Analytics!ChartAgrees).
ChartAgrees == asked.about = "ledger" => A!ChartAgrees(asked)

\* Daily spend loses and doubles nothing, and a balance about to end is listed
\* (Spend!SpendConserved, Spend!RunwayWarns).
SpendConserved == asked.about = "account" => A!SpendConserved(asked) /\ A!RunwayWarns(asked)
=============================================================================
