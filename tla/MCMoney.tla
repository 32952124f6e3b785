------------------------------ MODULE MCMoney ------------------------------
(***************************************************************************)
(* Rates, Analytics and Spend for TLC in one run.  The rates move, or one  *)
(* question is asked of Analytics or Spend: `asked` is its input.  To keep *)
(* the state space their sum, rates stand still while a question is asked. *)
(***************************************************************************)
EXTENDS Rates, Money, SequencesExt, TLC

\* Two services of one or two accounts.  Due: never, yesterday, today, in seven
\* days and a half, in eight days, at the horizon.
Dues == {None, -1, 0, 15, 16, 29}
Bills(accounts, projects, costs, currencies, periods) ==
    [account : accounts, project : projects, cost : costs, currency : currencies, period : periods, due : Dues]
AskPortfolio ==
    \E a \in [balance : {None, 0, 4}, currency : {"RUB", "USD"}, isPostpaid : BOOLEAN],
       s \in Bills({"a"}, {"p"}, {2, 4}, {"RUB", "USD"}, {"monthly"}),
       t \in Bills({"a", "b"}, {"p", "q"}, {2}, {"USD"}, {"monthly", "daily"}), usd \in {0, 2}, base \in {"RUB", "USD"} :
        Ask([about |-> "portfolio", accounts |-> [a |-> a, b |-> [balance |-> 2, currency |-> "RUB", isPostpaid |-> FALSE]],
             services |-> <<s, t>>, rates |-> [RUB |-> 1, USD |-> usd], base |-> base, clock |-> 1])

\* Two payments and a service; a window of one month back and two ahead.
Payments == [account : {"a", "b"}, type : {"topup", "charge"}, amount : {1}, day : {-8, -2, 0, 3, 5}]
AskLedger ==
    \E x, y \in Payments, created \in {-8, 0}, period \in {"monthly", "daily", "quarterly", "yearly", "onetime"},
       due \in {-3, 4, 7}, b \in {<<FALSE, FALSE, FALSE>>, <<TRUE, TRUE, FALSE>>, <<TRUE, FALSE, TRUE>>} :
        Ask([about |-> "ledger", payments |-> <<x, y>>, monthsBack |-> 1, months |-> 2,
             services |-> <<[account |-> "a", cost |-> 3, created |-> created, period |-> period, due |-> due]>>,
             backfill |-> b[1], respectCreatedAt |-> b[1] /\ b[2], backdate |-> b[1] /\ b[2], force |-> b[3]])

\* Three snapshots from before the window to after it; or charges of two currencies.
Times    == {t \in [1..3 -> {-1, 0, 1, 3, 6}] : t[1] <= t[2] /\ t[2] <= t[3]}
Falls    == {[n \in 1..3 |-> [at |-> t[n], balance |-> b[n], currency |-> 1]] : t \in Times, b \in [1..3 -> {0, 3, 6}]}
Steady   == [n \in 1..2 |-> [at |-> 3 * n, balance |-> 6 - 3 * n, currency |-> 1]]
Charges(amount) == [at : {-1, 0, 5}, amount : {amount}, currency : {1, 2}]
Account(snapshots, charges, first, currency, postpaid, dated) ==
    [about |-> "account", snapshots |-> snapshots, charges |-> charges, firstChargeAt |-> first, days |-> 3,
     currency |-> currency, isPostpaid |-> postpaid, balance |-> Last(snapshots).balance, dated |-> dated, monthly |-> 3]
AskAccount ==
    \/ \E f \in Falls, b \in {<<FALSE, FALSE>>, <<TRUE, FALSE>>, <<FALSE, TRUE>>} : Ask(Account(f, <<>>, None, 1, b[1], b[2]))
    \/ \E c \in Charges(1), d \in Charges(2), e \in Charges(4), first \in {-4, -1}, currency \in {None, 1} :
          Ask(Account(Steady, <<c, d, e>>, first, currency, FALSE, FALSE))

MCInit == Init /\ MoneyInit
MCNext ==
    \/ asked = Nothing /\ Next /\ UNCHANGED asked
    \/ asked = Nothing /\ Init /\ (AskPortfolio \/ AskLedger \/ AskAccount) /\ UNCHANGED vars
    \/ asked # Nothing /\ UNCHANGED <<vars, asked>>
MCSpec == MCInit /\ [][MCNext]_<<vars, asked>>

\* Of the history only the days excused and still missing matter, now and later: the
\* archive does not shrink, and DowntimeIsFilled asks for nothing else.
View == <<asked, source, live, archive, today, up, dailyDone, call, (lost \cup masked) \ archive[USDT]>>
=============================================================================
