-------------------------- MODULE ConnectorScripts --------------------------
(***************************************************************************)
(* What each connector asks its provider, in order.  A connector method is *)
(* a sequence of requests; a request says how it is paged, what its        *)
(* failure does to the method, and which rows it turns into services or    *)
(* payments.  Requests the code issues together (Promise.all) stand one    *)
(* after the other: they only read, and the first failure rejects either   *)
(* way.  Where a failure does not reject, the order is one the answers can *)
(* arrive in.                                                              *)
(***************************************************************************)
LOCAL INSTANCE Naturals
LOCAL INSTANCE Sequences

\* The length in hours of the terms providers bill by; money.ts counts 730
\* hours to a month and 730/24 days.
TermHours == [hour |-> 1, halfday |-> 12, day |-> 24, week |-> 168, month |-> 730, quarter |-> 2190,
              halfyear |-> 4380, year |-> 8760, twoyears |-> 17520, threeyears |-> 26280]

\* monthlyCost: the periods of the domain model, by their length in hours.
PeriodHours == [hourly |-> 1, daily |-> 24, monthly |-> 730, quarterly |-> 2190, yearly |-> 8760]

\* A term read as a period, the price multiplied by num / den on the way.
As(period, num, den) == [period |-> period, num |-> num, den |-> den]
Kept(period)         == As(period, 1, 1)

(***************************************************************************)
(* Rows.  `ns` is what the code puts before the provider's id to form the  *)
(* external id (Uuid: ids the provider keeps unique across its lists;      *)
(* Bare: the provider's id as it is), `drops` whether rows the provider    *)
(* reports as ended (or payments not settled) are left out, `byDay`        *)
(* whether rows of one day fold into one payment, `terms` how billing      *)
(* terms become periods.                                                   *)
(***************************************************************************)
Row(ns, drops, terms) == [ns |-> ns, drops |-> drops, byDay |-> FALSE, terms |-> terms]
PerDay(ns)            == [ns |-> ns, drops |-> FALSE, byDay |-> TRUE, terms |-> <<>>]
Uuid     == "uuid"
Bare     == ""
Monthly  == [month |-> Kept("monthly")]
Yearly   == [year |-> Kept("yearly")]
Unpriced == <<>>

(***************************************************************************)
(* Requests.  paging: how the next page is decided (see Connectors.More);  *)
(* capped: stops at MAX_PAGES; fails: what a failure does (see             *)
(* Connectors.Fails); needs: requests without whose answer this one is not *)
(* made, "rows" being anything to price; makes: the row, or Nothing for a  *)
(* request that only enriches.                                             *)
(***************************************************************************)
Nothing == [ns |-> "-", drops |-> FALSE, byDay |-> FALSE, terms |-> <<>>]
Req(name, paging, capped, fails, needs, makes) ==
    [name |-> name, paging |-> paging, capped |-> capped, fails |-> fails, needs |-> needs, makes |-> makes]
Ask(name)               == Req(name, "single", FALSE, "throw", {}, Nothing)
One(name, row)          == Req(name, "single", FALSE, "throw", {}, row)
Paged(name, how, row)   == Req(name, how, TRUE, "throw", {}, row)
Endless(name, how, row) == Req(name, how, FALSE, "throw", {}, row)
Extra(name)             == Req(name, "single", FALSE, "skip", {}, Nothing)
Priced(r)               == [r EXCEPT !.needs = @ \cup {"rows"}]
Try(name, how, row)     == Req(name, how, TRUE, "skip", {}, row)

\* A connector: how it signs in, and its three methods.
Connector(auth, account, services, payments) ==
    [auth |-> auth, account |-> account, services |-> services, payments |-> payments]
None == <<>>

----------------------------------------------------------------------------
\* Static keys, one list.
TimewebServer == Row(Bare, FALSE, Monthly)
Timeweb == Connector("key", <<Ask("finances")>>,
    <<One("servers", TimewebServer), Extra("presets"), Extra("costs")>>, None)

FourVpsServer == Row(Bare, TRUE, Monthly)
FourVps == Connector("key", <<Ask("userBalance")>>, <<One("myservers", FourVpsServer), Extra("dcFlags")>>, None)

VdsinaTerms     == [day |-> Kept("daily"), month |-> Kept("monthly"), year |-> Kept("yearly")]
VdsinaServer    == Row(Bare, TRUE, VdsinaTerms)
VdsinaOperation == Row("operation:", TRUE, <<>>)
Vdsina == Connector("key", <<Ask("balance")>>,
    <<One("server", VdsinaServer), Extra("detail"), Extra("plans")>>,
    <<One("operation", VdsinaOperation)>>)

OpenRouterModel    == Row("openrouter:", FALSE, Monthly)
OpenRouterActivity == Row("or:", FALSE, <<>>)
OpenRouter == Connector("key", <<Ask("key"), Ask("credits")>>,
    <<Ask("key"), One("activity", OpenRouterModel), Extra("text"), Extra("embeddings")>>,
    <<Ask("key"), One("activity", OpenRouterActivity), Extra("text"), Extra("embeddings")>>)

\* Static keys, paged lists.
HetznerServer == Row(Bare, FALSE, Monthly)
Hetzner == Connector("key", None, <<Endless("servers", "next", HetznerServer)>>, None)

LinodeInstance == Row(Bare, FALSE, Monthly)
LinodePayment  == Row("payment:", FALSE, <<>>)
LinodeInvoiceBare == Row("payment:", FALSE, <<>>)
LinodeInvoice  == Row("invoice:", FALSE, <<>>)
Linode == Connector("key", <<Ask("account")>>,
    <<Paged("instances", "next", LinodeInstance), Try("types", "next", Nothing), Try("regions", "next", Nothing)>>,
    <<Try("payments", "next", LinodePayment), Try("invoices", "next", LinodeInvoice)>>)

VultrInstance == Row(Bare, FALSE, Monthly)
VultrBilling  == Row("type:", FALSE, <<>>)
Vultr == Connector("key", <<Ask("account")>>,
    <<Paged("instances", "next", VultrInstance), Try("plans", "next", Nothing), Try("regions", "next", Nothing)>>,
    <<Paged("history", "next", VultrBilling)>>)

NetlenServer      == Row(Bare, FALSE, Monthly)
NetlenTransaction == Row("txn:", TRUE, <<>>)
Netlen == Connector("key", <<Ask("account")>>,
    <<Paged("servers", "next", NetlenServer)>>, <<Paged("transactions", "next", NetlenTransaction)>>)

SpaceshipDomain == Row(Bare, FALSE, Unpriced)
Spaceship == Connector("key", None, <<Paged("domains", "short", SpaceshipDomain)>>, None)

PorkbunDomain == Row(Bare, TRUE, Yearly)
Porkbun == Connector("key", <<Ask("balance")>>,
    <<Endless("listAll", "short", PorkbunDomain), Priced(Extra("pricing"))>>, None)

CfDomain  == Row(Bare, FALSE, Yearly)
CfBilling == Row("cf:", TRUE, <<>>)
Cloudflare == Connector("key", None, <<Endless("domains", "next", CfDomain)>>,
    <<[Endless("history", "next", CfBilling) EXCEPT !.fails = "skip"]>>)

StormwallService == Row(Bare, FALSE, Unpriced)
Stormwall == Connector("key", None,
    <<Paged("services", "offset", StormwallService), Try("domains", "offset", Nothing)>>, None)

\* mapTerm: terms money.ts knows keep their price, the others become monthly.
AezaTerms == [hour |-> Kept("hourly"), day |-> Kept("daily"), month |-> Kept("monthly"),
              quarter |-> Kept("quarterly"), year |-> Kept("yearly"),
              halfday |-> As("monthly", 730, 12), week |-> As("monthly", 730, 168), halfyear |-> As("monthly", 1, 6)]
AezaService == Row(Bare, TRUE, AezaTerms)
AezaTopup   == Row("txn:", TRUE, <<>>)
AezaCharge  == PerDay("aeza:")
Aeza == Connector("key", <<Ask("me")>>, <<Paged("services", "shortOrTotal", AezaService)>>,
    <<Paged("transactions", "shortOrTotal", AezaTopup), Paged("charges", "shortOrTotal", AezaCharge)>>)

\* resolveHostupBilling.
HostupTerms == [month |-> Kept("monthly"), quarter |-> Kept("quarterly"), halfyear |-> As("monthly", 1, 6),
                year |-> Kept("yearly"), twoyears |-> As("yearly", 1, 2), threeyears |-> As("yearly", 1, 3)]
HostupVps         == Row(Uuid, TRUE, HostupTerms)
HostupHosting     == Row(Uuid, TRUE, HostupTerms)
HostupDomain      == Row(Uuid, TRUE, HostupTerms)
HostupTransaction == Row("transaction:", TRUE, <<>>)
Optional(name, how, row) == Req(name, how, TRUE, "denied", {}, row)
Hostup == Connector("key", <<Ask("account")>>,
    <<Paged("vps", "next", HostupVps), Optional("hosting", "next", HostupHosting),
      Optional("domains", "next", HostupDomain),
      Req("paidPeriods", "single", FALSE, "skipUnlessAborted", {"rows"}, Nothing)>>,
    <<Paged("activity", "dedupe", HostupTransaction)>>)

----------------------------------------------------------------------------
\* A token fetched once and kept for the life of the connector.
NetcupServer == Row(Bare, FALSE, Unpriced)
Netcup == Connector("token", None, <<Paged("servers", "short", NetcupServer), Extra("detail")>>, None)

\* mapPeriod: the price stays as it is whatever the term.
HostkeyTerms == [hour |-> Kept("hourly"), day |-> Kept("daily"), month |-> Kept("monthly"),
                 quarter |-> Kept("quarterly"), halfyear |-> Kept("quarterly"), year |-> Kept("yearly")]
HostkeyServer == Row(Bare, TRUE, HostkeyTerms)
Hostkey == Connector("token", <<Extra("getcredits")>>, <<One("list", HostkeyServer)>>, None)

NetangelsVm      == Row(Bare, TRUE, Monthly)
NetangelsPayment == Row("payment:", FALSE, <<>>)
Netangels == Connector("renewable", <<Ask("info")>>,
    <<Paged("vms", "strict", NetangelsVm), Priced(Ask("calculation"))>>,
    <<Ask("months"), One("payments", NetangelsPayment)>>)

BegetVps     == Row("vps:", FALSE, Monthly)
BegetService == Row("cloud:", FALSE, Monthly)
BegetCloudOptional == Connector("totp", <<Ask("accountInfo")>>,
    <<Extra("regions"), One("vps", BegetVps), Try("cloud", "single", BegetService)>>, None)
Beget == Connector("totp", <<Ask("accountInfo")>>,
    <<Extra("regions"), One("vps", BegetVps), One("cloud", BegetService)>>, None)

DoubleServersServer == Row(Bare, FALSE, Monthly)
DoubleServersTopup  == Row("topup:", TRUE, <<>>)
DoubleServersCharge == Row("charge:", TRUE, <<>>)
DoubleServers == Connector("totp", <<Ask("me")>>, <<One("servers", DoubleServersServer)>>,
    <<Paged("topups", "next", DoubleServersTopup), Ask("servers"), Paged("history", "next", DoubleServersCharge)>>)

\* resolveBilling.
HostbillTermsRaw == [month |-> Kept("monthly"), quarter |-> Kept("quarterly"), year |-> Kept("yearly"),
                     halfyear |-> As("monthly", 1, 6), twoyears |-> As("monthly", 1, 12),
                     threeyears |-> As("monthly", 1, 36)]
HostbillTerms == [month |-> Kept("monthly"), quarter |-> Kept("quarterly"), year |-> Kept("yearly"),
                  halfyear |-> As("monthly", 1, 6), twoyears |-> As("monthly", 1, 24),
                  threeyears |-> As("monthly", 1, 36)]
HostbillService == Row(Bare, TRUE, HostbillTerms)
HostbillInvoice == Row("invoice:", TRUE, <<>>)
Hostbill == Connector("jwt", <<Ask("balance"), Extra("currency")>>, <<One("service", HostbillService)>>,
    <<One("invoice", HostbillInvoice), Req("detail", "single", FALSE, "denied", {}, Nothing)>>)

----------------------------------------------------------------------------
\* Inventories in parts: regions, folders, item funcs.
SelectelServer == Row(Uuid, FALSE, [day |-> Kept("daily")])
SelectelRouter == Row(Uuid, FALSE, [day |-> Kept("daily")])
SelectelBucket(ns) == Row(ns, FALSE, [day |-> Kept("daily")])
SelectelDay    == PerDay("sel:")
Region(name, row)       == Req(name, "single", FALSE, "skip", {}, row)
Buckets(name, ns)       == Req(name, "single", FALSE, "recorded", {}, SelectelBucket(ns))
Selectel == Connector("token", <<Ask("balances")>>,
    <<Buckets("buckets1", "bucket:ru-1"), Buckets("buckets2", "bucket:ru-2"),
      Region("servers1", SelectelServer), Region("servers2", SelectelServer), Region("routers1", SelectelRouter),
      Req("consumption", "single", FALSE, "skipUnlessAborted", {"rows"}, Nothing)>>,
    <<One("consumption", SelectelDay)>>)

YandexInstance == Row(Uuid, FALSE, Monthly)
YandexCdn      == Row(Uuid, FALSE, Monthly)
YandexBucket   == Row(Uuid, FALSE, Monthly)
YandexDay      == PerDay("yc:")
Folder(name, row, needs) == Req(name, "next", TRUE, "skip", needs, row)
Yandex == Connector("minted", <<Req("billingAccounts", "single", FALSE, "denied", {}, Nothing)>>,
    <<Req("home", "single", FALSE, "denied", {}, Nothing), Req("folders", "next", TRUE, "skip", {"home"}, Nothing),
      Folder("instances1", YandexInstance, {"home"}), Folder("instances2", YandexInstance, {"home", "folders"}),
      Folder("cdn1", YandexCdn, {"home"}), Folder("buckets2", YandexBucket, {"home", "folders"}),
      Req("billingAccounts", "single", FALSE, "denied", {"rows"}, Nothing),
      Req("report", "single", FALSE, "skip", {"rows", "billingAccounts"}, Nothing)>>,
    <<Req("billingAccounts", "single", FALSE, "denied", {}, Nothing),
      Req("usage", "single", FALSE, "throw", {"billingAccounts"}, YandexDay)>>)

\* resolvePeriod: the word of `autoprolong`, else the number of months.
BillmgrTerms == [day |-> Kept("daily"), hour |-> Kept("hourly"), halfyear |-> As("monthly", 1, 6),
                 quarter |-> Kept("quarterly"), year |-> Kept("yearly"), month |-> Kept("monthly")]
BillmgrItem(ns) == Row(ns, FALSE, BillmgrTerms)
BillmgrPayment == Row("payment:", TRUE, <<>>)
BillmgrExpense == Row("expense:", FALSE, <<>>)
ItemFunc(name, ns, needs) == Req(name, "once", FALSE, "skip", needs, BillmgrItem(ns))
Billmgr == Connector("session", <<Ask("whoami")>>,
    <<Extra("menu"), ItemFunc("vds", Bare, {}), ItemFunc("domain", Uuid, {}), ItemFunc("vds.vps", Bare, {"menu"})>>,
    <<Extra("paymentFilter"), Try("payment", "shortOrTotal", BillmgrPayment),
      Extra("expenseFilter"), Try("expense", "shortOrTotal", BillmgrExpense)>>)

\* ConnectorFactory.create.
Catalogue ==
    [timeweb |-> Timeweb, fourvps |-> FourVps, vdsina |-> Vdsina, openrouter |-> OpenRouter, hetzner |-> Hetzner,
     linode |-> Linode, vultr |-> Vultr, netlen |-> Netlen, spaceship |-> Spaceship, porkbun |-> Porkbun,
     cloudflare |-> Cloudflare, stormwall |-> Stormwall, aeza |-> Aeza, hostup |-> Hostup, netcup |-> Netcup,
     hostkey |-> Hostkey, netangels |-> Netangels, beget |-> Beget, doubleservers |-> DoubleServers,
     hostbill |-> Hostbill, selectel |-> Selectel, yandex |-> Yandex, billmgr |-> Billmgr]
=============================================================================
