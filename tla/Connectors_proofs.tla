-------------------------- MODULE Connectors_proofs --------------------------
(***************************************************************************)
(* Proofs about Connectors, for every list length, page size, page cap and *)
(* number of attempts: a list of services that is accepted is complete,    *)
(* external ids are distinct, and prices keep their rate.                  *)
(*                                                                         *)
(* The first half is about the catalogue of scripts, connector by          *)
(* connector: no two requests of a method put the same prefix before their *)
(* ids, the lists of services have no failure that is passed over, billing *)
(* terms keep their rate.  The second half is about the conversation:      *)
(* a list that has not moved is read from its start without a gap          *)
(* (GotInOrder), so that the connector stops asking for pages only when it *)
(* has every row (LastPage).                                               *)
(***************************************************************************)
EXTENDS Connectors, SequenceTheorems, TLAPS

\* What the external ids of a request's rows begin with.
Prefix(r) == IF r.makes.ns = Uuid THEN r.name ELSE r.makes.ns

\* Two requests of one method share a prefix only if the later one skips ids
\* that are already collected.
Apart(s) ==
    \A i, j \in DOMAIN s :
        i < j /\ s[i].makes # Nothing /\ s[j].makes # Nothing /\ Prefix(s[i]) = Prefix(s[j]) => Folded(s[j])

\* A list that fails, fails its method, and is asked for in any case.
Whole(s) == \A i \in DOMAIN s : s[i].makes # Nothing => s[i].fails = "throw" /\ s[i].needs = {}

\* A term costs the same per hour as the period it is read as.
KeepsRate(terms, t) == terms[t].num * TermHours[t] = terms[t].den * PeriodHours[terms[t].period]
Rated(terms, but)   == \A t \in DOMAIN terms \ but : KeepsRate(terms, t)
RatesKept(s, but)   == \A i \in DOMAIN s : Rated(s[i].makes.terms, but)

Sound(c, but) ==
    /\ \A m \in Methods : Len(c[m]) \in Nat /\ DOMAIN c[m] = 1 .. Len(c[m]) /\ Apart(c[m])
    /\ RatesKept(c.services, but)

----------------------------------------------------------------------------
(* The catalogue. *)

\* One request alone makes rows: its prefix is nobody else's.
LEMMA OnlyOne ==
    ASSUME NEW s, NEW x, \A i \in DOMAIN s : i # x => s[i].makes = Nothing, DOMAIN s \subseteq Int
    PROVE  Apart(s)
    BY DEF Apart

LEMMA NothingRated == Rated(Nothing.terms, {}) /\ Rated(<< >>, {})
    BY DEF Rated, Nothing

\* mapTerm, resolveHostupBilling, resolveBilling, resolvePeriod and the
\* connectors with one term; mapPeriod except for half a year.
LEMMA TermsRated ==
    /\ Rated(Monthly, {}) /\ Rated(Yearly, {}) /\ Rated(Unpriced, {}) /\ Rated(VdsinaTerms, {}) /\ Rated(AezaTerms, {})
    /\ Rated(HostupTerms, {}) /\ Rated(HostkeyTerms, {"halfyear"}) /\ Rated(HostbillTerms, {})
    /\ Rated([day |-> Kept("daily")], {}) /\ Rated(BillmgrTerms, {})
<1>. USE DEF Rated, KeepsRate, TermHours, PeriodHours, As, Kept
<1>1. Rated(Monthly, {}) /\ Rated(Yearly, {}) /\ Rated(Unpriced, {}) /\ Rated([day |-> Kept("daily")], {})
    BY DEF Monthly, Yearly, Unpriced
<1>2. Rated(VdsinaTerms, {})
    BY DEF VdsinaTerms
<1>3. Rated(AezaTerms, {})
    BY DEF AezaTerms
<1>4. Rated(HostupTerms, {})
    BY DEF HostupTerms
<1>5. Rated(HostkeyTerms, {"halfyear"})
    BY DEF HostkeyTerms
<1>6. Rated(HostbillTerms, {})
    BY DEF HostbillTerms
<1>7. Rated(BillmgrTerms, {})
    BY DEF BillmgrTerms
<1>. QED  BY <1>1, <1>2, <1>3, <1>4, <1>5, <1>6, <1>7

\* One lemma per connector: the lengths of its scripts, what their requests
\* make, and the facts about the scripts that follow.
LEMMA TimewebSound ==
    Sound(Timeweb, {}) /\ Whole(Timeweb.services)
<1>. DEFINE c == Timeweb
<1>1. /\ Len(c.account) = 1 /\ Len(c.services) = 3 /\ Len(c.payments) = 0
      /\ \A m \in Methods : DOMAIN c[m] = 1 .. Len(c[m])
    BY DEF Timeweb, Connector, None, Methods
<1>2. /\ c.account[1].makes = Nothing
      /\ c.services[1].makes = TimewebServer /\ c.services[1].fails = "throw" /\ c.services[1].needs = {}
      /\ c.services[2].makes = Nothing
      /\ c.services[3].makes = Nothing
    BY DEF Timeweb, Connector, None, Ask, One, Extra, Req
<1>3. TimewebServer.terms = Monthly
    BY DEF TimewebServer, Row
<1>4. \A m \in Methods : Apart(c[m])
    BY <1>1, <1>2, <1>3, SMTT(60) DEF Methods, Apart, Prefix, Uuid
<1>5. RatesKept(c.services, {})
    BY <1>1, <1>2, <1>3, TermsRated, NothingRated, SMTT(60) DEF RatesKept, Methods
<1>6. Whole(c.services)
    BY <1>1, <1>2 DEF Whole, Methods
<1>. QED  BY <1>1, <1>4, <1>5, <1>6 DEF Sound

LEMMA FourVpsSound ==
    Sound(FourVps, {}) /\ Whole(FourVps.services)
<1>. DEFINE c == FourVps
<1>1. /\ Len(c.account) = 1 /\ Len(c.services) = 2 /\ Len(c.payments) = 0
      /\ \A m \in Methods : DOMAIN c[m] = 1 .. Len(c[m])
    BY DEF FourVps, Connector, None, Methods
<1>2. /\ c.account[1].makes = Nothing
      /\ c.services[1].makes = FourVpsServer /\ c.services[1].fails = "throw" /\ c.services[1].needs = {}
      /\ c.services[2].makes = Nothing
    BY DEF FourVps, Connector, None, Ask, One, Extra, Req
<1>3. FourVpsServer.terms = Monthly
    BY DEF FourVpsServer, Row
<1>4. \A m \in Methods : Apart(c[m])
    BY <1>1, <1>2, <1>3, SMTT(60) DEF Methods, Apart, Prefix, Uuid
<1>5. RatesKept(c.services, {})
    BY <1>1, <1>2, <1>3, TermsRated, NothingRated, SMTT(60) DEF RatesKept, Methods
<1>6. Whole(c.services)
    BY <1>1, <1>2 DEF Whole, Methods
<1>. QED  BY <1>1, <1>4, <1>5, <1>6 DEF Sound

LEMMA VdsinaSound ==
    Sound(Vdsina, {}) /\ Whole(Vdsina.services)
<1>. DEFINE c == Vdsina
<1>1. /\ Len(c.account) = 1 /\ Len(c.services) = 3 /\ Len(c.payments) = 1
      /\ \A m \in Methods : DOMAIN c[m] = 1 .. Len(c[m])
    BY DEF Vdsina, Connector, Methods
<1>2. /\ c.account[1].makes = Nothing
      /\ c.services[1].makes = VdsinaServer /\ c.services[1].fails = "throw" /\ c.services[1].needs = {}
      /\ c.services[2].makes = Nothing
      /\ c.services[3].makes = Nothing
      /\ c.payments[1].makes = VdsinaOperation
    BY DEF Vdsina, Connector, Ask, One, Extra, Req
<1>3. VdsinaServer.terms = VdsinaTerms
    BY DEF VdsinaServer, VdsinaOperation, Row
<1>4. \A m \in Methods : Apart(c[m])
    BY <1>1, <1>2, <1>3, SMTT(60) DEF Methods, Apart, Prefix, Uuid
<1>5. RatesKept(c.services, {})
    BY <1>1, <1>2, <1>3, TermsRated, NothingRated, SMTT(60) DEF RatesKept, Methods
<1>6. Whole(c.services)
    BY <1>1, <1>2 DEF Whole, Methods
<1>. QED  BY <1>1, <1>4, <1>5, <1>6 DEF Sound

LEMMA OpenRouterSound ==
    Sound(OpenRouter, {}) /\ Whole(OpenRouter.services)
<1>. DEFINE c == OpenRouter
<1>1. /\ Len(c.account) = 2 /\ Len(c.services) = 4 /\ Len(c.payments) = 4
      /\ \A m \in Methods : DOMAIN c[m] = 1 .. Len(c[m])
    BY DEF OpenRouter, Connector, Methods
<1>2. /\ c.account[1].makes = Nothing
      /\ c.account[2].makes = Nothing
      /\ c.services[1].makes = Nothing
      /\ c.services[2].makes = OpenRouterModel /\ c.services[2].fails = "throw" /\ c.services[2].needs = {}
      /\ c.services[3].makes = Nothing
      /\ c.services[4].makes = Nothing
      /\ c.payments[1].makes = Nothing
      /\ c.payments[2].makes = OpenRouterActivity
      /\ c.payments[3].makes = Nothing
      /\ c.payments[4].makes = Nothing
    BY DEF OpenRouter, Connector, Ask, One, Extra, Req
<1>3. OpenRouterModel.terms = Monthly
    BY DEF OpenRouterModel, OpenRouterActivity, Row
<1>4. \A m \in Methods : Apart(c[m])
    <2>1. Apart(c.account)
        BY <1>1, <1>2 DEF Methods, Apart
    <2>2. Apart(c.services)
        BY <1>1, <1>2, <1>3, SMTT(60) DEF Methods, Apart, Prefix, Uuid
    <2>3. Apart(c.payments)
        BY <1>1, <1>2, <1>3, SMTT(60) DEF Methods, Apart, Prefix, Uuid
    <2>. QED  BY <2>1, <2>2, <2>3 DEF Methods
<1>5. RatesKept(c.services, {})
    <2>1. DOMAIN c.services = 1 .. 4
        BY <1>1 DEF Methods
    <2>2. \A i \in 1 .. 4 : Rated(c.services[i].makes.terms, {})
        BY <1>2, <1>3, TermsRated, NothingRated
    <2>. QED  BY <2>1, <2>2 DEF RatesKept
<1>6. Whole(c.services)
    BY <1>1, <1>2, SMTT(60) DEF Whole, Methods
<1>. QED  BY <1>1, <1>4, <1>5, <1>6 DEF Sound

LEMMA HetznerSound ==
    Sound(Hetzner, {}) /\ Whole(Hetzner.services)
<1>. DEFINE c == Hetzner
<1>1. /\ Len(c.account) = 0 /\ Len(c.services) = 1 /\ Len(c.payments) = 0
      /\ \A m \in Methods : DOMAIN c[m] = 1 .. Len(c[m])
    BY DEF Hetzner, Connector, None, Methods
<1>2. /\ c.services[1].makes = HetznerServer /\ c.services[1].fails = "throw" /\ c.services[1].needs = {}
    BY DEF Hetzner, Connector, None, Endless, Req
<1>3. HetznerServer.terms = Monthly
    BY DEF HetznerServer, Row
<1>4. \A m \in Methods : Apart(c[m])
    BY <1>1, <1>2, <1>3, SMTT(60) DEF Methods, Apart, Prefix, Uuid
<1>5. RatesKept(c.services, {})
    BY <1>1, <1>2, <1>3, TermsRated, NothingRated, SMTT(60) DEF RatesKept, Methods
<1>6. Whole(c.services)
    BY <1>1, <1>2 DEF Whole, Methods
<1>. QED  BY <1>1, <1>4, <1>5, <1>6 DEF Sound

LEMMA LinodeSound ==
    Sound(Linode, {}) /\ Whole(Linode.services)
<1>. DEFINE c == Linode
<1>1. /\ Len(c.account) = 1 /\ Len(c.services) = 3 /\ Len(c.payments) = 2
      /\ \A m \in Methods : DOMAIN c[m] = 1 .. Len(c[m])
    BY DEF Linode, Connector, Methods
<1>2. /\ c.account[1].makes = Nothing
      /\ c.services[1].makes = LinodeInstance /\ c.services[1].fails = "throw" /\ c.services[1].needs = {}
      /\ c.services[2].makes = Nothing
      /\ c.services[3].makes = Nothing
      /\ c.payments[1].makes = LinodePayment
      /\ c.payments[2].makes = LinodeInvoice
    BY DEF Linode, Connector, Ask, Paged, Try, Req
<1>3. /\ LinodeInstance.terms = Monthly
      /\ LinodePayment.ns = "payment:"
      /\ LinodeInvoice.ns = "invoice:"
    BY DEF LinodeInstance, LinodePayment, LinodeInvoice, Row
<1>4. \A m \in Methods : Apart(c[m])
    BY <1>1, <1>2, <1>3, SMTT(60) DEF Methods, Apart, Prefix, Uuid
<1>5. RatesKept(c.services, {})
    BY <1>1, <1>2, <1>3, TermsRated, NothingRated, SMTT(60) DEF RatesKept, Methods
<1>6. Whole(c.services)
    BY <1>1, <1>2 DEF Whole, Methods
<1>. QED  BY <1>1, <1>4, <1>5, <1>6 DEF Sound

LEMMA VultrSound ==
    Sound(Vultr, {}) /\ Whole(Vultr.services)
<1>. DEFINE c == Vultr
<1>1. /\ Len(c.account) = 1 /\ Len(c.services) = 3 /\ Len(c.payments) = 1
      /\ \A m \in Methods : DOMAIN c[m] = 1 .. Len(c[m])
    BY DEF Vultr, Connector, Methods
<1>2. /\ c.account[1].makes = Nothing
      /\ c.services[1].makes = VultrInstance /\ c.services[1].fails = "throw" /\ c.services[1].needs = {}
      /\ c.services[2].makes = Nothing
      /\ c.services[3].makes = Nothing
      /\ c.payments[1].makes = VultrBilling
    BY DEF Vultr, Connector, Ask, Paged, Try, Req
<1>3. VultrInstance.terms = Monthly
    BY DEF VultrInstance, VultrBilling, Row
<1>4. \A m \in Methods : Apart(c[m])
    BY <1>1, <1>2, <1>3, SMTT(60) DEF Methods, Apart, Prefix, Uuid
<1>5. RatesKept(c.services, {})
    BY <1>1, <1>2, <1>3, TermsRated, NothingRated, SMTT(60) DEF RatesKept, Methods
<1>6. Whole(c.services)
    BY <1>1, <1>2 DEF Whole, Methods
<1>. QED  BY <1>1, <1>4, <1>5, <1>6 DEF Sound

LEMMA NetlenSound ==
    Sound(Netlen, {}) /\ Whole(Netlen.services)
<1>. DEFINE c == Netlen
<1>1. /\ Len(c.account) = 1 /\ Len(c.services) = 1 /\ Len(c.payments) = 1
      /\ \A m \in Methods : DOMAIN c[m] = 1 .. Len(c[m])
    BY DEF Netlen, Connector, Methods
<1>2. /\ c.account[1].makes = Nothing
      /\ c.services[1].makes = NetlenServer /\ c.services[1].fails = "throw" /\ c.services[1].needs = {}
      /\ c.payments[1].makes = NetlenTransaction
    BY DEF Netlen, Connector, Ask, Paged, Req
<1>3. NetlenServer.terms = Monthly
    BY DEF NetlenServer, NetlenTransaction, Row
<1>4. \A m \in Methods : Apart(c[m])
    BY <1>1, <1>2, <1>3, SMTT(60) DEF Methods, Apart, Prefix, Uuid
<1>5. RatesKept(c.services, {})
    BY <1>1, <1>2, <1>3, TermsRated, NothingRated, SMTT(60) DEF RatesKept, Methods
<1>6. Whole(c.services)
    BY <1>1, <1>2 DEF Whole, Methods
<1>. QED  BY <1>1, <1>4, <1>5, <1>6 DEF Sound

LEMMA SpaceshipSound ==
    Sound(Spaceship, {}) /\ Whole(Spaceship.services)
<1>. DEFINE c == Spaceship
<1>1. /\ Len(c.account) = 0 /\ Len(c.services) = 1 /\ Len(c.payments) = 0
      /\ \A m \in Methods : DOMAIN c[m] = 1 .. Len(c[m])
    BY DEF Spaceship, Connector, None, Methods
<1>2. /\ c.services[1].makes = SpaceshipDomain /\ c.services[1].fails = "throw" /\ c.services[1].needs = {}
    BY DEF Spaceship, Connector, None, Paged, Req
<1>3. SpaceshipDomain.terms = Unpriced
    BY DEF SpaceshipDomain, Row
<1>4. \A m \in Methods : Apart(c[m])
    BY <1>1, <1>2, <1>3, SMTT(60) DEF Methods, Apart, Prefix, Uuid
<1>5. RatesKept(c.services, {})
    BY <1>1, <1>2, <1>3, TermsRated, NothingRated, SMTT(60) DEF RatesKept, Methods
<1>6. Whole(c.services)
    BY <1>1, <1>2 DEF Whole, Methods
<1>. QED  BY <1>1, <1>4, <1>5, <1>6 DEF Sound

LEMMA PorkbunSound ==
    Sound(Porkbun, {}) /\ Whole(Porkbun.services)
<1>. DEFINE c == Porkbun
<1>1. /\ Len(c.account) = 1 /\ Len(c.services) = 2 /\ Len(c.payments) = 0
      /\ \A m \in Methods : DOMAIN c[m] = 1 .. Len(c[m])
    BY DEF Porkbun, Connector, None, Methods
<1>2. /\ c.account[1].makes = Nothing
      /\ c.services[1].makes = PorkbunDomain /\ c.services[1].fails = "throw" /\ c.services[1].needs = {}
      /\ c.services[2].makes = Nothing
    BY DEF Porkbun, Connector, None, Ask, Endless, Extra, Priced, Req
<1>3. PorkbunDomain.terms = Yearly
    BY DEF PorkbunDomain, Row
<1>4. \A m \in Methods : Apart(c[m])
    BY <1>1, <1>2, <1>3, SMTT(60) DEF Methods, Apart, Prefix, Uuid
<1>5. RatesKept(c.services, {})
    BY <1>1, <1>2, <1>3, TermsRated, NothingRated, SMTT(60) DEF RatesKept, Methods
<1>6. Whole(c.services)
    BY <1>1, <1>2 DEF Whole, Methods
<1>. QED  BY <1>1, <1>4, <1>5, <1>6 DEF Sound

LEMMA CloudflareSound ==
    Sound(Cloudflare, {}) /\ Whole(Cloudflare.services)
<1>. DEFINE c == Cloudflare
<1>1. /\ Len(c.account) = 0 /\ Len(c.services) = 1 /\ Len(c.payments) = 1
      /\ \A m \in Methods : DOMAIN c[m] = 1 .. Len(c[m])
    BY DEF Cloudflare, Connector, None, Methods
<1>2. /\ c.services[1].makes = CfDomain /\ c.services[1].fails = "throw" /\ c.services[1].needs = {}
      /\ c.payments[1].makes = CfBilling
    BY DEF Cloudflare, Connector, None, Endless, Req
<1>3. CfDomain.terms = Yearly
    BY DEF CfDomain, CfBilling, Row
<1>4. \A m \in Methods : Apart(c[m])
    BY <1>1, <1>2, <1>3, SMTT(60) DEF Methods, Apart, Prefix, Uuid
<1>5. RatesKept(c.services, {})
    BY <1>1, <1>2, <1>3, TermsRated, NothingRated, SMTT(60) DEF RatesKept, Methods
<1>6. Whole(c.services)
    BY <1>1, <1>2 DEF Whole, Methods
<1>. QED  BY <1>1, <1>4, <1>5, <1>6 DEF Sound

LEMMA StormwallSound ==
    Sound(Stormwall, {}) /\ Whole(Stormwall.services)
<1>. DEFINE c == Stormwall
<1>1. /\ Len(c.account) = 0 /\ Len(c.services) = 2 /\ Len(c.payments) = 0
      /\ \A m \in Methods : DOMAIN c[m] = 1 .. Len(c[m])
    BY DEF Stormwall, Connector, None, Methods
<1>2. /\ c.services[1].makes = StormwallService /\ c.services[1].fails = "throw" /\ c.services[1].needs = {}
      /\ c.services[2].makes = Nothing
    BY DEF Stormwall, Connector, None, Paged, Try, Req
<1>3. StormwallService.terms = Unpriced
    BY DEF StormwallService, Row
<1>4. \A m \in Methods : Apart(c[m])
    BY <1>1, <1>2, <1>3, SMTT(60) DEF Methods, Apart, Prefix, Uuid
<1>5. RatesKept(c.services, {})
    BY <1>1, <1>2, <1>3, TermsRated, NothingRated, SMTT(60) DEF RatesKept, Methods
<1>6. Whole(c.services)
    BY <1>1, <1>2 DEF Whole, Methods
<1>. QED  BY <1>1, <1>4, <1>5, <1>6 DEF Sound

LEMMA AezaSound ==
    Sound(Aeza, {}) /\ Whole(Aeza.services)
<1>. DEFINE c == Aeza
<1>1. /\ Len(c.account) = 1 /\ Len(c.services) = 1 /\ Len(c.payments) = 2
      /\ \A m \in Methods : DOMAIN c[m] = 1 .. Len(c[m])
    BY DEF Aeza, Connector, Methods
<1>2. /\ c.account[1].makes = Nothing
      /\ c.services[1].makes = AezaService /\ c.services[1].fails = "throw" /\ c.services[1].needs = {}
      /\ c.payments[1].makes = AezaTopup
      /\ c.payments[2].makes = AezaCharge
    BY DEF Aeza, Connector, Ask, Paged, Req
<1>3. /\ AezaService.terms = AezaTerms
      /\ AezaTopup.ns = "txn:"
      /\ AezaCharge.ns = "aeza:"
    BY DEF AezaService, AezaTopup, AezaCharge, Row, PerDay
<1>4. \A m \in Methods : Apart(c[m])
    BY <1>1, <1>2, <1>3, SMTT(60) DEF Methods, Apart, Prefix, Uuid
<1>5. RatesKept(c.services, {})
    BY <1>1, <1>2, <1>3, TermsRated, NothingRated, SMTT(60) DEF RatesKept, Methods
<1>6. Whole(c.services)
    BY <1>1, <1>2 DEF Whole, Methods
<1>. QED  BY <1>1, <1>4, <1>5, <1>6 DEF Sound

LEMMA HostupSound ==
    Sound(Hostup, {})
<1>. DEFINE c == Hostup
<1>1. /\ Len(c.account) = 1 /\ Len(c.services) = 4 /\ Len(c.payments) = 1
      /\ \A m \in Methods : DOMAIN c[m] = 1 .. Len(c[m])
    BY DEF Hostup, Connector, Methods
<1>2. /\ c.account[1].makes = Nothing
      /\ c.services[1].makes = HostupVps /\ c.services[1].name = "vps"
      /\ c.services[2].makes = HostupHosting /\ c.services[2].name = "hosting"
      /\ c.services[3].makes = HostupDomain /\ c.services[3].name = "domains"
      /\ c.services[4].makes = Nothing
      /\ c.payments[1].makes = HostupTransaction
    BY DEF Hostup, Connector, Ask, Paged, Optional, Req
<1>3. /\ HostupVps.ns = Uuid /\ HostupVps.terms = HostupTerms
      /\ HostupHosting.ns = Uuid /\ HostupHosting.terms = HostupTerms
      /\ HostupDomain.ns = Uuid /\ HostupDomain.terms = HostupTerms
    BY DEF HostupVps, HostupHosting, HostupDomain, HostupTransaction, Row
<1>4. \A m \in Methods : Apart(c[m])
    BY <1>1, <1>2, <1>3, SMTT(60) DEF Methods, Apart, Prefix, Uuid
<1>5. RatesKept(c.services, {})
    BY <1>1, <1>2, <1>3, TermsRated, NothingRated, SMTT(60) DEF RatesKept, Methods
<1>. QED  BY <1>1, <1>4, <1>5 DEF Sound

LEMMA NetcupSound ==
    Sound(Netcup, {}) /\ Whole(Netcup.services)
<1>. DEFINE c == Netcup
<1>1. /\ Len(c.account) = 0 /\ Len(c.services) = 2 /\ Len(c.payments) = 0
      /\ \A m \in Methods : DOMAIN c[m] = 1 .. Len(c[m])
    BY DEF Netcup, Connector, None, Methods
<1>2. /\ c.services[1].makes = NetcupServer /\ c.services[1].fails = "throw" /\ c.services[1].needs = {}
      /\ c.services[2].makes = Nothing
    BY DEF Netcup, Connector, None, Paged, Extra, Req
<1>3. NetcupServer.terms = Unpriced
    BY DEF NetcupServer, Row
<1>4. \A m \in Methods : Apart(c[m])
    BY <1>1, <1>2, <1>3, SMTT(60) DEF Methods, Apart, Prefix, Uuid
<1>5. RatesKept(c.services, {})
    BY <1>1, <1>2, <1>3, TermsRated, NothingRated, SMTT(60) DEF RatesKept, Methods
<1>6. Whole(c.services)
    BY <1>1, <1>2 DEF Whole, Methods
<1>. QED  BY <1>1, <1>4, <1>5, <1>6 DEF Sound

LEMMA HostkeySound ==
    Sound(Hostkey, {"halfyear"}) /\ Whole(Hostkey.services)
<1>. DEFINE c == Hostkey
<1>1. /\ Len(c.account) = 1 /\ Len(c.services) = 1 /\ Len(c.payments) = 0
      /\ \A m \in Methods : DOMAIN c[m] = 1 .. Len(c[m])
    BY DEF Hostkey, Connector, None, Methods
<1>2. /\ c.account[1].makes = Nothing
      /\ c.services[1].makes = HostkeyServer /\ c.services[1].fails = "throw" /\ c.services[1].needs = {}
    BY DEF Hostkey, Connector, None, Extra, One, Req
<1>3. HostkeyServer.terms = HostkeyTerms
    BY DEF HostkeyServer, Row
<1>4. \A m \in Methods : Apart(c[m])
    BY <1>1, <1>2, <1>3, SMTT(60) DEF Methods, Apart, Prefix, Uuid
<1>5. RatesKept(c.services, {"halfyear"})
    BY <1>1, <1>2, <1>3, TermsRated, NothingRated, SMTT(60) DEF RatesKept, Methods
<1>6. Whole(c.services)
    BY <1>1, <1>2 DEF Whole, Methods
<1>. QED  BY <1>1, <1>4, <1>5, <1>6 DEF Sound

LEMMA NetangelsSound ==
    Sound(Netangels, {}) /\ Whole(Netangels.services)
<1>. DEFINE c == Netangels
<1>1. /\ Len(c.account) = 1 /\ Len(c.services) = 2 /\ Len(c.payments) = 2
      /\ \A m \in Methods : DOMAIN c[m] = 1 .. Len(c[m])
    BY DEF Netangels, Connector, Methods
<1>2. /\ c.account[1].makes = Nothing
      /\ c.services[1].makes = NetangelsVm /\ c.services[1].fails = "throw" /\ c.services[1].needs = {}
      /\ c.services[2].makes = Nothing
      /\ c.payments[1].makes = Nothing
      /\ c.payments[2].makes = NetangelsPayment
    BY DEF Netangels, Connector, Ask, Paged, Priced, One, Req
<1>3. NetangelsVm.terms = Monthly
    BY DEF NetangelsVm, NetangelsPayment, Row
<1>4. \A m \in Methods : Apart(c[m])
    BY <1>1, <1>2, <1>3, SMTT(60) DEF Methods, Apart, Prefix, Uuid
<1>5. RatesKept(c.services, {})
    BY <1>1, <1>2, <1>3, TermsRated, NothingRated, SMTT(60) DEF RatesKept, Methods
<1>6. Whole(c.services)
    BY <1>1, <1>2 DEF Whole, Methods
<1>. QED  BY <1>1, <1>4, <1>5, <1>6 DEF Sound

LEMMA BegetSound ==
    Sound(Beget, {}) /\ Whole(Beget.services)
<1>. DEFINE c == Beget
<1>1. /\ Len(c.account) = 1 /\ Len(c.services) = 3 /\ Len(c.payments) = 0
      /\ \A m \in Methods : DOMAIN c[m] = 1 .. Len(c[m])
    BY DEF Beget, Connector, None, Methods
<1>2. /\ c.account[1].makes = Nothing
      /\ c.services[1].makes = Nothing
      /\ c.services[2].makes = BegetVps /\ c.services[2].fails = "throw" /\ c.services[2].needs = {}
      /\ c.services[3].makes = BegetService /\ c.services[3].fails = "throw" /\ c.services[3].needs = {}
    BY DEF Beget, Connector, None, Ask, Extra, One, Req
<1>3. /\ BegetVps.ns = "vps:" /\ BegetVps.terms = Monthly
      /\ BegetService.ns = "cloud:" /\ BegetService.terms = Monthly
    BY DEF BegetVps, BegetService, Row
<1>4. \A m \in Methods : Apart(c[m])
    BY <1>1, <1>2, <1>3, SMTT(60) DEF Methods, Apart, Prefix, Uuid
<1>5. RatesKept(c.services, {})
    BY <1>1, <1>2, <1>3, TermsRated, NothingRated, SMTT(60) DEF RatesKept, Methods
<1>6. Whole(c.services)
    BY <1>1, <1>2 DEF Whole, Methods
<1>. QED  BY <1>1, <1>4, <1>5, <1>6 DEF Sound

LEMMA DoubleServersSound ==
    Sound(DoubleServers, {}) /\ Whole(DoubleServers.services)
<1>. DEFINE c == DoubleServers
<1>1. /\ Len(c.account) = 1 /\ Len(c.services) = 1 /\ Len(c.payments) = 3
      /\ \A m \in Methods : DOMAIN c[m] = 1 .. Len(c[m])
    BY DEF DoubleServers, Connector, Methods
<1>2. /\ c.account[1].makes = Nothing
      /\ c.services[1].makes = DoubleServersServer /\ c.services[1].fails = "throw" /\ c.services[1].needs = {}
      /\ c.payments[1].makes = DoubleServersTopup
      /\ c.payments[2].makes = Nothing
      /\ c.payments[3].makes = DoubleServersCharge
    BY DEF DoubleServers, Connector, Ask, One, Paged, Req
<1>3. /\ DoubleServersServer.terms = Monthly
      /\ DoubleServersTopup.ns = "topup:"
      /\ DoubleServersCharge.ns = "charge:"
    BY DEF DoubleServersServer, DoubleServersTopup, DoubleServersCharge, Row
<1>4. \A m \in Methods : Apart(c[m])
    BY <1>1, <1>2, <1>3, SMTT(60) DEF Methods, Apart, Prefix, Uuid
<1>5. RatesKept(c.services, {})
    BY <1>1, <1>2, <1>3, TermsRated, NothingRated, SMTT(60) DEF RatesKept, Methods
<1>6. Whole(c.services)
    BY <1>1, <1>2 DEF Whole, Methods
<1>. QED  BY <1>1, <1>4, <1>5, <1>6 DEF Sound

LEMMA HostbillSound ==
    Sound(Hostbill, {}) /\ Whole(Hostbill.services)
<1>. DEFINE c == Hostbill
<1>1. /\ Len(c.account) = 2 /\ Len(c.services) = 1 /\ Len(c.payments) = 2
      /\ \A m \in Methods : DOMAIN c[m] = 1 .. Len(c[m])
    BY DEF Hostbill, Connector, Methods
<1>2. /\ c.account[1].makes = Nothing
      /\ c.account[2].makes = Nothing
      /\ c.services[1].makes = HostbillService /\ c.services[1].fails = "throw" /\ c.services[1].needs = {}
      /\ c.payments[1].makes = HostbillInvoice
      /\ c.payments[2].makes = Nothing
    BY DEF Hostbill, Connector, Ask, Extra, One, Req
<1>3. HostbillService.terms = HostbillTerms
    BY DEF HostbillService, HostbillInvoice, Row
<1>4. \A m \in Methods : Apart(c[m])
    BY <1>1, <1>2, <1>3, SMTT(60) DEF Methods, Apart, Prefix, Uuid
<1>5. RatesKept(c.services, {})
    BY <1>1, <1>2, <1>3, TermsRated, NothingRated, SMTT(60) DEF RatesKept, Methods
<1>6. Whole(c.services)
    BY <1>1, <1>2 DEF Whole, Methods
<1>. QED  BY <1>1, <1>4, <1>5, <1>6 DEF Sound

LEMMA SelectelSound ==
    Sound(Selectel, {})
<1>. DEFINE c == Selectel
<1>1. /\ Len(c.account) = 1 /\ Len(c.services) = 6 /\ Len(c.payments) = 1
      /\ \A m \in Methods : DOMAIN c[m] = 1 .. Len(c[m])
    BY DEF Selectel, Connector, Methods
<1>2. /\ c.account[1].makes = Nothing
      /\ c.services[1].makes = SelectelBucket("bucket:ru-1")
      /\ c.services[2].makes = SelectelBucket("bucket:ru-2")
      /\ c.services[3].makes = SelectelServer /\ c.services[3].name = "servers1"
      /\ c.services[4].makes = SelectelServer /\ c.services[4].name = "servers2"
      /\ c.services[5].makes = SelectelRouter /\ c.services[5].name = "routers1"
      /\ c.services[6].makes = Nothing
      /\ c.payments[1].makes = SelectelDay
    BY DEF Selectel, Connector, Ask, Region, Buckets, One, Req
<1>3. /\ SelectelBucket("bucket:ru-1").ns = "bucket:ru-1" /\ SelectelBucket("bucket:ru-1").terms = [day |-> Kept("daily")]
      /\ SelectelBucket("bucket:ru-2").ns = "bucket:ru-2" /\ SelectelBucket("bucket:ru-2").terms = [day |-> Kept("daily")]
      /\ SelectelServer.ns = Uuid /\ SelectelServer.terms = [day |-> Kept("daily")]
      /\ SelectelRouter.ns = Uuid /\ SelectelRouter.terms = [day |-> Kept("daily")]
    BY DEF SelectelBucket, SelectelServer, SelectelRouter, SelectelDay, Row, PerDay
<1>4. \A m \in Methods : Apart(c[m])
    <2>1. Apart(c.account)
        BY <1>1, <1>2 DEF Methods, Apart
    <2>2. Apart(c.services)
        <3>1. DOMAIN c.services = 1 .. 6
            BY <1>1 DEF Methods
        <3>2. \A i \in 1 .. 6 : c.services[i].makes # Nothing => i \in 1 .. 5
            BY <1>2
        <3>3. /\ Prefix(c.services[1]) = "bucket:ru-1" /\ Prefix(c.services[2]) = "bucket:ru-2"
              /\ Prefix(c.services[3]) = "servers1" /\ Prefix(c.services[4]) = "servers2"
              /\ Prefix(c.services[5]) = "routers1"
            BY <1>2, <1>3 DEF Prefix, Uuid
        <3>4. \A i, j \in 1 .. 5 : i < j => Prefix(c.services[i]) # Prefix(c.services[j])
            BY <3>3, SMTT(60)
        <3>. QED  BY <3>1, <3>2, <3>4 DEF Apart
    <2>3. Apart(c.payments)
        <3>1. DOMAIN c.payments = 1 .. 1
            BY <1>1 DEF Methods
        <3>. QED  BY <3>1 DEF Apart
    <2>. QED  BY <2>1, <2>2, <2>3 DEF Methods
<1>5. RatesKept(c.services, {})
    <2>1. DOMAIN c.services = 1 .. 6
        BY <1>1 DEF Methods
    <2>2. \A i \in 1 .. 6 : Rated(c.services[i].makes.terms, {})
        BY <1>2, <1>3, TermsRated, NothingRated
    <2>. QED  BY <2>1, <2>2 DEF RatesKept
<1>. QED  BY <1>1, <1>4, <1>5 DEF Sound

LEMMA YandexSound ==
    Sound(Yandex, {})
<1>. DEFINE c == Yandex
<1>1. /\ Len(c.account) = 1 /\ Len(c.services) = 8 /\ Len(c.payments) = 2
      /\ \A m \in Methods : DOMAIN c[m] = 1 .. Len(c[m])
    BY DEF Yandex, Connector, Methods
<1>2. /\ c.account[1].makes = Nothing
      /\ c.services[1].makes = Nothing
      /\ c.services[2].makes = Nothing
      /\ c.services[3].makes = YandexInstance /\ c.services[3].name = "instances1"
      /\ c.services[4].makes = YandexInstance /\ c.services[4].name = "instances2"
      /\ c.services[5].makes = YandexCdn /\ c.services[5].name = "cdn1"
      /\ c.services[6].makes = YandexBucket /\ c.services[6].name = "buckets2"
      /\ c.services[7].makes = Nothing
      /\ c.services[8].makes = Nothing
      /\ c.payments[1].makes = Nothing
      /\ c.payments[2].makes = YandexDay
    BY DEF Yandex, Connector, Folder, Req
<1>3. /\ YandexInstance.ns = Uuid /\ YandexInstance.terms = Monthly
      /\ YandexCdn.ns = Uuid /\ YandexCdn.terms = Monthly
      /\ YandexBucket.ns = Uuid /\ YandexBucket.terms = Monthly
    BY DEF YandexInstance, YandexCdn, YandexBucket, YandexDay, Row, PerDay
<1>4. \A m \in Methods : Apart(c[m])
    <2>1. Apart(c.account)
        BY <1>1, <1>2 DEF Methods, Apart
    <2>2. Apart(c.services)
        <3>1. DOMAIN c.services = 1 .. 8
            BY <1>1 DEF Methods
        <3>2. \A i \in 1 .. 8 : c.services[i].makes # Nothing => i \in {3, 4, 5, 6}
            BY <1>2
        <3>3. \A i \in {3, 4, 5, 6} : Prefix(c.services[i]) = c.services[i].name
            BY <1>2, <1>3 DEF Prefix
        <3>4. \A i, j \in {3, 4, 5, 6} : i < j => c.services[i].name # c.services[j].name
            BY <1>2
        <3>. QED  BY <3>1, <3>2, <3>3, <3>4 DEF Apart
    <2>3. Apart(c.payments)
        <3>1. DOMAIN c.payments = 1 .. 2
            BY <1>1 DEF Methods
        <3>2. \A i \in DOMAIN c.payments : i # 2 => c.payments[i].makes = Nothing
            BY <3>1, <1>2
        <3>3. DOMAIN c.payments \subseteq Int
            BY <3>1
        <3>. QED  BY <3>2, <3>3, OnlyOne
    <2>. QED  BY <2>1, <2>2, <2>3 DEF Methods
<1>5. RatesKept(c.services, {})
    <2>1. DOMAIN c.services = 1 .. 8
        BY <1>1 DEF Methods
    <2>2. \A i \in 1 .. 8 : Rated(c.services[i].makes.terms, {})
        BY <1>2, <1>3, TermsRated, NothingRated
    <2>. QED  BY <2>1, <2>2 DEF RatesKept
<1>. QED  BY <1>1, <1>4, <1>5 DEF Sound

LEMMA BillmgrSound ==
    Sound(Billmgr, {})
<1>. DEFINE c == Billmgr
<1>1. /\ Len(c.account) = 1 /\ Len(c.services) = 4 /\ Len(c.payments) = 4
      /\ \A m \in Methods : DOMAIN c[m] = 1 .. Len(c[m])
    BY DEF Billmgr, Connector, Methods
<1>2. /\ c.account[1].makes = Nothing
      /\ c.services[1].makes = Nothing
      /\ c.services[2].makes = BillmgrItem(Bare) /\ c.services[2].name = "vds" /\ c.services[2].paging = "once"
      /\ c.services[3].makes = BillmgrItem(Uuid) /\ c.services[3].name = "domain" /\ c.services[3].paging = "once"
      /\ c.services[4].makes = BillmgrItem(Bare) /\ c.services[4].name = "vds.vps" /\ c.services[4].paging = "once"
      /\ c.payments[1].makes = Nothing
      /\ c.payments[2].makes = BillmgrPayment
      /\ c.payments[3].makes = Nothing
      /\ c.payments[4].makes = BillmgrExpense
    BY DEF Billmgr, Connector, Ask, Extra, ItemFunc, Try, Req
<1>3. /\ BillmgrItem(Bare).ns = Bare /\ BillmgrItem(Bare).terms = BillmgrTerms
      /\ BillmgrItem(Uuid).ns = Uuid /\ BillmgrItem(Uuid).terms = BillmgrTerms
      /\ BillmgrPayment.ns = "payment:"
      /\ BillmgrExpense.ns = "expense:"
    BY DEF BillmgrItem, BillmgrPayment, BillmgrExpense, Row
<1>4. \A m \in Methods : Apart(c[m])
    <2>1. Apart(c.account)
        BY <1>1, <1>2 DEF Methods, Apart
    <2>2. Apart(c.services)
        BY <1>1, <1>2, <1>3, SMTT(60) DEF Methods, Apart, Prefix, Uuid, Folded
    <2>3. Apart(c.payments)
        BY <1>1, <1>2, <1>3, SMTT(60) DEF Methods, Apart, Prefix, Uuid
    <2>. QED  BY <2>1, <2>2, <2>3 DEF Methods
<1>5. RatesKept(c.services, {})
    <2>1. DOMAIN c.services = 1 .. 4
        BY <1>1 DEF Methods
    <2>2. \A i \in 1 .. 4 : Rated(c.services[i].makes.terms, {})
        BY <1>2, <1>3, TermsRated, NothingRated
    <2>. QED  BY <2>1, <2>2 DEF RatesKept
<1>. QED  BY <1>1, <1>4, <1>5 DEF Sound

\* Hostkey's half-year is the only term that changes its rate.
LEMMA CatalogueSound ==
    \A k \in DOMAIN Catalogue :
        /\ Sound(Catalogue[k], IF k = "hostkey" THEN {"halfyear"} ELSE {})
        /\ k \notin InParts => Whole(Catalogue[k].services)
    BY TimewebSound, FourVpsSound, VdsinaSound, OpenRouterSound, HetznerSound, LinodeSound, VultrSound, NetlenSound,
       SpaceshipSound, PorkbunSound, CloudflareSound, StormwallSound, AezaSound, HostupSound, NetcupSound,
       HostkeySound, NetangelsSound, BegetSound, DoubleServersSound, HostbillSound, SelectelSound, YandexSound,
       BillmgrSound DEF Catalogue, InParts

----------------------------------------------------------------------------
(* The inductive invariant. *)

TypeOK ==
    /\ kind \in Kinds /\ stock \in Stocks
    /\ phase \in Methods \cup {"synced", "failed"}
    /\ step \in Nat \ {0} /\ page \in Nat /\ got \in Seq(Int) /\ shift \in {-1, 0, 1}

\* The rows that the pages read so far hold.
Read == IF page * PageSize < stock.rows THEN page * PageSize ELSE stock.rows

\* A list that has not moved has been read from its start, without a gap.
GotInOrder == shift = 0 => Len(got) = Read /\ \A k \in 1 .. Len(got) : got[k] = k

\* Only lists read in pages have a page behind them.
PagedOnly == page > 0 => Running /\ Current.paging \notin {"single", "once"}

\* What is collected comes from requests before the current one, and carries
\* its request's prefix.
Placed ==
    \A x \in out :
        /\ phase \in Methods /\ x.from \in DOMAIN Script /\ x.from < step
        /\ Script[x.from].makes # Nothing /\ x.id[1] = Prefix(Script[x.from])

\* Every list of services behind the current request has been read whole.
ServicesRead ==
    phase = "services" /\ kind \notin InParts =>
        \A i \in Lists(kind) : i < step /\ i \notin excused => Owed(i) \subseteq Known

IInv == /\ TypeOK /\ GotInOrder /\ PagedOnly /\ Placed /\ ServicesRead /\ IdsDistinct /\ CompleteOrThrown

\* The facts of the catalogue about the method under way.
LEMMA ScriptSound ==
    ASSUME TypeOK, phase \in Methods
    PROVE  /\ Len(Script) \in Nat /\ DOMAIN Script = 1 .. Len(Script) /\ Apart(Script)
           /\ phase = "services" => Script = Catalogue[kind].services
           /\ phase = "services" /\ kind \notin InParts => Whole(Script)
<1>1. kind \in DOMAIN Catalogue
    BY ConnectorsAssumption DEF TypeOK
<1>2. /\ Sound(Catalogue[kind], IF kind = "hostkey" THEN {"halfyear"} ELSE {})
      /\ kind \notin InParts => Whole(Catalogue[kind].services)
    BY <1>1, CatalogueSound
<1>. QED  BY <1>2 DEF Sound, Script

\* One page further.
LEMMA NextPage == \A p \in Nat : p * PageSize \in Nat /\ (p + 1) * PageSize = p * PageSize + PageSize
    BY ConnectorsAssumption

\* The rows read, with the page that arrives.
All == got \o PageRows(Current)

\* They are still the first rows of the list, in order.
LEMMA PageInOrder ==
    ASSUME TypeOK, GotInOrder, PagedOnly, Running, shift = 0
    PROVE  /\ All \in Seq(Int) /\ Len(All) \in Nat /\ \A k \in 1 .. Len(All) : All[k] = k
           /\ Current.paging \in {"single", "once"} => Len(All) = stock.rows
           /\ Current.paging \notin {"single", "once"} =>
                /\ Len(All) = IF (page + 1) * PageSize < stock.rows THEN (page + 1) * PageSize ELSE stock.rows
                /\ Len(PageRows(Current)) \in 0 .. PageSize
                /\ Len(PageRows(Current)) < PageSize => Len(All) = stock.rows
<1>. DEFINE batch == PageRows(Current)
            from  == page * PageSize
            n     == IF stock.rows > from THEN IF stock.rows - from < PageSize THEN stock.rows - from ELSE PageSize
                     ELSE 0
<1>1. stock.rows \in Nat /\ Total = stock.rows /\ \A p \in Int : RowAt(p) = p
    BY ConnectorsAssumption DEF TypeOK, Stocks, Total, RowAt
<1>2. from \in Nat /\ (page + 1) * PageSize = from + PageSize /\ PageSize \in Nat \ {0}
    BY NextPage, ConnectorsAssumption DEF TypeOK
<1>3. Len(got) = Read /\ got \in Seq(Int) /\ \A k \in 1 .. Len(got) : got[k] = k
    BY DEF GotInOrder, TypeOK
<1>4. CASE Current.paging \in {"single", "once"}
    <2>1. page = 0
        BY <1>4 DEF PagedOnly, TypeOK
    <2>2. Len(got) = 0
        BY <2>1, <1>1, <1>3, ConnectorsAssumption DEF Read
    <2>3. batch = [i \in 1 .. stock.rows |-> i]
        BY <1>1, <1>4 DEF PageRows
    <2>4. batch \in Seq(Int) /\ Len(batch) = stock.rows /\ \A k \in 1 .. stock.rows : batch[k] = k
        BY <2>3, <1>1
    <2>5. All \in Seq(Int) /\ Len(All) = stock.rows /\ \A k \in 1 .. stock.rows : All[k] = batch[k]
        BY <2>2, <2>4, <1>1, <1>3, ConcatProperties DEF All
    <2>. QED  BY <2>4, <2>5, <1>1, <1>4
<1>5. CASE Current.paging \notin {"single", "once"}
    <2>1. batch = [i \in 1 .. n |-> from + i]
        BY <1>1, <1>2, <1>5 DEF PageRows
    <2>2. n \in Nat
        BY <1>1, <1>2
    <2>3. batch \in Seq(Int) /\ Len(batch) = n /\ \A k \in 1 .. n : batch[k] = from + k
        <3>. HIDE DEF n, from
        <3>. QED  BY <2>1, <2>2, <1>2
    <2>4. Len(All) = Len(got) + n /\ All \in Seq(Int)
        <3>. HIDE DEF n, from
        <3>. QED  BY <2>2, <2>3, <1>3, ConcatProperties DEF All
    <2>5. n > 0 => Len(got) = from
        BY <1>1, <1>2, <1>3 DEF Read
    <2>6. \A k \in 1 .. Len(All) : All[k] = k
        <3>. SUFFICES ASSUME NEW k \in 1 .. Len(All)  PROVE All[k] = k
            OBVIOUS
        <3>. HIDE DEF n, from
        <3>1. CASE k <= Len(got)
            BY <3>1, <1>3, <2>2, <2>3, <2>4, ConcatProperties DEF All
        <3>2. CASE k > Len(got)
            <4>1. k - Len(got) \in 1 .. n /\ n > 0
                BY <3>2, <2>2, <2>4, <1>3
            <4>2. All[k] = batch[k - Len(got)]
                BY <4>1, <3>2, <1>3, <2>2, <2>3, <2>4, ConcatProperties, SMTT(60) DEF All
            <4>. QED  BY <4>1, <4>2, <2>3, <2>5, <1>2
        <3>. QED  BY <3>1, <3>2, <1>3, <2>2, <2>4
    <2>7. Len(All) = IF from + PageSize < stock.rows THEN from + PageSize ELSE stock.rows
        BY <2>4, <1>1, <1>2, <1>3 DEF Read
    <2>8. Len(batch) \in 0 .. PageSize /\ (Len(batch) < PageSize => Len(All) = stock.rows)
        BY <2>3, <2>7, <1>1, <1>2
    <2>9. Len(All) \in Nat
        BY <2>7, <1>1, <1>2
    <2>10. Len(All) = IF (page + 1) * PageSize < stock.rows THEN (page + 1) * PageSize ELSE stock.rows
        BY <2>7, <1>2
    <2>. QED  BY <2>4, <2>6, <2>8, <2>9, <2>10, <1>5
<1>. QED  BY <1>4, <1>5

\* When no further page is asked for, every row has been read.
LEMMA LastPage ==
    ASSUME TypeOK, GotInOrder, PagedOnly, Running, shift = 0, ~More(Current, PageRows(Current), All)
    PROVE  Len(All) = stock.rows
<1>1. Total = stock.rows /\ stock.rows \in Nat /\ PageSize \in Nat \ {0}
    BY ConnectorsAssumption DEF TypeOK, Stocks, Total
<1>2. /\ Current.paging \in {"single", "once"} => Len(All) = stock.rows
      /\ Current.paging \notin {"single", "once"} =>
            /\ Len(All) \in Nat /\ Len(All) <= stock.rows
            /\ Len(PageRows(Current)) < PageSize => Len(All) = stock.rows
            /\ Len(PageRows(Current)) <= PageSize /\ Len(PageRows(Current)) \in Nat
    BY <1>1, PageInOrder, NextPage DEF TypeOK
<1>3. Len(<< >>) = 0
    OBVIOUS
<1>. QED  BY <1>1, <1>2, <1>3 DEF More

----------------------------------------------------------------------------
(* The steps. *)

\* Steps that leave the cursor where it is.
LEMMA Unmoved ==
    ASSUME IInv, UNCHANGED <<kind, stock, phase, step, page, got, shift, out, excused, missing>>
    PROVE  IInv'
<1>1. TypeOK' /\ GotInOrder' /\ CompleteOrThrown'
    BY DEF IInv, TypeOK, GotInOrder, Read, CompleteOrThrown, Stocks
<1>2. PagedOnly' /\ Placed' /\ IdsDistinct'
    BY DEF IInv, PagedOnly, Running, Current, Script, Placed, IdsDistinct
<1>3. ServicesRead'
    BY DEF IInv, ServicesRead, Owed, Known
<1>. QED  BY <1>1, <1>2, <1>3 DEF IInv

\* A method begins, or begins again: nothing is collected yet.
LEMMA Blanked ==
    ASSUME IInv, Blank, UNCHANGED <<kind, stock>>, phase' \in Methods \cup {"synced", "failed"}, CompleteOrThrown'
    PROVE  IInv'
<1>1. step' = 1 /\ page' = 0 /\ got' = << >> /\ shift' = 0 /\ out' = {}
    BY DEF Blank
<1>2. TypeOK'
    BY <1>1 DEF IInv, TypeOK
<1>3. GotInOrder'
    <2>1. stock'.rows \in Nat
        BY ConnectorsAssumption DEF IInv, TypeOK, Stocks
    <2>2. page' * PageSize = 0
        BY <1>1, ConnectorsAssumption
    <2>. QED  BY <1>1, <2>1, <2>2 DEF GotInOrder, Read
<1>4. PagedOnly' /\ Placed' /\ IdsDistinct'
    BY <1>1 DEF PagedOnly, Placed, IdsDistinct
<1>5. ServicesRead'
    BY <1>1 DEF ServicesRead, Lists
<1>. QED  BY <1>2, <1>3, <1>4, <1>5 DEF IInv

\* withRetry: the method starts over, or the sync goes on without it or fails.
LEMMA ThrowStep ==
    ASSUME IInv, Throw, UNCHANGED world
    PROVE  IInv'
<1>1. Blank /\ UNCHANGED <<kind, stock, missing>> /\ phase' \in Methods \cup {"synced", "failed"}
    BY DEF IInv, TypeOK, Throw, world
<1>2. CompleteOrThrown'
    BY <1>1 DEF IInv, CompleteOrThrown
<1>. QED  BY <1>1, <1>2, Blanked

\* What an external id is made of: the prefix of its request, and a number
\* that tells the rows of one request apart unless the code folds them.
LEMMA IdForm ==
    ASSUME NEW r, NEW a \in Int, NEW b \in Int
    PROVE  /\ Id(r, a)[1] = Prefix(r)
           /\ ~Folded(r) /\ Id(r, a) = Id(r, b) => a = b
    BY DEF Id, Prefix, Folded

\* The request is over.  Its rows are in the list's order, unless it is
\* excused, and a list of services has been read whole.
LEMMA NextStepKeeps ==
    ASSUME IInv, Running, NEW STATE rows, NEW STATE noted, NextStep(Current, rows, noted),
           rows \in Seq(Int),
           step \notin noted => \A a, b \in DOMAIN rows : rows[a] = rows[b] => a = b,
           phase = "services" /\ kind \notin InParts /\ Current.makes # Nothing /\ step \notin noted
              => \A n \in 1 .. stock.rows : \E k \in DOMAIN rows : rows[k] = n
    PROVE  IInv'
<1>. DEFINE r == Current
            new == Entries(r, rows)
<1>1. /\ UNCHANGED <<kind, stock, phase, missing>>
      /\ step' = step + 1 /\ page' = 0 /\ got' = << >> /\ shift' = 0 /\ excused' = excused \cup noted
      /\ out' = IF r.makes = Nothing THEN out ELSE out \cup new
    BY DEF NextStep, world
<1>2. /\ Script' = Script /\ DOMAIN Script = 1 .. Len(Script) /\ Len(Script) \in Nat /\ Apart(Script)
      /\ step \in DOMAIN Script /\ r = Script[step] /\ phase \in Methods /\ step \in Nat
    BY <1>1, ScriptSound DEF IInv, TypeOK, Running, Current, Script
<1>3. \A x \in new : x.from = step /\ x.id[1] = Prefix(r)
    <2>. SUFFICES ASSUME NEW x \in new  PROVE x.from = step /\ x.id[1] = Prefix(r)
        OBVIOUS
    <2>1. PICK k \in DOMAIN rows : x.from = step /\ x.id = Id(r, rows[k])
        BY DEF Entries
    <2>2. rows[k] \in Int
        OBVIOUS
    <2>. QED  BY <2>1, <2>2, IdForm
<1>4. TypeOK' /\ CompleteOrThrown'
    BY <1>1, <1>2 DEF IInv, TypeOK, CompleteOrThrown
<1>5. GotInOrder' /\ PagedOnly'
    <2>1. stock'.rows \in Nat /\ page' * PageSize = 0
        BY <1>1, ConnectorsAssumption DEF IInv, TypeOK, Stocks
    <2>. QED  BY <1>1, <2>1 DEF GotInOrder, Read, PagedOnly
<1>6. Placed'
    <2>1. \A x \in out : /\ x.from \in DOMAIN Script /\ x.from < step
                         /\ Script[x.from].makes # Nothing /\ x.id[1] = Prefix(Script[x.from])
        BY DEF IInv, Placed
    <2>2. \A x \in out' : /\ x.from \in DOMAIN Script /\ x.from < step + 1
                          /\ Script[x.from].makes # Nothing /\ x.id[1] = Prefix(Script[x.from])
        BY <1>1, <1>2, <1>3, <2>1
    <2>. QED  BY <1>1, <1>2, <2>2 DEF Placed
<1>7. IdsDistinct'
    <2>. SUFFICES ASSUME NEW x \in out', NEW y \in out', x # y, x.id = y.id
                  PROVE  x.from = y.from /\ x.from \in excused'
        BY DEF IdsDistinct
    <2>1. CASE x \in out /\ y \in out
        BY <2>1, <1>1 DEF IInv, IdsDistinct
    <2>2. \A u \in out, v \in new : r.makes # Nothing => u.id # v.id
        <3>. SUFFICES ASSUME NEW u \in out, NEW v \in new, r.makes # Nothing, u.id = v.id  PROVE FALSE
            OBVIOUS
        <3>1. Prefix(Script[u.from]) = Prefix(r) /\ u.from \in DOMAIN Script /\ u.from < step /\ Script[u.from].makes # Nothing
            BY <1>3 DEF IInv, Placed
        <3>2. Folded(r)
            BY <3>1, <1>2 DEF Apart
        <3>3. v.id \notin Known
            BY <3>2 DEF Entries
        <3>. QED  BY <3>3 DEF Known
    <2>3. CASE x \in new /\ y \in new /\ r.makes # Nothing
        <3>1. ~Folded(r)
            BY <2>3 DEF Entries
        <3>2. PICK a \in DOMAIN rows : x = [from |-> step, at |-> a, id |-> Id(r, rows[a])]
            BY <2>3, <3>1 DEF Entries
        <3>3. PICK b \in DOMAIN rows : y = [from |-> step, at |-> b, id |-> Id(r, rows[b])]
            BY <2>3, <3>1 DEF Entries
        <3>4. a # b /\ rows[a] \in Int /\ rows[b] \in Int
            BY <3>2, <3>3
        <3>5. rows[a] = rows[b]
            BY <3>1, <3>2, <3>3, <3>4, IdForm
        <3>6. step \in noted
            BY <3>4, <3>5
        <3>. QED  BY <3>2, <3>3, <3>6, <1>1
    <2>. QED  BY <2>1, <2>2, <2>3, <1>1
<1>8. ServicesRead'
    <2>. SUFFICES ASSUME phase = "services", kind \notin InParts,
                         NEW i \in Lists(kind), i < step + 1, i \notin excused'
                  PROVE  Owed(i)' \subseteq Known'
        BY <1>1 DEF ServicesRead
    <2>1. Owed(i)' = Owed(i) /\ Known \subseteq Known' /\ i \notin excused /\ i \in Nat
        BY <1>1 DEF Owed, Known, Lists
    <2>2. CASE i < step
        BY <2>1, <2>2 DEF IInv, ServicesRead
    <2>3. CASE i = step
        <3>1. r.makes # Nothing /\ r = Catalogue[kind].services[step] /\ step \notin noted
            BY <2>3, <1>1, <1>2, ScriptSound DEF Lists, IInv
        <3>2. ASSUME NEW d \in Owed(i)  PROVE d \in Known'
            <4>1. PICK n \in 1 .. stock.rows : d = Id(r, n) /\ ~(r.makes.drops /\ n \in stock.ended)
                BY <3>1, <2>3 DEF Owed
            <4>2. PICK k \in DOMAIN rows : rows[k] = n
                BY <3>1
            <4>3. d \in Known \/ \E x \in new : x.id = d
                <5>. DEFINE live == {j \in DOMAIN rows : ~(r.makes.drops /\ rows[j] \in stock.ended)}
                            entry(at) == [from |-> step, at |-> at, id |-> d]
                <5>1. k \in live /\ d = Id(r, rows[k])
                    BY <4>1, <4>2
                <5>2. entry(0).id = d /\ entry(k).id = d
                    OBVIOUS
                <5>3. CASE Folded(r) /\ d \notin Known
                    <6>1. d \in {Id(r, rows[j]) : j \in live} \ Known
                        BY <5>1, <5>3
                    <6>2. new = {[from |-> step, at |-> 0, id |-> e] : e \in {Id(r, rows[j]) : j \in live} \ Known}
                        BY <5>3 DEF Entries
                    <6>. QED  BY <6>1, <6>2, <5>2
                <5>4. CASE ~Folded(r)
                    <6>1. new = {[from |-> step, at |-> j, id |-> Id(r, rows[j])] : j \in live}
                        BY <5>4 DEF Entries
                    <6>. QED  BY <6>1, <5>1, <5>2
                <5>. QED  BY <5>3, <5>4
            <4>. QED  BY <4>3, <3>1, <1>1, <2>1 DEF Known
        <3>. QED  BY <3>2, <2>1
    <2>. QED  BY <2>1, <2>2, <2>3, <1>2
<1>. QED  BY <1>4, <1>5, <1>6, <1>7, <1>8 DEF IInv

\* A page arrives: the list is rejected, goes on, or is over.
LEMMA AnswerStep ==
    ASSUME IInv, Answer
    PROVE  IInv'
<1>. DEFINE r     == Current
            batch == PageRows(r)
            cap   == r.capped /\ page + 1 >= MAX_PAGES
            torn  == IF shift # 0 \/ (cap /\ More(r, batch, All)) THEN {step} ELSE {}
<1>1. Running /\ TypeOK /\ GotInOrder /\ PagedOnly
    BY DEF IInv, Answer, Ready
<1>2. All \in Seq(Int)
    <2>1. stock.rows \in Int /\ shift \in Int /\ got \in Seq(Int) /\ page * PageSize \in Int /\ PageSize \in Int
        BY <1>1, NextPage, ConnectorsAssumption DEF TypeOK, Stocks
    <2>2. \A p \in Int : RowAt(p) \in Int
        BY <2>1 DEF RowAt
    <2>3. Total \in Int
        BY <2>1, ConnectorsAssumption DEF Total
    <2>4. batch \in Seq(Int)
        <3>. DEFINE n == IF r.paging \in {"single", "once"} THEN IF Total > 0 THEN Total ELSE 0
                         ELSE IF Total > page * PageSize
                              THEN IF Total - page * PageSize < PageSize THEN Total - page * PageSize ELSE PageSize
                              ELSE 0
        <3>1. n \in Nat
            BY <2>1, <2>3, ConnectorsAssumption
        <3>2. batch \in [1 .. n -> Int]
            <4>1. CASE r.paging \in {"single", "once"}
                <5>1. 1 .. Total = 1 .. n
                    BY <4>1, <2>3
                <5>2. batch = [j \in 1 .. n |-> RowAt(j)]
                    BY <4>1, <5>1 DEF PageRows
                <5>. QED  BY <5>2, <2>2
            <4>2. CASE r.paging \notin {"single", "once"}
                <5>1. batch = [j \in 1 .. n |-> RowAt(page * PageSize + j)]
                    BY <4>2 DEF PageRows
                <5>2. \A j \in 1 .. n : RowAt(page * PageSize + j) \in Int
                    BY <2>1, <2>2
                <5>. QED  BY <5>1, <5>2
            <4>. QED  BY <4>1, <4>2
        <3>. HIDE DEF n
        <3>. QED  BY <3>1, <3>2
    <2>. QED  BY <2>1, <2>4, ConcatProperties DEF All
<1>3. CASE Throw /\ UNCHANGED <<world, session, aborted, hushed>>
    BY <1>3, ThrowStep
<1>4. CASE /\ More(r, batch, All) /\ ~cap
           /\ IF page + 1 < PageLimit THEN page' = page + 1 /\ got' = All ELSE UNCHANGED <<page, got>>
           /\ UNCHANGED <<world, phase, attempt, step, shift, out, skipped, recorded, excused, session, aborted, missing, hushed>>
    <2>1. UNCHANGED <<kind, stock, phase, step, shift, out, excused, missing>>
        BY <1>4 DEF world
    <2>2. CASE UNCHANGED <<page, got>>
        BY <2>1, <2>2, Unmoved
    <2>3. CASE page' = page + 1 /\ got' = All
        <3>1. TypeOK' /\ CompleteOrThrown'
            BY <2>1, <2>3, <1>2 DEF IInv, TypeOK, CompleteOrThrown
        <3>2. r.paging \notin {"single", "once"}
            BY <1>4 DEF More
        <3>3. PagedOnly'
            BY <1>1, <2>1, <3>2 DEF PagedOnly, Running, Current, Script
        <3>4. GotInOrder'
            BY <1>1, <2>1, <2>3, <3>2, PageInOrder DEF GotInOrder, Read
        <3>5. Placed' /\ IdsDistinct'
            BY <2>1 DEF IInv, Placed, IdsDistinct, Script
        <3>6. ServicesRead'
            BY <2>1 DEF IInv, ServicesRead, Owed, Known
        <3>. QED  BY <3>1, <3>3, <3>4, <3>5, <3>6 DEF IInv
    <2>. QED  BY <1>4, <2>2, <2>3
<1>5. CASE /\ ~More(r, batch, All) \/ cap
           /\ NextStep(r, All, torn)
    <2>1. ASSUME step \notin torn  PROVE shift = 0 /\ ~More(r, batch, All)
        BY <1>5, <2>1
    <2>2. step \notin torn => /\ \A k \in DOMAIN All : All[k] = k
                              /\ Len(All) = stock.rows
        BY <1>1, <1>2, <2>1, PageInOrder, LastPage
    <2>3. step \notin torn => \A a, b \in DOMAIN All : All[a] = All[b] => a = b
        BY <2>2
    <2>4. step \notin torn => \A n \in 1 .. stock.rows : \E k \in DOMAIN All : All[k] = n
        BY <2>2, <1>2
    <2>. QED  BY <1>1, <1>2, <1>5, <2>3, <2>4, NextStepKeeps
<1>. QED  BY <1>3, <1>4, <1>5 DEF Answer, All

\* A request that gives no rows.
LEMMA NoRows ==
    ASSUME IInv, Running, NextStep(Current, << >>, {}),
           ~(phase = "services" /\ kind \notin InParts /\ Current.makes # Nothing)
    PROVE  IInv'
<1>. DEFINE rows  == << >>
            noted == {}
<1>1. rows \in Seq(Int) /\ DOMAIN rows = {}
    OBVIOUS
<1>2. NextStep(Current, rows, noted)
    OBVIOUS
<1>. HIDE DEF rows, noted
<1>. QED  BY <1>1, <1>2, NextStepKeeps

\* A request that fails or is not made gives no rows; outside the inventories
\* read in parts, no list of services ends that way.
LEMMA FailStep ==
    ASSUME IInv, Fail
    PROVE  IInv'
<1>1. Running
    BY DEF Fail, Ready
<1>2. CASE Throw /\ UNCHANGED <<world, session, aborted, hushed>>
    BY <1>2, ThrowStep
<1>3. ASSUME NEW denied \in BOOLEAN, Fails(Current, denied) \in {"skip", "record"}, NextStep(Current, << >>, {})
      PROVE  IInv'
    <2>1. Current.fails # "throw"
        BY <1>3 DEF Fails
    <2>2. ~(phase = "services" /\ kind \notin InParts /\ Current.makes # Nothing)
        BY <2>1, <1>1, ScriptSound DEF IInv, TypeOK, Whole, Running, Current
    <2>. QED  BY <1>1, <1>3, <2>2, NoRows
<1>. QED  BY <1>2, <1>3 DEF Fail

\* A request that is not made depends on another; no list of services does.
LEMMA PassOverStep ==
    ASSUME IInv, PassOver
    PROVE  IInv'
<1>1. Running /\ ~Made(Current) /\ NextStep(Current, << >>, {})
    BY DEF PassOver
<1>2. Current.needs # {}
    BY <1>1 DEF Made
<1>3. ~(phase = "services" /\ kind \notin InParts /\ Current.makes # Nothing)
    BY <1>1, <1>2, ScriptSound DEF IInv, TypeOK, Whole, Running, Current
<1>. QED  BY <1>1, <1>3, NoRows

\* From here on the list is excused.
LEMMA MoveStep ==
    ASSUME IInv, Move
    PROVE  IInv'
<1>1. UNCHANGED <<kind, stock, phase, step, page, got, out, excused, missing>> /\ shift' \in {-1, 1}
    BY DEF Move, world
<1>2. TypeOK' /\ GotInOrder' /\ CompleteOrThrown'
    BY <1>1 DEF IInv, TypeOK, GotInOrder, CompleteOrThrown
<1>3. PagedOnly' /\ Placed' /\ IdsDistinct'
    BY <1>1 DEF IInv, PagedOnly, Running, Current, Script, Placed, IdsDistinct
<1>4. ServicesRead'
    BY <1>1 DEF IInv, ServicesRead, Owed, Known
<1>. QED  BY <1>2, <1>3, <1>4 DEF IInv

\* fetchServices is accepted: every list is behind the last request.
LEMMA ReturnStep ==
    ASSUME IInv, Return
    PROVE  IInv'
<1>1. CASE Throw
    BY <1>1, ThrowStep DEF Return
<1>2. CASE ~Throw
    <2>1. /\ phase' = Following[phase] /\ Blank /\ UNCHANGED <<kind, stock>> /\ phase \in Methods
          /\ step > Len(Script) /\ missing' = IF phase = "services" THEN Left \ excused ELSE missing
        BY <1>2 DEF Return, world
    <2>2. phase' \in Methods \cup {"synced", "failed"}
        BY <2>1 DEF Methods, Following
    <2>3. CompleteOrThrown'
        <3>1. CASE phase = "services" /\ kind \notin InParts
            <4>1. \A i \in Lists(kind) : i < step /\ i \in Nat
                BY <2>1, <3>1, ScriptSound DEF Lists, IInv, TypeOK
            <4>2. Left \ excused = {}
                BY <3>1, <4>1 DEF Left, IInv, ServicesRead
            <4>. QED  BY <2>1, <3>1, <4>2 DEF CompleteOrThrown
        <3>2. CASE phase # "services" \/ kind \in InParts
            BY <2>1, <3>2 DEF CompleteOrThrown, IInv
        <3>. QED  BY <3>1, <3>2
    <2>. QED  BY <2>1, <2>2, <2>3, Blanked
<1>. QED  BY <1>1, <1>2

\* Signing in, the session and the timer.
LEMMA SessionSteps ==
    ASSUME IInv, Timeout \/ Login \/ Confirm \/ Fallback \/ Expire \/ Renew
    PROVE  IInv'
<1>1. CASE Refused
    BY <1>1, ThrowStep DEF Refused
<1>2. CASE UNCHANGED <<kind, stock, phase, step, page, got, shift, out, excused, missing>>
    BY <1>2, Unmoved
<1>. QED  BY <1>1, <1>2 DEF Timeout, Login, Confirm, Fallback, Expire, Renew, Stay, world, cursor

LEMMA InitHolds == Init => IInv
<1>. SUFFICES ASSUME Init  PROVE IInv
    OBVIOUS
<1>1. step = 1 /\ page = 0 /\ got = << >> /\ shift = 0 /\ out = {} /\ missing = {} /\ phase = "account" /\ kind \in Kinds
      /\ stock \in Stocks
    BY DEF Init
<1>2. stock.rows \in Nat /\ page * PageSize = 0
    BY <1>1, ConnectorsAssumption DEF Stocks
<1>. QED  BY <1>1, <1>2 DEF IInv, TypeOK, Methods, GotInOrder, Read, PagedOnly, Placed, ServicesRead, IdsDistinct,
        CompleteOrThrown

\* The invariant behind the three properties holds throughout every sync.
THEOREM Inductive == Spec => []IInv
<1>1. IInv /\ [Next]_vars => IInv'
    <2>. SUFFICES ASSUME IInv, [Next]_vars  PROVE IInv'
        OBVIOUS
    <2>1. CASE Timeout \/ Login \/ Confirm \/ Fallback \/ Expire \/ Renew
        BY <2>1, SessionSteps
    <2>2. CASE Answer
        BY <2>2, AnswerStep
    <2>3. CASE Fail
        BY <2>3, FailStep
    <2>4. CASE PassOver
        BY <2>4, PassOverStep
    <2>5. CASE Move
        BY <2>5, MoveStep
    <2>6. CASE Return
        BY <2>6, ReturnStep
    <2>7. CASE Done \/ UNCHANGED vars
        BY <2>7, Unmoved DEF Done, vars, world, cursor
    <2>. QED  BY <2>1, <2>2, <2>3, <2>4, <2>5, <2>6, <2>7 DEF Next
<1>. QED  BY InitHolds, <1>1, PTL DEF Spec

\* A sync that fetchServices lets through contains every row the provider
\* holds, however many pages and rows there are and whatever fails, expires or
\* is aborted on the way, unless the page cap cut the list, it moved while it
\* was read, or the connector reads its inventory in parts: the sync switches
\* off no service the provider still has.
THEOREM CompleteOrThrownTheorem == Spec => []CompleteOrThrown
<1>1. IInv => CompleteOrThrown
    BY DEF IInv
<1>. QED  BY <1>1, Inductive, PTL

\* The external ids a connector's method collects are distinct, except for
\* rows of one list that moved while it was read.
THEOREM IdsDistinctTheorem == Spec => []IdsDistinct
<1>1. IInv => IdsDistinct
    BY DEF IInv
<1>. QED  BY <1>1, Inductive, PTL

\* Every billing term the connectors read keeps its price per hour, Hostkey's
\* half-year excepted.
THEOREM RateKeptTheorem == Spec => []RateKept
<1>1. IInv => RateKept
    <2>. SUFFICES ASSUME IInv, phase = "services", NEW x \in out,
                         NEW t \in DOMAIN Script[x.from].makes.terms
                  PROVE  \/ KeepsRate(Script[x.from].makes.terms, t)
                         \/ kind = "hostkey" /\ t = "halfyear"
        BY DEF RateKept, KeepsRate
    <2>1. kind \in DOMAIN Catalogue /\ x.from \in DOMAIN Script /\ Script = Catalogue[kind].services
        BY ConnectorsAssumption DEF IInv, TypeOK, Placed, Script
    <2>2. RatesKept(Script, IF kind = "hostkey" THEN {"halfyear"} ELSE {})
        BY <2>1, CatalogueSound DEF Sound
    <2>3. Rated(Script[x.from].makes.terms, IF kind = "hostkey" THEN {"halfyear"} ELSE {})
        BY <2>1, <2>2 DEF RatesKept
    <2>. QED  BY <2>3 DEF Rated
<1>. QED  BY <1>1, Inductive, PTL
=============================================================================
