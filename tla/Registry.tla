------------------------------- MODULE Registry -------------------------------
(***************************************************************************)
(* Providers and their accounts: ProvidersService, ProviderAccountsService *)
(* and the transactions of their repositories, over PostgreSQL at READ     *)
(* COMMITTED.  A request reads first and writes later; deleteUnlessLast    *)
(* and merge are interactive transactions that hold row locks from         *)
(* statement to statement and publish their writes at commit.              *)
(*                                                                         *)
(* Locks on a provider row: `exclusive` is FOR UPDATE or DELETE, `keyShare`*)
(* is what a foreign-key check takes, `noKey` what a plain UPDATE takes.   *)
(* A lock on an account row has one holder.  A label stands for its        *)
(* case-insensitive class; Main is the null label.                         *)
(***************************************************************************)
EXTENDS Naturals

CONSTANTS
    Providers, Accounts,    \* primary keys
    Kinds, NoKind,          \* provider kinds; NoKind: no such row
    Labels, Main,           \* account labels and the null label
    NoAcct, NoProv, NoTxn,  \* no such row, no reference, no holder
    Edits,                  \* requests that write a label: addAccount, accounts.update
    Deletes,                \* requests that remove an account
    Merges                  \* requests that merge two providers

ASSUME NullsAssumption ==
    NoKind \notin Kinds /\ Main \notin Labels /\ NoProv \notin Providers
ASSUME RowsAssumption ==
    NoAcct \notin [provider : Providers, label : Labels \cup {Main}, kind : Kinds]
ASSUME TxnsAssumption == Deletes \cap Merges = {} /\ NoTxn \notin Deletes \cup Merges

VARIABLES
    kind,       \* providers: the kind of each row
    accts,      \* provider_accounts
    exclusive, keyShare, noKey,     \* locks on provider rows
    rowLock,    \* locks on account rows
    edit, del, mrg,     \* the requests
    touched     \* history: somebody else changed the two providers since merge read them

locks == <<exclusive, keyShare, noKey, rowLock>>
vars  == <<kind, accts, locks, edit, del, mrg, touched>>

-----------------------------------------------------------------------------
AcctLabel == Labels \cup {Main}
\* `kind` is the one the account's credentials were built for.
Acct == [provider : Providers, label : AcctLabel, kind : Kinds]
Txns == Deletes \cup Merges

Exists(p) == kind[p] # NoKind
Live == {a \in Accounts : accts[a] # NoAcct}
Of(p) == {a \in Live : accts[a].provider = p}

\* What a request carries from its reads to its writes.
EditReq == [step : {"idle", "add", "relabel"}, provider : Providers \cup {NoProv},
            account : Accounts \cup {NoAcct}, label : AcctLabel, kind : Kinds \cup {NoKind}]
DeleteReq == [step : {"idle", "lock", "count", "delete", "commit"},
              account : Accounts \cup {NoAcct}, provider : Providers \cup {NoProv}]
Labelings == UNION {[S -> Labels] : S \in SUBSET Accounts}
MergeReq == [step : {"idle", "relabel", "target", "source", "commit"},
             source : Providers \cup {NoProv}, target : Providers \cup {NoProv},
             labels : Labelings, todo : SUBSET Accounts, moved : SUBSET Accounts]

IdleEdit == [step |-> "idle", provider |-> NoProv, account |-> NoAcct, label |-> Main,
             kind |-> NoKind]
IdleDel  == [step |-> "idle", account |-> NoAcct, provider |-> NoProv]
NoLabels == [a \in {} |-> Main]
IdleMrg  == [step |-> "idle", source |-> NoProv, target |-> NoProv,
             labels |-> NoLabels, todo |-> {}, moved |-> {}]

\* Keys no request refers to stand for keys never used before.
FreshAccounts == {a \in Accounts \ Live :
    /\ \A e \in Edits : edit[e].account # a
    /\ \A d \in Deletes : del[d].account # a
    /\ \A m \in Merges : a \notin DOMAIN mrg[m].labels \cup mrg[m].moved}
FreshProviders == {p \in Providers : ~Exists(p)
    /\ (\A e \in Edits : edit[e].provider # p)
    /\ (\A d \in Deletes : del[d].provider # p)
    /\ (\A m \in Merges : p \notin {mrg[m].source, mrg[m].target})}

\* provider-rules.ts labelTaken, over the accounts of a provider.
LabelTaken(p, label, except) == \E a \in Of(p) \ {except} : accts[a].label = label

\* A write to the accounts of the providers ps by somebody else than me.
Touch(me, ps) ==
    touched' = [m \in Merges |->
        touched[m] \/ (m # me /\ {mrg[m].source, mrg[m].target} \cap ps # {})]

\* What a foreign-key check on p waits for, and what an UPDATE or DELETE of p does.
NoExclusive(p, me) == exclusive[p] \in {NoTxn, me}
NoLock(p, me) == NoExclusive(p, me) /\ keyShare[p] \subseteq {me} /\ noKey[p] \in {NoTxn, me}

-----------------------------------------------------------------------------
Init ==
    /\ kind = [p \in Providers |-> NoKind]
    /\ accts = [a \in Accounts |-> NoAcct]
    /\ exclusive = [p \in Providers |-> NoTxn]
    /\ keyShare = [p \in Providers |-> {}]
    /\ noKey = [p \in Providers |-> NoTxn]
    /\ rowLock = [a \in Accounts |-> NoTxn]
    /\ edit = [e \in Edits |-> IdleEdit]
    /\ del = [d \in Deletes |-> IdleDel]
    /\ mrg = [m \in Merges |-> IdleMrg]
    /\ touched = [m \in Merges |-> FALSE]

-----------------------------------------------------------------------------
(* ProvidersService.create and remove                                      *)

\* The provider and its first account are one nested insert.
CreateProvider(p, k, a, l) ==
    /\ p \in FreshProviders /\ a \in FreshAccounts
    /\ kind' = [kind EXCEPT ![p] = k]
    /\ accts' = [accts EXCEPT ![a] = [provider |-> p, label |-> l, kind |-> k]]
    /\ UNCHANGED <<locks, edit, del, mrg, touched>>

\* The DELETE waits for every lock on the row and on the accounts it cascades to.
RemoveProvider(p) ==
    /\ Exists(p)
    /\ NoLock(p, NoTxn)
    /\ \A a \in Of(p) : rowLock[a] = NoTxn
    /\ kind' = [kind EXCEPT ![p] = NoKind]
    /\ accts' = [a \in Accounts |-> IF a \in Of(p) THEN NoAcct ELSE accts[a]]
    /\ Touch(NoTxn, {p})
    /\ UNCHANGED <<locks, edit, del, mrg>>

-----------------------------------------------------------------------------
(* ProvidersService.addAccount and ProviderAccountsService.update          *)

\* A further account is added under a label, never as Main.
ReadForAdd(e, p, l) ==
    /\ edit[e].step = "idle"
    /\ Exists(p)
    /\ ~LabelTaken(p, l, NoAcct)
    /\ edit' = [edit EXCEPT ![e] =
            [step |-> "add", provider |-> p, account |-> NoAcct, label |-> l, kind |-> kind[p]]]
    /\ UNCHANGED <<kind, accts, locks, del, mrg, touched>>

\* accounts.create: the foreign key to the provider is checked, the label is not.
AddAccount(e, a) ==
    /\ edit[e].step = "add"
    /\ LET q == edit[e] IN
        /\ NoExclusive(q.provider, NoTxn)
        /\ \/ /\ Exists(q.provider)
              /\ a \in FreshAccounts
              /\ accts' = [accts EXCEPT ![a] =
                    [provider |-> q.provider, label |-> q.label, kind |-> q.kind]]
              /\ Touch(NoTxn, {q.provider})
           \/ /\ ~Exists(q.provider)
              /\ UNCHANGED <<accts, touched>>
    /\ edit' = [edit EXCEPT ![e] = IdleEdit]
    /\ UNCHANGED <<kind, locks, del, mrg>>

ReadForRelabel(e, a, l) ==
    /\ edit[e].step = "idle"
    /\ a \in Live
    /\ accts[a].label # l
    /\ ~LabelTaken(accts[a].provider, l, a)
    /\ edit' = [edit EXCEPT ![e] =
            [step |-> "relabel", provider |-> accts[a].provider, account |-> a, label |-> l,
             kind |-> NoKind]]
    /\ UNCHANGED <<kind, accts, locks, del, mrg, touched>>

RelabelAccount(e) ==
    /\ edit[e].step = "relabel"
    /\ LET a == edit[e].account IN
        /\ rowLock[a] = NoTxn
        /\ IF a \in Live
           THEN /\ accts' = [accts EXCEPT ![a].label = edit[e].label]
                /\ Touch(NoTxn, {accts[a].provider})
           ELSE UNCHANGED <<accts, touched>>
    /\ edit' = [edit EXCEPT ![e] = IdleEdit]
    /\ UNCHANGED <<kind, locks, del, mrg>>

-----------------------------------------------------------------------------
(* Transactions end.                                                       *)

ReleaseLocks(t) ==
    /\ exclusive' = [p \in Providers |-> IF exclusive[p] = t THEN NoTxn ELSE exclusive[p]]
    /\ keyShare' = [p \in Providers |-> keyShare[p] \ {t}]
    /\ noKey' = [p \in Providers |-> IF noKey[p] = t THEN NoTxn ELSE noKey[p]]
    /\ rowLock' = [a \in Accounts |-> IF rowLock[a] = t THEN NoTxn ELSE rowLock[a]]

\* Any transaction may be rolled back at any point: a row it updates is gone, a
\* foreign key is broken, a deadlock, the transaction timeout, a crash.
AbortDelete(d) ==
    /\ del[d].step # "idle"
    /\ ReleaseLocks(d)
    /\ del' = [del EXCEPT ![d] = IdleDel]
    /\ UNCHANGED <<kind, accts, edit, mrg, touched>>

AbortMerge(m) ==
    /\ mrg[m].step # "idle"
    /\ ReleaseLocks(m)
    /\ mrg' = [mrg EXCEPT ![m] = IdleMrg]
    /\ touched' = [touched EXCEPT ![m] = FALSE]
    /\ UNCHANGED <<kind, accts, edit, del>>

-----------------------------------------------------------------------------
(* ProviderAccountsService.remove and deleteUnlessLast                     *)

ReadForDelete(d, a) ==
    /\ del[d].step = "idle"
    /\ a \in Live
    /\ del' = [del EXCEPT ![d] = [step |-> "lock", account |-> a, provider |-> accts[a].provider]]
    /\ UNCHANGED <<kind, accts, locks, edit, mrg, touched>>

DeleteGoto(d, step) == del' = [del EXCEPT ![d].step = step]

\* Mutant: the count is taken without the lock.
LockProviderSkipped(d) ==
    /\ del[d].step = "lock"
    /\ DeleteGoto(d, "count")
    /\ UNCHANGED <<kind, accts, locks, edit, mrg, touched>>

\* SELECT 1 FROM providers WHERE uuid = ... FOR UPDATE locks the row, if there is one.
LockProvider(d) ==
    /\ del[d].step = "lock"
    /\ NoLock(del[d].provider, d)
    /\ exclusive' = IF Exists(del[d].provider)
                    THEN [exclusive EXCEPT ![del[d].provider] = d] ELSE exclusive
    /\ DeleteGoto(d, "count")
    /\ UNCHANGED <<kind, accts, keyShare, noKey, rowLock, edit, mrg, touched>>

\* count(...) <= 1 returns false: the request is refused and the lock released.
Several(p) == \E a, b \in Of(p) : a # b

CountAccounts(d) ==
    /\ del[d].step = "count"
    /\ IF Several(del[d].provider)
       THEN DeleteGoto(d, "delete") /\ UNCHANGED locks
       ELSE del' = [del EXCEPT ![d] = IdleDel] /\ ReleaseLocks(d)
    /\ UNCHANGED <<kind, accts, edit, mrg, touched>>

\* DELETE ... WHERE uuid: the provider is not named again.
DeleteRow(d) ==
    /\ del[d].step = "delete"
    /\ del[d].account \in Live
    /\ rowLock[del[d].account] = NoTxn
    /\ rowLock' = [rowLock EXCEPT ![del[d].account] = d]
    /\ DeleteGoto(d, "commit")
    /\ UNCHANGED <<kind, accts, exclusive, keyShare, noKey, edit, mrg, touched>>

CommitDelete(d) ==
    /\ del[d].step = "commit"
    /\ accts' = [accts EXCEPT ![del[d].account] = NoAcct]
    /\ del' = [del EXCEPT ![d] = IdleDel]
    /\ ReleaseLocks(d)
    /\ Touch(d, {del[d].provider})
    /\ UNCHANGED <<kind, edit, mrg>>

-----------------------------------------------------------------------------
(* ProvidersService.merge and ProvidersRepository.merge                    *)

\* Mutant: the target's labels are not looked at.
MergedLabelsBlind(s, t) == {f \in [Of(s) -> Labels] : \A a, b \in Of(s) : a # b => f[a] # f[b]}

\* mergedLabels: every source account gets a label of its own that the target
\* does not use; one that has a label keeps it unless it is taken.
MergedLabels(s, t) ==
    LET used == {accts[b].label : b \in Of(t)} \ {Main} IN
    {f \in [Of(s) -> Labels] :
        /\ \A a \in Of(s) : f[a] \notin used
        /\ \A a, b \in Of(s) : a # b => f[a] # f[b]
        /\ \A a \in Of(s) : accts[a].label \notin {Main, f[a]} =>
                accts[a].label \in used \cup {f[b] : b \in Of(s) \ {a}}}

\* mergeError is null.  Mutant: any two providers may be merged.
MergeAllowedAnyKind(s, t) == s # t

MergeAllowed(s, t) == s # t /\ kind[s] = kind[t]

\* Both providers are read with their accounts, and the labels settled.
ReadForMerge(m, s, t) ==
    /\ mrg[m].step = "idle"
    /\ Exists(s) /\ Exists(t)
    /\ MergeAllowed(s, t)
    /\ \E f \in MergedLabels(s, t) :
        mrg' = [mrg EXCEPT ![m] =
            [step |-> "relabel", source |-> s, target |-> t, labels |-> f, todo |-> Of(s),
             moved |-> {}]]
    /\ touched' = [touched EXCEPT ![m] = FALSE]
    /\ UNCHANGED <<kind, accts, locks, edit, del>>

\* One UPDATE of a label; a row that is gone rolls the merge back (AbortMerge).
MergeRelabel(m, a) ==
    /\ mrg[m].step = "relabel"
    /\ a \in mrg[m].todo
    /\ a \in Live
    /\ rowLock[a] = NoTxn
    /\ rowLock' = [rowLock EXCEPT ![a] = m]
    /\ mrg' = [mrg EXCEPT ![m].todo = @ \ {a}]
    /\ UNCHANGED <<kind, accts, exclusive, keyShare, noKey, edit, del, touched>>

\* updateMany: every account the source has NOW moves; the foreign key to the
\* target is checked.
MergeMove(m) ==
    /\ mrg[m].step = "relabel"
    /\ mrg[m].todo = {}
    /\ LET s == mrg[m].source
           t == mrg[m].target
       IN /\ Exists(t)
          /\ NoExclusive(t, m)
          /\ \A a \in Of(s) : rowLock[a] \in {NoTxn, m}
          /\ rowLock' = [a \in Accounts |-> IF a \in Of(s) THEN m ELSE rowLock[a]]
          /\ keyShare' = IF Of(s) # {} THEN [keyShare EXCEPT ![t] = @ \cup {m}] ELSE keyShare
          /\ mrg' = [mrg EXCEPT ![m].step = "target", ![m].moved = Of(s)]
    /\ UNCHANGED <<kind, accts, exclusive, noKey, edit, del, touched>>

\* provider.update(target, fill)
MergeTarget(m) ==
    /\ mrg[m].step = "target"
    /\ LET t == mrg[m].target IN
        /\ Exists(t)
        /\ NoExclusive(t, m)
        /\ noKey[t] = NoTxn
        /\ noKey' = [noKey EXCEPT ![t] = m]
    /\ mrg' = [mrg EXCEPT ![m].step = "source"]
    /\ UNCHANGED <<kind, accts, exclusive, keyShare, rowLock, edit, del, touched>>

\* provider.delete(source): waits for every lock on the row, and cascades to the
\* accounts it still has.
MergeSource(m) ==
    /\ mrg[m].step = "source"
    /\ LET s == mrg[m].source IN
        /\ Exists(s)
        /\ NoLock(s, m)
        /\ \A a \in Of(s) : rowLock[a] \in {NoTxn, m}
        /\ exclusive' = [exclusive EXCEPT ![s] = m]
        /\ rowLock' = [a \in Accounts |-> IF a \in Of(s) THEN m ELSE rowLock[a]]
    /\ mrg' = [mrg EXCEPT ![m].step = "commit"]
    /\ UNCHANGED <<kind, accts, keyShare, noKey, edit, del, touched>>

\* The account row after the merge.  Every relabelled account is among the moved
\* ones: it was the source's, and leaves it only together with the source's row.
MergedAcct(m, a) ==
    IF a \in mrg[m].moved
    THEN [accts[a] EXCEPT
            !.provider = mrg[m].target,
            !.label = IF a \in DOMAIN mrg[m].labels THEN mrg[m].labels[a] ELSE @]
    ELSE IF a \in Of(mrg[m].source) THEN NoAcct ELSE accts[a]

CommitMerge(m) ==
    /\ mrg[m].step = "commit"
    /\ kind' = [kind EXCEPT ![mrg[m].source] = NoKind]
    /\ accts' = [a \in Accounts |-> MergedAcct(m, a)]
    /\ mrg' = [mrg EXCEPT ![m] = IdleMrg]
    /\ ReleaseLocks(m)
    /\ touched' = [n \in Merges |->
            /\ n # m
            /\ \/ touched[n]
               \/ {mrg[n].source, mrg[n].target} \cap {mrg[m].source, mrg[m].target} # {}]
    /\ UNCHANGED <<edit, del>>

-----------------------------------------------------------------------------
DeleteStep(d) ==
    \/ \E a \in Accounts : ReadForDelete(d, a)
    \/ LockProvider(d)
    \/ CountAccounts(d)
    \/ DeleteRow(d)
    \/ CommitDelete(d)
    \/ AbortDelete(d)

MergeStep(m) ==
    \/ \E s, t \in Providers : ReadForMerge(m, s, t)
    \/ \E a \in Accounts : MergeRelabel(m, a)
    \/ MergeMove(m)
    \/ MergeTarget(m)
    \/ MergeSource(m)
    \/ CommitMerge(m)
    \/ AbortMerge(m)

EditStep(e) ==
    \/ \E p \in Providers, l \in Labels : ReadForAdd(e, p, l)
    \/ \E a \in Accounts : AddAccount(e, a)
    \/ \E a \in Accounts, l \in AcctLabel : ReadForRelabel(e, a, l)
    \/ RelabelAccount(e)

Next ==
    \/ \E p \in Providers, k \in Kinds, a \in Accounts, l \in AcctLabel : CreateProvider(p, k, a, l)
    \/ \E p \in Providers : RemoveProvider(p)
    \/ \E e \in Edits : EditStep(e)
    \/ \E d \in Deletes : DeleteStep(d)
    \/ \E m \in Merges : MergeStep(m)

Spec == Init /\ [][Next]_vars

-----------------------------------------------------------------------------
(* Properties.                                                             *)

\* Every table, lock and request holds what it may hold.
TypeOK ==
    /\ kind \in [Providers -> Kinds \cup {NoKind}]
    /\ accts \in [Accounts -> Acct \cup {NoAcct}]
    /\ exclusive \in [Providers -> Txns \cup {NoTxn}]
    /\ keyShare \in [Providers -> SUBSET Merges]
    /\ noKey \in [Providers -> Merges \cup {NoTxn}]
    /\ rowLock \in [Accounts -> Txns \cup {NoTxn}]
    /\ edit \in [Edits -> EditReq]
    /\ del \in [Deletes -> DeleteReq]
    /\ mrg \in [Merges -> MergeReq]
    /\ touched \in [Merges -> BOOLEAN]

\* "A provider always keeps at least one account": deletes that race each other,
\* a merge or the provider's own removal never leave a provider without one.
NeverEmpty == \A p \in Providers : Exists(p) => Of(p) # {}

\* No account is left behind by its provider, and its credentials are of the kind
\* its provider has: an account added while its provider is merged or deleted
\* never lands under another kind.
CredentialsFitKind == \A a \in Live : kind[accts[a].provider] = accts[a].kind

\* Why the two invariants above hold: the parts that make them inductive.
\* An exclusive lock leaves no other key-share lock on the row.
Compatible == \A p \in Providers : exclusive[p] # NoTxn => keyShare[p] \subseteq {exclusive[p]}

\* An account is added under the kind that was read.
EditOK == \A e \in Edits :
    /\ edit[e].step = "add" => /\ edit[e].provider \in Providers
                               /\ edit[e].kind \in Kinds
                               /\ Exists(edit[e].provider) => kind[edit[e].provider] = edit[e].kind
    /\ edit[e].step = "relabel" => edit[e].account \in Accounts

\* A delete names an account that is its provider's for as long as both exist;
\* past the count it holds the provider, which has another account.
DeleteOK == \A d \in Deletes :
    /\ del[d].step # "idle" =>
        /\ del[d].account \in Accounts
        /\ del[d].provider \in Providers
        /\ Exists(del[d].provider) /\ del[d].account \in Live
                => accts[del[d].account].provider = del[d].provider
    /\ del[d].step = "count" /\ Exists(del[d].provider) => exclusive[del[d].provider] = d
    /\ del[d].step \in {"delete", "commit"} =>
        /\ Exists(del[d].provider)
        /\ exclusive[del[d].provider] = d
        /\ \E b \in Of(del[d].provider) : b # del[d].account
    /\ del[d].step = "commit" => rowLock[del[d].account] = d

\* A merge keeps the rows it moves, and the target they move to, locked; at commit
\* it also holds the source and every account the source still has.
MergeOK == \A m \in Merges :
    /\ mrg[m].step # "idle" =>
        /\ mrg[m].source \in Providers
        /\ mrg[m].target \in Providers
        /\ mrg[m].source # mrg[m].target
        /\ Exists(mrg[m].source) /\ Exists(mrg[m].target) => kind[mrg[m].source] = kind[mrg[m].target]
    /\ mrg[m].step \in {"target", "source", "commit"} =>
        /\ mrg[m].moved \subseteq Of(mrg[m].source)
        /\ \A a \in mrg[m].moved : rowLock[a] = m
        /\ mrg[m].moved # {} => Exists(mrg[m].target) /\ m \in keyShare[mrg[m].target]
    /\ mrg[m].step = "commit" =>
        /\ Exists(mrg[m].source)
        /\ exclusive[mrg[m].source] = m
        /\ \A a \in Of(mrg[m].source) : rowLock[a] = m

IInv == TypeOK /\ NeverEmpty /\ CredentialsFitKind /\ Compatible /\ EditOK /\ DeleteOK /\ MergeOK

\* Labels within a provider are distinct, the null label included.
LabelsUnique == \A a, b \in Live :
    a # b /\ accts[a].provider = accts[b].provider => accts[a].label # accts[b].label

\* A merge during which nobody else wrote the two providers brings every account
\* of the source over, loses none, and leaves labels distinct when they were.
CleanMergeKeepsAll ==
    [][\A m \in Merges :
        (mrg[m].step = "commit" /\ ~touched[m] /\ kind'[mrg[m].source] = NoKind /\ mrg'[m] = IdleMrg)
        => /\ \A a \in Live : accts'[a] # NoAcct
           /\ \A a \in Of(mrg[m].source) : accts'[a].provider = mrg[m].target
           /\ LabelsUnique => LabelsUnique']_vars
=============================================================================
