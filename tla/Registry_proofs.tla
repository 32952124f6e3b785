-------------------------- MODULE Registry_proofs --------------------------
(***************************************************************************)
(* Proofs about Registry, for any number of providers, accounts, labels    *)
(* and requests: no provider is ever left without an account, an account's *)
(* credentials are always of the kind its provider has, and a merge nobody *)
(* disturbs loses no account and no distinct label.                        *)
(*                                                                         *)
(* Neither is inductive by itself.  IInv adds what the requests know while *)
(* they are under way: a delete past its count holds the provider and has  *)
(* seen a second account (DeleteOK), a merge holds the rows it moves and   *)
(* the target they move to (MergeOK), and exclusive locks exclude          *)
(* (Compatible).  One lemma per action, one step per conjunct.  The merge  *)
(* needs CleanMergesKnow besides: what it read of its two providers is     *)
(* still true as long as no write to either was noticed.                   *)
(***************************************************************************)
EXTENDS Registry, TLAPS

\* A merge that has not begun is a merge request.
LEMMA IdleMrgType == IdleMrg \in MergeReq
<1>1. NoLabels \in [{} -> Labels]
    BY DEF NoLabels
<1>2. NoLabels \in Labelings
    BY <1>1 DEF Labelings
<1>. QED  BY <1>2 DEF IdleMrg, MergeReq

\* A delete request that goes on to its next step is still one.
LEMMA DeleteGotoType ==
    ASSUME TypeOK, NEW d \in Deletes, DeleteGoto(d, "count") \/ DeleteGoto(d, "commit")
    PROVE  del' \in [Deletes -> DeleteReq]
<1>1. del[d] \in DeleteReq
    BY DEF TypeOK
<1>2. /\ [del[d] EXCEPT !.step = "count"] \in DeleteReq
      /\ [del[d] EXCEPT !.step = "commit"] \in DeleteReq
    BY <1>1 DEF DeleteReq
<1>. QED  BY <1>2 DEF TypeOK, DeleteGoto

\* What a merge makes of an account at commit: moved ones go to the target with the
\* kind they had, the others of the source are deleted, the rest stay as they are.
LEMMA MergedAcctIs ==
    ASSUME IInv, NEW m \in Merges, mrg[m].step = "commit", NEW a \in Accounts
    PROVE  /\ a \in mrg[m].moved => /\ MergedAcct(m, a) \in Acct
                                    /\ MergedAcct(m, a).provider = mrg[m].target
                                    /\ MergedAcct(m, a).kind = accts[a].kind
           /\ a \in Of(mrg[m].source) \ mrg[m].moved => MergedAcct(m, a) = NoAcct
           /\ a \notin Of(mrg[m].source) => MergedAcct(m, a) = accts[a]
<1>1. /\ mrg[m].moved \subseteq Of(mrg[m].source)
      /\ mrg[m].target \in Providers
    BY DEF IInv, MergeOK
<1>2. CASE a \in mrg[m].moved
    <2>1. accts[a] \in Acct
        BY <1>1, <1>2 DEF IInv, TypeOK, Of, Live
    <2>2. mrg[m].labels \in Labelings
        BY DEF IInv, TypeOK, MergeReq
    <2>3. a \in DOMAIN mrg[m].labels => mrg[m].labels[a] \in Labels
        BY <2>2 DEF Labelings
    <2>. QED  BY <1>1, <1>2, <2>1, <2>3 DEF MergedAcct, Acct, AcctLabel
<1>3. CASE a \notin mrg[m].moved
    BY <1>1, <1>3 DEF MergedAcct
<1>. QED  BY <1>2, <1>3

\* A provider comes with its first account, of its own kind.
LEMMA CreateProviderStep ==
    ASSUME IInv, NEW p \in Providers, NEW k \in Kinds, NEW a \in Accounts, NEW l \in AcctLabel,
           CreateProvider(p, k, a, l)
    PROVE  IInv'
<1>1. TypeOK'
    BY DEF IInv, TypeOK, Acct, locks, CreateProvider
<1>2. NeverEmpty'
    BY RowsAssumption DEF IInv, TypeOK, AcctLabel, Exists, Live, Of, CreateProvider,
        FreshAccounts, NeverEmpty
<1>3. CredentialsFitKind'
    BY NullsAssumption DEF IInv, TypeOK, Acct, Exists, Live, CreateProvider, FreshProviders,
        CredentialsFitKind
<1>4. Compatible'
    BY DEF IInv, locks, CreateProvider, Compatible
<1>5. EditOK'
    BY DEF IInv, Exists, CreateProvider, FreshProviders, EditOK
<1>6. DeleteOK'
    BY DEF IInv, Exists, Live, Of, locks, CreateProvider, FreshProviders, FreshAccounts,
        DeleteOK
<1>7. MergeOK'
    BY DEF IInv, Exists, Live, Of, locks, CreateProvider, FreshProviders, FreshAccounts,
        MergeOK
<1>. QED  BY <1>1, <1>2, <1>3, <1>4, <1>5, <1>6, <1>7 DEF IInv

\* The cascade takes every account of the provider; no transaction holds any of
\* them.
LEMMA RemoveProviderStep ==
    ASSUME IInv, NEW p \in Providers, RemoveProvider(p)
    PROVE  IInv'
<1>1. TypeOK'
    BY DEF IInv, TypeOK, locks, RemoveProvider, Touch
<1>2. NeverEmpty'
    BY ZenonT(60) DEF IInv, TypeOK, Exists, Live, Of, RemoveProvider, NeverEmpty
<1>3. CredentialsFitKind'
    BY DEF IInv, Live, Of, RemoveProvider, CredentialsFitKind
<1>4. Compatible'
    BY DEF IInv, locks, RemoveProvider, Compatible
<1>5. EditOK'
    BY DEF IInv, Exists, RemoveProvider, EditOK
<1>6. DeleteOK'
    BY TxnsAssumption DEF IInv, TypeOK, Acct, Exists, Live, Of, locks, RemoveProvider, NoLock,
        NoExclusive, DeleteOK
<1>7. MergeOK'
    BY TxnsAssumption DEF IInv, Exists, Live, Of, locks, RemoveProvider, NoLock, NoExclusive,
        MergeOK
<1>. QED  BY <1>1, <1>2, <1>3, <1>4, <1>5, <1>6, <1>7 DEF IInv

\* A request that only reads records the provider's kind.
LEMMA ReadForAddStep ==
    ASSUME IInv, NEW e \in Edits, NEW p \in Providers, NEW l \in AcctLabel,
           ReadForAdd(e, p, l)
    PROVE  IInv'
<1>1. TypeOK'
    BY DEF IInv, TypeOK, EditReq, locks, ReadForAdd
<1>2. NeverEmpty'
    BY DEF IInv, Exists, Live, Of, ReadForAdd, NeverEmpty
<1>3. CredentialsFitKind'
    BY DEF IInv, Live, ReadForAdd, CredentialsFitKind
<1>4. Compatible'
    BY DEF IInv, locks, ReadForAdd, Compatible
<1>5. EditOK'
    BY DEF IInv, TypeOK, Exists, ReadForAdd, EditOK
<1>6. DeleteOK'
    BY DEF IInv, Exists, Live, Of, locks, ReadForAdd, DeleteOK
<1>7. MergeOK'
    BY DEF IInv, Exists, Live, Of, locks, ReadForAdd, MergeOK
<1>. QED  BY <1>1, <1>2, <1>3, <1>4, <1>5, <1>6, <1>7 DEF IInv

\* The foreign key makes sure the provider still exists, and a kind never changes.
LEMMA AddAccountStep ==
    ASSUME IInv, NEW e \in Edits, NEW a \in Accounts, AddAccount(e, a)
    PROVE  IInv'
<1>1. TypeOK'
    <2>1. accts' \in [Accounts -> Acct \cup {NoAcct}]
        BY DEF IInv, TypeOK, EditOK, EditReq, Acct, AddAccount
    <2>2. edit' \in [Edits -> EditReq]
        BY NullsAssumption DEF IInv, TypeOK, EditReq, AcctLabel, IdleEdit, AddAccount
    <2>3. touched' \in [Merges -> BOOLEAN]
        BY DEF IInv, TypeOK, AddAccount, Touch
    <2>. QED  BY <2>1, <2>2, <2>3 DEF IInv, TypeOK, AddAccount, locks
<1>2. NeverEmpty'
    <2>. SUFFICES ASSUME NEW p \in Providers, Exists(p)
                  PROVE  Of(p)' # {}
        BY DEF NeverEmpty, AddAccount, Exists
    <2>1. PICK b \in Of(p) : TRUE
        BY DEF IInv, NeverEmpty
    <2>2. accts'[b] = accts[b]
        BY <2>1 DEF IInv, TypeOK, AddAccount, FreshAccounts, Of, Live
    <2>. QED  BY <2>1, <2>2 DEF Of, Live
<1>3. CredentialsFitKind'
    <2>1. CASE accts' = accts
        BY <2>1 DEF IInv, CredentialsFitKind, AddAccount, Live
    <2>2. CASE accts' # accts
        <3>1. /\ Exists(edit[e].provider)
              /\ accts' = [accts EXCEPT ![a] = [provider |-> edit[e].provider,
                                label |-> edit[e].label, kind |-> edit[e].kind]]
            BY <2>2 DEF AddAccount
        <3>2. kind[edit[e].provider] = edit[e].kind
            BY <3>1 DEF IInv, EditOK, AddAccount
        <3>. QED  BY <3>1, <3>2 DEF IInv, TypeOK, CredentialsFitKind, AddAccount, Live
    <2>. QED  BY <2>1, <2>2
<1>4. Compatible'
    BY DEF IInv, locks, AddAccount, Compatible
<1>5. EditOK'
    BY DEF IInv, Exists, AddAccount, IdleEdit, EditOK
<1>6. DeleteOK'
    BY DEF IInv, TypeOK, Exists, Live, Of, locks, AddAccount, FreshAccounts, DeleteOK
<1>7. MergeOK'
    BY TxnsAssumption, SMTT(60) DEF IInv, TypeOK, Acct, DeleteReq, Exists, Live, Of, locks, AddAccount,
        FreshAccounts, NoExclusive, MergeOK
<1>. QED  BY <1>1, <1>2, <1>3, <1>4, <1>5, <1>6, <1>7 DEF IInv

\* A request that only reads.
LEMMA ReadForRelabelStep ==
    ASSUME IInv, NEW e \in Edits, NEW a \in Accounts, NEW l \in AcctLabel,
           ReadForRelabel(e, a, l)
    PROVE  IInv'
<1>1. TypeOK'
    BY DEF IInv, TypeOK, Acct, EditReq, Live, locks, ReadForRelabel
<1>2. NeverEmpty'
    BY DEF IInv, Exists, Live, Of, ReadForRelabel, NeverEmpty
<1>3. CredentialsFitKind'
    BY DEF IInv, Live, ReadForRelabel, CredentialsFitKind
<1>4. Compatible'
    BY DEF IInv, locks, ReadForRelabel, Compatible
<1>5. EditOK'
    BY DEF IInv, Exists, ReadForRelabel, EditOK
<1>6. DeleteOK'
    BY DEF IInv, Exists, Live, Of, locks, ReadForRelabel, DeleteOK
<1>7. MergeOK'
    BY DEF IInv, Exists, Live, Of, locks, ReadForRelabel, MergeOK
<1>. QED  BY <1>1, <1>2, <1>3, <1>4, <1>5, <1>6, <1>7 DEF IInv

\* A label changes, the provider of an account does not.
LEMMA RelabelAccountStep ==
    ASSUME IInv, NEW e \in Edits, RelabelAccount(e)
    PROVE  IInv'
<1>1. TypeOK'
    <2>1. edit' \in [Edits -> EditReq]
        BY DEF IInv, TypeOK, EditReq, AcctLabel, RelabelAccount, IdleEdit
    <2>2. accts' \in [Accounts -> Acct \cup {NoAcct}]
        <3>1. CASE edit[e].account \in Live
            <4>1. accts[edit[e].account] \in Acct /\ edit[e].label \in AcctLabel
                BY <3>1 DEF IInv, TypeOK, EditReq, Live
            <4>2. [accts[edit[e].account] EXCEPT !.label = edit[e].label] \in Acct
                BY <4>1 DEF Acct
            <4>. QED  BY <3>1, <4>2 DEF IInv, TypeOK, RelabelAccount
        <3>2. CASE edit[e].account \notin Live
            BY <3>2 DEF IInv, TypeOK, RelabelAccount
        <3>. QED  BY <3>1, <3>2
    <2>3. touched' \in [Merges -> BOOLEAN]
        BY DEF IInv, TypeOK, RelabelAccount, Touch
    <2>. QED  BY <2>1, <2>2, <2>3 DEF IInv, TypeOK, RelabelAccount, locks
<1>2. NeverEmpty'
    BY RowsAssumption DEF IInv, TypeOK, Acct, AcctLabel, EditReq, Exists, Live, Of,
        RelabelAccount, IdleEdit, NeverEmpty
<1>3. CredentialsFitKind'
    BY DEF IInv, TypeOK, Acct, Live, RelabelAccount, CredentialsFitKind
<1>4. Compatible'
    BY DEF IInv, locks, RelabelAccount, Compatible
<1>5. EditOK'
    BY DEF IInv, Exists, RelabelAccount, IdleEdit, EditOK
<1>6. DeleteOK'
    <2>1. \A b \in Accounts : /\ (accts'[b] = NoAcct) = (accts[b] = NoAcct)
                              /\ accts'[b] # NoAcct => accts'[b].provider = accts[b].provider
        BY RowsAssumption DEF IInv, TypeOK, EditOK, EditReq, Acct, AcctLabel, Live, RelabelAccount
    <2>2. Live' = Live /\ \A p \in Providers : Of(p)' = Of(p)
        BY <2>1 DEF Of, Live
    <2>3. UNCHANGED <<kind, locks, del>>
        BY DEF RelabelAccount
    <2>4. \A b \in Live : accts'[b].provider = accts[b].provider
        BY <2>1, <2>2 DEF Live
    <2>. QED  BY <2>2, <2>3, <2>4 DEF IInv, DeleteOK, Exists, locks
<1>7. MergeOK'
    <2>1. \A b \in Accounts : /\ (accts'[b] = NoAcct) = (accts[b] = NoAcct)
                              /\ accts'[b] # NoAcct => accts'[b].provider = accts[b].provider
        BY RowsAssumption DEF IInv, TypeOK, EditOK, EditReq, Acct, AcctLabel, Live, RelabelAccount
    <2>2. \A p \in Providers : Of(p)' = Of(p)
        BY <2>1 DEF Of, Live
    <2>3. UNCHANGED <<kind, locks, mrg>>
        BY DEF RelabelAccount
    <2>. QED  BY <2>2, <2>3 DEF IInv, TypeOK, MergeOK, MergeReq, Exists, locks
<1>. QED  BY <1>1, <1>2, <1>3, <1>4, <1>5, <1>6, <1>7 DEF IInv

\* A delete starts with an account that is its provider's.
LEMMA ReadForDeleteStep ==
    ASSUME IInv, NEW d \in Deletes, NEW a \in Accounts, ReadForDelete(d, a)
    PROVE  IInv'
<1>1. TypeOK'
    BY DEF IInv, TypeOK, Acct, DeleteReq, Live, locks, ReadForDelete
<1>2. NeverEmpty'
    BY DEF IInv, Exists, Live, Of, ReadForDelete, NeverEmpty
<1>3. CredentialsFitKind'
    BY DEF IInv, Live, ReadForDelete, CredentialsFitKind
<1>4. Compatible'
    BY DEF IInv, locks, ReadForDelete, Compatible
<1>5. EditOK'
    BY DEF IInv, Exists, ReadForDelete, EditOK
<1>6. DeleteOK'
    BY DEF IInv, TypeOK, Acct, Exists, Live, Of, locks, ReadForDelete, DeleteOK
<1>7. MergeOK'
    BY DEF IInv, Exists, Live, Of, locks, ReadForDelete, MergeOK
<1>. QED  BY <1>1, <1>2, <1>3, <1>4, <1>5, <1>6, <1>7 DEF IInv

\* FOR UPDATE is granted only when nobody holds the provider's row.
LEMMA LockProviderStep ==
    ASSUME IInv, NEW d \in Deletes, LockProvider(d)
    PROVE  IInv'
<1>1. TypeOK'
    <2>1. del' \in [Deletes -> DeleteReq]
        BY DeleteGotoType DEF IInv, LockProvider
    <2>2. exclusive' \in [Providers -> Txns \cup {NoTxn}]
        BY DEF IInv, TypeOK, Txns, LockProvider
    <2>. QED  BY <2>1, <2>2 DEF IInv, TypeOK, LockProvider, locks
<1>2. NeverEmpty'
    BY DEF IInv, Exists, Live, Of, LockProvider, NeverEmpty
<1>3. CredentialsFitKind'
    BY DEF IInv, Live, LockProvider, CredentialsFitKind
<1>4. Compatible'
    BY DEF IInv, LockProvider, NoLock, Compatible
<1>5. EditOK'
    BY DEF IInv, Exists, LockProvider, EditOK
<1>6. DeleteOK'
    BY TxnsAssumption DEF IInv, TypeOK, Exists, Live, Of, LockProvider, NoLock, NoExclusive,
        DeleteGoto, DeleteOK
<1>7. MergeOK'
    BY TxnsAssumption DEF IInv, Exists, Live, Of, LockProvider, NoLock, NoExclusive, MergeOK
<1>. QED  BY <1>1, <1>2, <1>3, <1>4, <1>5, <1>6, <1>7 DEF IInv

\* Under the lock, the count says whether another account stays.
LEMMA CountAccountsStep ==
    ASSUME IInv, NEW d \in Deletes, CountAccounts(d)
    PROVE  IInv'
<1>1. TypeOK'
    <2>1. del' \in [Deletes -> DeleteReq]
        <3>1. CASE Several(del[d].provider)
            BY <3>1, SMTT(60) DEF IInv, TypeOK, DeleteReq, DeleteGoto, CountAccounts
        <3>2. CASE ~Several(del[d].provider)
            BY <3>2 DEF IInv, TypeOK, DeleteReq, IdleDel, CountAccounts
        <3>. QED  BY <3>1, <3>2
    <2>2. /\ exclusive' \in [Providers -> Txns \cup {NoTxn}]
          /\ keyShare' \in [Providers -> SUBSET Merges]
          /\ noKey' \in [Providers -> Merges \cup {NoTxn}]
          /\ rowLock' \in [Accounts -> Txns \cup {NoTxn}]
        BY DEF IInv, TypeOK, Txns, CountAccounts, ReleaseLocks, locks
    <2>. QED  BY <2>1, <2>2 DEF IInv, TypeOK, CountAccounts
<1>2. NeverEmpty'
    BY DEF IInv, Exists, Live, Of, CountAccounts, NeverEmpty
<1>3. CredentialsFitKind'
    BY DEF IInv, Live, CountAccounts, CredentialsFitKind
<1>4. Compatible'
    BY DEF IInv, locks, CountAccounts, ReleaseLocks, Compatible
<1>5. EditOK'
    BY DEF IInv, Exists, CountAccounts, EditOK
<1>6. DeleteOK'
    <2>1. CASE Several(del[d].provider)
        <3>1. PICK b \in Of(del[d].provider) : b # del[d].account
            BY <2>1 DEF Several
        <3>2. Exists(del[d].provider)
            BY <3>1, NullsAssumption DEF IInv, TypeOK, CredentialsFitKind, Acct, Of, Live, Exists
        <3>3. UNCHANGED <<kind, accts, exclusive, rowLock>>
            BY <2>1 DEF CountAccounts, locks
        <3>4. del' = [del EXCEPT ![d].step = "delete"]
            BY <2>1 DEF CountAccounts, DeleteGoto
        <3>5. del[d].step = "count"
            BY DEF CountAccounts
        <3>. QED  BY <3>1, <3>2, <3>3, <3>4, <3>5 DEF IInv, TypeOK, DeleteReq, DeleteOK, Exists, Live, Of
    <2>2. CASE ~Several(del[d].provider)
        BY <2>2, TxnsAssumption, SMTT(60) DEF IInv, TypeOK, DeleteReq, DeleteOK, Exists, Live, Of, IdleDel,
            CountAccounts, ReleaseLocks, Txns
    <2>. QED  BY <2>1, <2>2
<1>7. MergeOK'
    BY TxnsAssumption DEF IInv, Exists, Live, Of, locks, CountAccounts, ReleaseLocks, MergeOK
<1>. QED  BY <1>1, <1>2, <1>3, <1>4, <1>5, <1>6, <1>7 DEF IInv

\* The account's row is locked until the commit.
LEMMA DeleteRowStep ==
    ASSUME IInv, NEW d \in Deletes, DeleteRow(d)
    PROVE  IInv'
<1>1. TypeOK'
    <2>1. del' \in [Deletes -> DeleteReq]
        BY DeleteGotoType DEF IInv, DeleteRow
    <2>2. rowLock' \in [Accounts -> Txns \cup {NoTxn}]
        BY DEF IInv, TypeOK, Txns, DeleteRow
    <2>. QED  BY <2>1, <2>2 DEF IInv, TypeOK, DeleteRow, locks
<1>2. NeverEmpty'
    BY DEF IInv, Exists, Live, Of, DeleteRow, NeverEmpty
<1>3. CredentialsFitKind'
    BY DEF IInv, Live, DeleteRow, CredentialsFitKind
<1>4. Compatible'
    BY DEF IInv, DeleteRow, Compatible
<1>5. EditOK'
    BY DEF IInv, Exists, DeleteRow, EditOK
<1>6. DeleteOK'
    BY DEF IInv, TypeOK, Exists, Live, Of, DeleteRow, DeleteGoto, DeleteOK
<1>7. MergeOK'
    BY TxnsAssumption DEF IInv, Exists, Live, Of, DeleteRow, MergeOK
<1>. QED  BY <1>1, <1>2, <1>3, <1>4, <1>5, <1>6, <1>7 DEF IInv

\* The account that was counted besides the deleted one is still there.
LEMMA CommitDeleteStep ==
    ASSUME IInv, NEW d \in Deletes, CommitDelete(d)
    PROVE  IInv'
<1>1. TypeOK'
    BY DEF IInv, TypeOK, DeleteReq, CommitDelete, IdleDel, ReleaseLocks, Touch
<1>2. NeverEmpty'
    <2>. SUFFICES ASSUME NEW p \in Providers, Exists(p)
                  PROVE  Of(p)' # {}
        BY DEF NeverEmpty, CommitDelete, Exists
    <2>1. PICK b \in Of(p) : b # del[d].account
        <3>1. CASE p = del[d].provider
            BY <3>1 DEF IInv, DeleteOK, CommitDelete
        <3>2. CASE p # del[d].provider
            BY <3>2 DEF IInv, NeverEmpty, DeleteOK, CommitDelete, Of
        <3>. QED  BY <3>1, <3>2
    <2>2. accts'[b] = accts[b]
        BY <2>1 DEF IInv, TypeOK, CommitDelete, Of, Live
    <2>. QED  BY <2>1, <2>2 DEF Of, Live
<1>3. CredentialsFitKind'
    BY DEF IInv, Live, CommitDelete, CredentialsFitKind
<1>4. Compatible'
    BY DEF IInv, CommitDelete, ReleaseLocks, Compatible
<1>5. EditOK'
    BY DEF IInv, Exists, CommitDelete, EditOK
<1>6. DeleteOK'
    BY DEF IInv, TypeOK, Exists, Live, Of, CommitDelete, IdleDel, ReleaseLocks, DeleteOK
<1>7. MergeOK'
    <2>1. del[d].account \in Accounts /\ rowLock[del[d].account] = d
        BY DEF IInv, DeleteOK, CommitDelete
    <2>2. \A p \in Providers : /\ Of(p)' \subseteq Of(p)
                               /\ Of(p) \subseteq Of(p)' \cup {del[d].account}
        BY <2>1 DEF IInv, TypeOK, CommitDelete, Of, Live
    <2>3. UNCHANGED <<kind, mrg>>
        BY DEF CommitDelete
    <2>4. \A m \in Merges :
            /\ \A a \in Accounts : rowLock[a] = m => rowLock'[a] = m
            /\ \A p \in Providers : /\ exclusive[p] = m => exclusive'[p] = m
                                    /\ m \in keyShare[p] => m \in keyShare'[p]
        BY TxnsAssumption DEF IInv, TypeOK, CommitDelete, ReleaseLocks
    <2>5. \A m \in Merges : \A a \in Accounts : rowLock[a] = m => a # del[d].account
        BY <2>1, TxnsAssumption
    <2>6. \A m \in Merges : mrg[m].step # "idle" =>
            mrg[m].source \in Providers /\ mrg[m].target \in Providers
        BY DEF IInv, MergeOK
    <2>7. \A m \in Merges : mrg[m].step \in {"target", "source", "commit"} =>
            /\ mrg[m].moved \subseteq Of(mrg[m].source)'
            /\ \A a \in mrg[m].moved : rowLock'[a] = m
        <3>1. \A p \in Providers : Of(p) \subseteq Accounts
            BY DEF Of, Live
        <3>. QED  BY <2>2, <2>3, <2>4, <2>5, <2>6, <3>1 DEF IInv, MergeOK
    <2>8. \A m \in Merges : mrg[m].step = "commit" =>
            \A a \in Of(mrg[m].source)' : rowLock'[a] = m
        <3>1. \A p \in Providers : Of(p) \subseteq Accounts
            BY DEF Of, Live
        <3>. QED  BY <2>2, <2>3, <2>4, <2>6, <3>1 DEF IInv, MergeOK
    <2>. QED  BY <2>3, <2>4, <2>6, <2>7, <2>8 DEF IInv, MergeOK, Exists
<1>. QED  BY <1>1, <1>2, <1>3, <1>4, <1>5, <1>6, <1>7 DEF IInv

\* A rollback gives locks back; nobody else counts on them.
LEMMA AbortDeleteStep ==
    ASSUME IInv, NEW d \in Deletes, AbortDelete(d)
    PROVE  IInv'
<1>1. TypeOK'
    BY DEF IInv, TypeOK, DeleteReq, AbortDelete, IdleDel, ReleaseLocks
<1>2. NeverEmpty'
    BY DEF IInv, Exists, Live, Of, AbortDelete, NeverEmpty
<1>3. CredentialsFitKind'
    BY DEF IInv, Live, AbortDelete, CredentialsFitKind
<1>4. Compatible'
    BY DEF IInv, AbortDelete, ReleaseLocks, Compatible
<1>5. EditOK'
    BY DEF IInv, Exists, AbortDelete, EditOK
<1>6. DeleteOK'
    BY DEF IInv, TypeOK, Exists, Live, Of, AbortDelete, IdleDel, ReleaseLocks, DeleteOK
<1>7. MergeOK'
    BY TxnsAssumption DEF IInv, Exists, Live, Of, AbortDelete, ReleaseLocks, MergeOK
<1>. QED  BY <1>1, <1>2, <1>3, <1>4, <1>5, <1>6, <1>7 DEF IInv

\* A merge starts with two providers of one kind.
LEMMA ReadForMergeStep ==
    ASSUME IInv, NEW m \in Merges, NEW s \in Providers, NEW t \in Providers,
           ReadForMerge(m, s, t)
    PROVE  IInv'
<1>1. TypeOK'
    <2>1. Of(s) \in SUBSET Accounts
        BY DEF Of, Live
    <2>2. PICK f \in [Of(s) -> Labels] :
            mrg' = [mrg EXCEPT ![m] = [step |-> "relabel", source |-> s, target |-> t,
                                       labels |-> f, todo |-> Of(s), moved |-> {}]]
        BY DEF ReadForMerge, MergedLabels
    <2>3. f \in Labelings
        BY <2>1 DEF Labelings
    <2>4. mrg' \in [Merges -> MergeReq]
        BY <2>1, <2>2, <2>3 DEF IInv, TypeOK, MergeReq
    <2>5. touched' \in [Merges -> BOOLEAN]
        BY DEF IInv, TypeOK, ReadForMerge
    <2>. QED  BY <2>4, <2>5 DEF IInv, TypeOK, ReadForMerge, locks
<1>2. NeverEmpty'
    BY DEF IInv, Exists, Live, Of, ReadForMerge, NeverEmpty
<1>3. CredentialsFitKind'
    BY DEF IInv, Live, ReadForMerge, CredentialsFitKind
<1>4. Compatible'
    BY DEF IInv, locks, ReadForMerge, Compatible
<1>5. EditOK'
    BY DEF IInv, Exists, ReadForMerge, EditOK
<1>6. DeleteOK'
    BY DEF IInv, Exists, Live, Of, locks, ReadForMerge, DeleteOK
<1>7. MergeOK'
    BY DEF IInv, Exists, Live, Of, locks, ReadForMerge, MergeAllowed, MergeOK
<1>. QED  BY <1>1, <1>2, <1>3, <1>4, <1>5, <1>6, <1>7 DEF IInv

\* A merge locks an account row nobody else holds.
LEMMA MergeRelabelStep ==
    ASSUME IInv, NEW m \in Merges, NEW a \in Accounts, MergeRelabel(m, a)
    PROVE  IInv'
<1>1. TypeOK'
    <2>1. mrg' \in [Merges -> MergeReq]
        <3>1. mrg[m] \in MergeReq
            BY DEF IInv, TypeOK
        <3>2. [mrg[m] EXCEPT !.todo = @ \ {a}] \in MergeReq
            BY <3>1 DEF MergeReq
        <3>. QED  BY <3>2 DEF IInv, TypeOK, MergeRelabel
    <2>2. rowLock' \in [Accounts -> Txns \cup {NoTxn}]
        BY DEF IInv, TypeOK, Txns, MergeRelabel
    <2>. QED  BY <2>1, <2>2 DEF IInv, TypeOK, MergeRelabel, locks
<1>2. NeverEmpty'
    BY DEF IInv, Exists, Live, Of, MergeRelabel, NeverEmpty
<1>3. CredentialsFitKind'
    BY DEF IInv, Live, MergeRelabel, CredentialsFitKind
<1>4. Compatible'
    BY DEF IInv, MergeRelabel, Compatible
<1>5. EditOK'
    BY DEF IInv, Exists, MergeRelabel, EditOK
<1>6. DeleteOK'
    BY TxnsAssumption DEF IInv, Exists, Live, Of, MergeRelabel, DeleteOK
<1>7. MergeOK'
    BY TxnsAssumption DEF IInv, Exists, Live, Of, MergeRelabel, MergeOK
<1>. QED  BY <1>1, <1>2, <1>3, <1>4, <1>5, <1>6, <1>7 DEF IInv

\* The moved rows are locked, and so is the target they move to.
LEMMA MergeMoveStep ==
    ASSUME IInv, NEW m \in Merges, MergeMove(m)
    PROVE  IInv'
<1>1. TypeOK'
    <2>. DEFINE s == mrg[m].source
                t == mrg[m].target
    <2>1. /\ mrg' = [mrg EXCEPT ![m].step = "target", ![m].moved = Of(s)]
          /\ rowLock' = [a \in Accounts |-> IF a \in Of(s) THEN m ELSE rowLock[a]]
          /\ keyShare' = IF Of(s) # {} THEN [keyShare EXCEPT ![t] = @ \cup {m}] ELSE keyShare
          /\ UNCHANGED <<kind, accts, exclusive, noKey, edit, del, touched>>
          /\ Exists(t) /\ NoExclusive(t, m)
          /\ \A a \in Of(s) : rowLock[a] \in {NoTxn, m}
          /\ mrg[m].step = "relabel"
        BY DEF MergeMove
    <2>2. Of(s) \in SUBSET Accounts
        BY DEF Of, Live
    <2>3. mrg' \in [Merges -> MergeReq]
        <3>1. mrg[m] \in MergeReq
            BY DEF IInv, TypeOK
        <3>2. [mrg[m] EXCEPT !.step = "target", !.moved = Of(s)] \in MergeReq
            BY <2>2, <3>1 DEF MergeReq
        <3>. QED  BY <2>1, <3>2 DEF IInv, TypeOK
    <2>4. rowLock' \in [Accounts -> Txns \cup {NoTxn}]
        BY <2>1 DEF IInv, TypeOK, Txns
    <2>5. keyShare' \in [Providers -> SUBSET Merges]
        BY <2>1 DEF IInv, TypeOK
    <2>. QED  BY <2>1, <2>3, <2>4, <2>5 DEF IInv, TypeOK
<1>2. NeverEmpty'
    BY DEF IInv, NeverEmpty, MergeMove, Exists, Of, Live
<1>3. CredentialsFitKind'
    BY DEF IInv, Live, MergeMove, CredentialsFitKind
<1>4. Compatible'
    BY TxnsAssumption DEF IInv, TypeOK, Compatible, NoExclusive, MergeMove
<1>5. EditOK'
    BY DEF IInv, Exists, MergeMove, EditOK
<1>6. DeleteOK'
    <2>. DEFINE s == mrg[m].source
                t == mrg[m].target
    <2>1. /\ mrg' = [mrg EXCEPT ![m].step = "target", ![m].moved = Of(s)]
          /\ rowLock' = [a \in Accounts |-> IF a \in Of(s) THEN m ELSE rowLock[a]]
          /\ keyShare' = IF Of(s) # {} THEN [keyShare EXCEPT ![t] = @ \cup {m}] ELSE keyShare
          /\ UNCHANGED <<kind, accts, exclusive, noKey, edit, del, touched>>
          /\ Exists(t) /\ NoExclusive(t, m)
          /\ \A a \in Of(s) : rowLock[a] \in {NoTxn, m}
          /\ mrg[m].step = "relabel"
        BY DEF MergeMove
    <2>2. \A d \in Deletes : \A a \in Accounts : rowLock[a] = d => rowLock'[a] = d
        BY <2>1, TxnsAssumption DEF IInv, TypeOK
    <2>. QED  BY <2>1, <2>2 DEF IInv, DeleteOK, Exists, Of, Live
<1>7. MergeOK'
    <2>. DEFINE s == mrg[m].source
                t == mrg[m].target
    <2>1. /\ mrg' = [mrg EXCEPT ![m].step = "target", ![m].moved = Of(s)]
          /\ rowLock' = [a \in Accounts |-> IF a \in Of(s) THEN m ELSE rowLock[a]]
          /\ keyShare' = IF Of(s) # {} THEN [keyShare EXCEPT ![t] = @ \cup {m}] ELSE keyShare
          /\ UNCHANGED <<kind, accts, exclusive, noKey, edit, del, touched>>
          /\ Exists(t) /\ NoExclusive(t, m)
          /\ \A a \in Of(s) : rowLock[a] \in {NoTxn, m}
          /\ mrg[m].step = "relabel"
        BY DEF MergeMove
    <2>2. \A p \in Providers : /\ Of(p)' = Of(p) /\ Exists(p)' = Exists(p)
                             /\ keyShare[p] \subseteq keyShare'[p]
        BY <2>1 DEF IInv, TypeOK, Of, Live, Exists
    <2>3. \A n \in Merges \ {m} : /\ mrg'[n] = mrg[n]
                                  /\ \A a \in Accounts : rowLock[a] = n => rowLock'[a] = n
        BY <2>1, TxnsAssumption DEF IInv, TypeOK
    <2>4. /\ mrg'[m].step = "target" /\ mrg'[m].moved = Of(s)
          /\ mrg'[m].source = s /\ mrg'[m].target = t
          /\ Of(s) # {} => m \in keyShare'[t]
          /\ \A a \in Of(s) : rowLock'[a] = m
        BY <2>1 DEF IInv, TypeOK, MergeReq, MergeOK, Of, Live
    <2>. QED
        BY <2>1, <2>2, <2>3, <2>4 DEF IInv, MergeOK, TypeOK, MergeReq, Of, Live
<1>. QED  BY <1>1, <1>2, <1>3, <1>4, <1>5, <1>6, <1>7 DEF IInv

\* The identity of the target is filled in.
LEMMA MergeTargetStep ==
    ASSUME IInv, NEW m \in Merges, MergeTarget(m)
    PROVE  IInv'
<1>1. TypeOK'
    <2>1. mrg' \in [Merges -> MergeReq]
        <3>1. mrg[m] \in MergeReq
            BY DEF IInv, TypeOK
        <3>2. [mrg[m] EXCEPT !.step = "source"] \in MergeReq
            BY <3>1 DEF MergeReq
        <3>. QED  BY <3>2 DEF IInv, TypeOK, MergeTarget
    <2>2. noKey' \in [Providers -> Merges \cup {NoTxn}]
        BY DEF IInv, TypeOK, Txns, MergeTarget
    <2>. QED  BY <2>1, <2>2 DEF IInv, TypeOK, MergeTarget, locks
<1>2. NeverEmpty'
    BY DEF IInv, Exists, Live, Of, MergeTarget, NeverEmpty
<1>3. CredentialsFitKind'
    BY DEF IInv, Live, MergeTarget, CredentialsFitKind
<1>4. Compatible'
    BY DEF IInv, MergeTarget, Compatible
<1>5. EditOK'
    BY DEF IInv, Exists, MergeTarget, EditOK
<1>6. DeleteOK'
    BY DEF IInv, Exists, Live, Of, MergeTarget, DeleteOK
<1>7. MergeOK'
    BY DEF IInv, Exists, Live, Of, MergeTarget, MergeOK
<1>. QED  BY <1>1, <1>2, <1>3, <1>4, <1>5, <1>6, <1>7 DEF IInv

\* The source is locked, with every account it still has.
LEMMA MergeSourceStep ==
    ASSUME IInv, NEW m \in Merges, MergeSource(m)
    PROVE  IInv'
<1>1. TypeOK'
    <2>1. mrg' \in [Merges -> MergeReq]
        <3>1. mrg[m] \in MergeReq
            BY DEF IInv, TypeOK
        <3>2. [mrg[m] EXCEPT !.step = "commit"] \in MergeReq
            BY <3>1 DEF MergeReq
        <3>. QED  BY <3>2 DEF IInv, TypeOK, MergeSource
    <2>2. /\ exclusive' \in [Providers -> Txns \cup {NoTxn}]
          /\ rowLock' \in [Accounts -> Txns \cup {NoTxn}]
        BY DEF IInv, TypeOK, Txns, MergeSource
    <2>. QED  BY <2>1, <2>2 DEF IInv, TypeOK, MergeSource, locks
<1>2. NeverEmpty'
    BY DEF IInv, Exists, Live, Of, MergeSource, NeverEmpty
<1>3. CredentialsFitKind'
    BY DEF IInv, Live, MergeSource, CredentialsFitKind
<1>4. Compatible'
    BY DEF IInv, MergeSource, NoLock, Compatible
<1>5. EditOK'
    BY DEF IInv, Exists, MergeSource, EditOK
<1>6. DeleteOK'
    BY TxnsAssumption DEF IInv, Exists, Live, Of, MergeSource, NoLock, NoExclusive, DeleteOK
<1>7. MergeOK'
    BY TxnsAssumption DEF IInv, TypeOK, Exists, Live, Of, MergeSource, NoLock, NoExclusive,
        MergeOK
<1>. QED  BY <1>1, <1>2, <1>3, <1>4, <1>5, <1>6, <1>7 DEF IInv

\* The source goes; its accounts are the target's or, added too late, deleted.
LEMMA CommitMergeStep ==
    ASSUME IInv, NEW m \in Merges, CommitMerge(m)
    PROVE  IInv'
<1>1. TypeOK'
    <2>. PICK s \in Providers, t \in Providers : s = mrg[m].source /\ t = mrg[m].target
        BY DEF IInv, MergeOK, CommitMerge
    <2>1. /\ s # t
          /\ kind[s] # NoKind /\ exclusive[s] = m
          /\ mrg[m].moved \subseteq Of(s)
          /\ mrg[m].moved # {} => kind[t] # NoKind /\ kind[s] = kind[t]
        BY DEF IInv, MergeOK, CommitMerge, Exists
    <2>2. \A a \in Accounts :
            /\ a \in mrg[m].moved => /\ accts'[a] \in Acct
                                     /\ accts'[a].provider = t
                                     /\ accts'[a].kind = accts[a].kind
            /\ a \in Of(s) \ mrg[m].moved => accts'[a] = NoAcct
            /\ a \notin Of(s) => accts'[a] = accts[a]
        BY <2>1, MergedAcctIs DEF CommitMerge
    <2>3. kind' = [kind EXCEPT ![s] = NoKind]
        BY DEF CommitMerge
    <2>4. accts' \in [Accounts -> Acct \cup {NoAcct}]
        <3>1. \A a \in Accounts : accts'[a] \in Acct \cup {NoAcct}
            BY <2>2 DEF IInv, TypeOK, Of
        <3>2. accts' = [a \in Accounts |-> accts'[a]]
            BY DEF CommitMerge
        <3>. QED  BY <3>1, <3>2
    <2>5. mrg' \in [Merges -> MergeReq] /\ touched' \in [Merges -> BOOLEAN]
        BY IdleMrgType DEF IInv, TypeOK, CommitMerge
    <2>6. /\ exclusive' \in [Providers -> Txns \cup {NoTxn}]
          /\ keyShare' \in [Providers -> SUBSET Merges]
          /\ noKey' \in [Providers -> Merges \cup {NoTxn}]
          /\ rowLock' \in [Accounts -> Txns \cup {NoTxn}]
        BY DEF IInv, TypeOK, Txns, CommitMerge, ReleaseLocks
    <2>7. kind' \in [Providers -> Kinds \cup {NoKind}]
        BY <2>3 DEF IInv, TypeOK
    <2>. QED  BY <2>4, <2>5, <2>6, <2>7 DEF IInv, TypeOK, CommitMerge
<1>2. NeverEmpty'
    <2>. PICK s \in Providers, t \in Providers : s = mrg[m].source /\ t = mrg[m].target
        BY DEF IInv, MergeOK, CommitMerge
    <2>1. /\ s # t
          /\ kind[s] # NoKind /\ exclusive[s] = m
          /\ mrg[m].moved \subseteq Of(s)
          /\ mrg[m].moved # {} => kind[t] # NoKind /\ kind[s] = kind[t]
        BY DEF IInv, MergeOK, CommitMerge, Exists
    <2>2. \A a \in Accounts :
            /\ a \in mrg[m].moved => /\ accts'[a] \in Acct
                                     /\ accts'[a].provider = t
                                     /\ accts'[a].kind = accts[a].kind
            /\ a \in Of(s) \ mrg[m].moved => accts'[a] = NoAcct
            /\ a \notin Of(s) => accts'[a] = accts[a]
        BY <2>1, MergedAcctIs DEF CommitMerge
    <2>3. kind' = [kind EXCEPT ![s] = NoKind]
        BY DEF CommitMerge
    <2>. SUFFICES ASSUME NEW p \in Providers, Exists(p)'
                  PROVE  Of(p)' # {}
        BY DEF NeverEmpty
    <2>4. p # s /\ Exists(p)
        BY <2>1, <2>3 DEF IInv, TypeOK, Exists
    <2>5. PICK b \in Of(p) : TRUE
        BY <2>4 DEF IInv, NeverEmpty
    <2>6. accts'[b] = accts[b]
        BY <2>2, <2>4, <2>5 DEF Of, Live
    <2>. QED  BY <2>5, <2>6 DEF Of, Live
<1>3. CredentialsFitKind'
    <2>. PICK s \in Providers, t \in Providers : s = mrg[m].source /\ t = mrg[m].target
        BY DEF IInv, MergeOK, CommitMerge
    <2>1. /\ s # t
          /\ kind[s] # NoKind /\ exclusive[s] = m
          /\ mrg[m].moved \subseteq Of(s)
          /\ mrg[m].moved # {} => kind[t] # NoKind /\ kind[s] = kind[t]
        BY DEF IInv, MergeOK, CommitMerge, Exists
    <2>2. \A a \in Accounts :
            /\ a \in mrg[m].moved => /\ accts'[a] \in Acct
                                     /\ accts'[a].provider = t
                                     /\ accts'[a].kind = accts[a].kind
            /\ a \in Of(s) \ mrg[m].moved => accts'[a] = NoAcct
            /\ a \notin Of(s) => accts'[a] = accts[a]
        BY <2>1, MergedAcctIs DEF CommitMerge
    <2>3. kind' = [kind EXCEPT ![s] = NoKind]
        BY DEF CommitMerge
    <2>. SUFFICES ASSUME NEW a \in Accounts, accts'[a] # NoAcct
                  PROVE  kind'[accts'[a].provider] = accts'[a].kind
        BY DEF CredentialsFitKind, Live
    <2>4. CASE a \in mrg[m].moved
        BY <2>1, <2>2, <2>3, <2>4 DEF IInv, TypeOK, CredentialsFitKind, Of
    <2>5. CASE a \notin mrg[m].moved
        <3>1. a \notin Of(s) /\ accts'[a] = accts[a]
            BY <2>2, <2>5
        <3>2. a \in Live /\ accts[a].provider # s /\ accts[a].provider \in Providers
            BY <3>1 DEF IInv, TypeOK, Acct, Of, Live
        <3>. QED  BY <2>3, <3>1, <3>2 DEF IInv, TypeOK, CredentialsFitKind
    <2>. QED  BY <2>4, <2>5
<1>4. Compatible'
    BY DEF IInv, CommitMerge, ReleaseLocks, Compatible
<1>5. EditOK'
    BY DEF IInv, Exists, CommitMerge, EditOK
<1>6. DeleteOK'
    <2>. PICK s \in Providers, t \in Providers : s = mrg[m].source /\ t = mrg[m].target
        BY DEF IInv, MergeOK, CommitMerge
    <2>1. /\ s # t
          /\ kind[s] # NoKind /\ exclusive[s] = m
          /\ mrg[m].moved \subseteq Of(s)
          /\ mrg[m].moved # {} => kind[t] # NoKind /\ kind[s] = kind[t]
        BY DEF IInv, MergeOK, CommitMerge, Exists
    <2>2. \A a \in Accounts :
            /\ a \in mrg[m].moved => /\ accts'[a] \in Acct
                                     /\ accts'[a].provider = t
                                     /\ accts'[a].kind = accts[a].kind
            /\ a \in Of(s) \ mrg[m].moved => accts'[a] = NoAcct
            /\ a \notin Of(s) => accts'[a] = accts[a]
        BY <2>1, MergedAcctIs DEF CommitMerge
    <2>3. kind' = [kind EXCEPT ![s] = NoKind]
        BY DEF CommitMerge
    <2>4. del' = del
        BY DEF CommitMerge
    <2>5. \A d \in Deletes :
            /\ \A a \in Accounts : rowLock[a] = d => rowLock'[a] = d
            /\ \A p \in Providers : exclusive[p] = d => exclusive'[p] = d /\ p # s
        BY <2>1, TxnsAssumption DEF IInv, TypeOK, CommitMerge, ReleaseLocks
    <2>6. \A p \in Providers \ {s} : Exists(p)' = Exists(p) /\ Of(p) \subseteq Of(p)'
        BY <2>2, <2>3 DEF IInv, TypeOK, Exists, Of, Live
    <2>7. ~Exists(s)'
        BY <2>3 DEF IInv, TypeOK, Exists
    <2>8. ASSUME NEW d \in Deletes, del[d].step # "idle",
                 kind'[del[d].provider] # NoKind, accts'[del[d].account] # NoAcct
          PROVE  accts'[del[d].account].provider = del[d].provider
        <3>1. del[d].account \in Accounts /\ del[d].provider \in Providers \ {s}
            BY <2>3, <2>8 DEF IInv, TypeOK, DeleteOK
        <3>2. Exists(del[d].provider)
            BY <2>3, <2>8, <3>1 DEF IInv, TypeOK, Exists
        <3>3. accts[del[d].account] # NoAcct
            BY <2>2, <2>8, <3>1, RowsAssumption DEF Of, Live
        <3>4. accts[del[d].account].provider = del[d].provider
            BY <2>8, <3>1, <3>2, <3>3 DEF IInv, DeleteOK, Live
        <3>. QED  BY <2>1, <2>2, <3>1, <3>3, <3>4 DEF Of, Live
    <2>. QED  BY <2>4, <2>5, <2>6, <2>7, <2>8 DEF IInv, TypeOK, DeleteReq, DeleteOK, Live, Exists
<1>7. MergeOK'
    <2>. PICK s \in Providers, t \in Providers : s = mrg[m].source /\ t = mrg[m].target
        BY DEF IInv, MergeOK, CommitMerge
    <2>1. /\ s # t
          /\ kind[s] # NoKind /\ exclusive[s] = m
          /\ mrg[m].moved \subseteq Of(s)
          /\ mrg[m].moved # {} => kind[t] # NoKind /\ kind[s] = kind[t]
        BY DEF IInv, MergeOK, CommitMerge, Exists
    <2>2. \A a \in Accounts :
            /\ a \in mrg[m].moved => /\ accts'[a] \in Acct
                                     /\ accts'[a].provider = t
                                     /\ accts'[a].kind = accts[a].kind
            /\ a \in Of(s) \ mrg[m].moved => accts'[a] = NoAcct
            /\ a \notin Of(s) => accts'[a] = accts[a]
        BY <2>1, MergedAcctIs DEF CommitMerge
    <2>3. kind' = [kind EXCEPT ![s] = NoKind]
        BY DEF CommitMerge
    <2>. SUFFICES ASSUME NEW n \in Merges, n # m, mrg[n].step # "idle"
                  PROVE  /\ Exists(mrg[n].source)' /\ Exists(mrg[n].target)'
                                => kind'[mrg[n].source] = kind'[mrg[n].target]
                         /\ mrg[n].step \in {"target", "source", "commit"} =>
                                /\ mrg[n].moved \subseteq Of(mrg[n].source)'
                                /\ \A a \in mrg[n].moved : rowLock'[a] = n
                                /\ mrg[n].moved # {} => /\ Exists(mrg[n].target)'
                                                       /\ n \in keyShare'[mrg[n].target]
                         /\ mrg[n].step = "commit" =>
                                /\ Exists(mrg[n].source)'
                                /\ exclusive'[mrg[n].source] = n
                                /\ \A a \in Of(mrg[n].source)' : rowLock'[a] = n
        <3>1. mrg'[m].step = "idle" /\ \A n \in Merges \ {m} : mrg'[n] = mrg[n]
            BY DEF IInv, TypeOK, CommitMerge, IdleMrg
        <3>. QED  BY <3>1 DEF IInv, MergeOK
    <2>0. mrg'[n] = mrg[n]
        BY DEF IInv, TypeOK, CommitMerge
    <2>4. /\ mrg[n].source \in Providers /\ mrg[n].target \in Providers
          /\ Exists(mrg[n].source) /\ Exists(mrg[n].target) => kind[mrg[n].source] = kind[mrg[n].target]
        BY DEF IInv, MergeOK
    <2>5. \A p \in Providers : Exists(p)' => p # s /\ Exists(p) /\ kind'[p] = kind[p]
        BY <2>1, <2>3 DEF IInv, TypeOK, Exists
    <2>6. /\ \A a \in Accounts : rowLock[a] = n => rowLock'[a] = n
          /\ \A p \in Providers : /\ exclusive[p] = n => exclusive'[p] = n
                                  /\ n \in keyShare[p] => n \in keyShare'[p]
        BY DEF IInv, TypeOK, CommitMerge, ReleaseLocks
    <2>7. \A a \in Of(s) : rowLock[a] = m
        BY DEF IInv, MergeOK, CommitMerge
    <2>8. \A a \in Accounts : rowLock[a] = n => accts'[a] = accts[a]
        BY <2>2, <2>7
    <2>9. s \in Providers /\ keyShare[s] \subseteq {m}
        BY <2>1, TxnsAssumption DEF IInv, Compatible
    <2>10. ASSUME mrg[n].step \in {"target", "source", "commit"}
           PROVE  /\ mrg[n].moved \subseteq Of(mrg[n].source)'
                  /\ \A a \in mrg[n].moved : rowLock'[a] = n
                  /\ mrg[n].moved # {} => Exists(mrg[n].target)' /\ n \in keyShare'[mrg[n].target]
        <3>1. /\ mrg[n].moved \subseteq Of(mrg[n].source)
              /\ \A a \in mrg[n].moved : rowLock[a] = n
              /\ mrg[n].moved # {} => Exists(mrg[n].target) /\ n \in keyShare[mrg[n].target]
            BY <2>10 DEF IInv, MergeOK
        <3>2. mrg[n].moved # {} => mrg[n].target # s
            BY <2>9, <3>1
        <3>3. mrg[n].moved # {} => Exists(mrg[n].target)'
            BY <2>0, <2>3, <2>4, <3>1, <3>2 DEF IInv, TypeOK, Exists
        <3>. QED  BY <2>0, <2>4, <2>6, <2>8, <3>1, <3>3 DEF Of, Live
    <2>11. ASSUME mrg[n].step = "commit"
           PROVE  /\ Exists(mrg[n].source)'
                  /\ exclusive'[mrg[n].source] = n
                  /\ \A a \in Of(mrg[n].source)' : rowLock'[a] = n
        <3>1. /\ Exists(mrg[n].source) /\ exclusive[mrg[n].source] = n
              /\ \A a \in Of(mrg[n].source) : rowLock[a] = n
            BY <2>11 DEF IInv, MergeOK
        <3>2. mrg[n].source # s
            BY <2>1, <3>1
        <3>3. Exists(mrg[n].source)'
            BY <2>0, <2>3, <2>4, <3>1, <3>2 DEF IInv, TypeOK, Exists
        <3>4. mrg[m].moved # {} => t # mrg[n].source
            \* the target is key-share locked by m, so n cannot hold it exclusively
            <4>1. mrg[m].moved # {} => m \in keyShare[t]
                BY DEF IInv, MergeOK, CommitMerge
            <4>2. keyShare[mrg[n].source] \subseteq {n}
                BY <2>4, <3>1, TxnsAssumption DEF IInv, Compatible
            <4>. QED  BY <4>1, <4>2
        <3>5. Of(mrg[n].source)' \subseteq Of(mrg[n].source)
            BY <2>0, <2>1, <2>2, <3>2, <3>4 DEF Of, Live
        <3>. QED  BY <2>0, <2>4, <2>6, <3>1, <3>3, <3>5 DEF Of, Live
    <2>. QED  BY <2>0, <2>4, <2>5, <2>10, <2>11
<1>. QED  BY <1>1, <1>2, <1>3, <1>4, <1>5, <1>6, <1>7 DEF IInv

\* A rollback gives locks back; nobody else counts on them.
LEMMA AbortMergeStep ==
    ASSUME IInv, NEW m \in Merges, AbortMerge(m)
    PROVE  IInv'
<1>1. TypeOK'
    <2>1. IdleMrg \in MergeReq
        BY IdleMrgType
    <2>2. mrg' \in [Merges -> MergeReq] /\ touched' \in [Merges -> BOOLEAN]
        BY <2>1 DEF IInv, TypeOK, AbortMerge
    <2>3. /\ exclusive' \in [Providers -> Txns \cup {NoTxn}]
          /\ keyShare' \in [Providers -> SUBSET Merges]
          /\ noKey' \in [Providers -> Merges \cup {NoTxn}]
          /\ rowLock' \in [Accounts -> Txns \cup {NoTxn}]
        BY DEF IInv, TypeOK, Txns, AbortMerge, ReleaseLocks
    <2>. QED  BY <2>2, <2>3 DEF IInv, TypeOK, AbortMerge
<1>2. NeverEmpty'
    BY DEF IInv, Exists, Live, Of, AbortMerge, NeverEmpty
<1>3. CredentialsFitKind'
    BY DEF IInv, Live, AbortMerge, CredentialsFitKind
<1>4. Compatible'
    BY DEF IInv, AbortMerge, ReleaseLocks, Compatible
<1>5. EditOK'
    BY DEF IInv, Exists, AbortMerge, EditOK
<1>6. DeleteOK'
    BY TxnsAssumption DEF IInv, Exists, Live, Of, AbortMerge, ReleaseLocks, DeleteOK
<1>7. MergeOK'
    BY DEF IInv, TypeOK, Exists, Live, Of, AbortMerge, IdleMrg, ReleaseLocks, MergeOK
<1>. QED  BY <1>1, <1>2, <1>3, <1>4, <1>5, <1>6, <1>7 DEF IInv

\* The tables start empty and nothing is locked.
LEMMA InitIInv == Init => IInv
<1>. SUFFICES ASSUME Init PROVE IInv
    OBVIOUS
<1>1. TypeOK
    BY IdleMrgType DEF Init, TypeOK, EditReq, DeleteReq, AcctLabel, IdleEdit, IdleDel
<1>2. NeverEmpty /\ CredentialsFitKind /\ Compatible
    BY DEF Init, NeverEmpty, CredentialsFitKind, Compatible, Exists, Live
<1>3. EditOK /\ DeleteOK /\ MergeOK
    BY DEF Init, EditOK, DeleteOK, MergeOK, IdleEdit, IdleDel, IdleMrg
<1>. QED  BY <1>1, <1>2, <1>3 DEF IInv

\* Every step of every request preserves the invariant.
LEMMA NextIInv == IInv /\ [Next]_vars => IInv'
<1>. SUFFICES ASSUME IInv, [Next]_vars PROVE IInv'
    OBVIOUS
<1>1. CASE UNCHANGED vars
    BY <1>1 DEF IInv, TypeOK, NeverEmpty, CredentialsFitKind, Compatible, EditOK, DeleteOK, MergeOK,
        Exists, Of, Live, vars, locks
<1>2. ASSUME NEW p \in Providers, NEW k \in Kinds, NEW a \in Accounts, NEW l \in AcctLabel,
             CreateProvider(p, k, a, l)
      PROVE  IInv'
    BY <1>2, CreateProviderStep
<1>3. ASSUME NEW p \in Providers, RemoveProvider(p)
      PROVE  IInv'
    BY <1>3, RemoveProviderStep
<1>4. ASSUME NEW e \in Edits, EditStep(e)
      PROVE  IInv'
    BY <1>4, ReadForAddStep, AddAccountStep, ReadForRelabelStep, RelabelAccountStep
        DEF EditStep, AcctLabel
<1>5. ASSUME NEW d \in Deletes, DeleteStep(d)
      PROVE  IInv'
    BY <1>5, ReadForDeleteStep, LockProviderStep, CountAccountsStep, DeleteRowStep,
        CommitDeleteStep, AbortDeleteStep DEF DeleteStep
<1>6. ASSUME NEW m \in Merges, MergeStep(m)
      PROVE  IInv'
    BY <1>6, ReadForMergeStep, MergeRelabelStep, MergeMoveStep, MergeTargetStep, MergeSourceStep,
        CommitMergeStep, AbortMergeStep DEF MergeStep
<1>. QED  BY <1>1, <1>2, <1>3, <1>4, <1>5, <1>6 DEF Next

\* The invariant holds in every reachable state.
LEMMA IInvHolds == Spec => []IInv
<1>. QED  BY InitIInv, NextIInv, PTL DEF Spec

\* Tables, locks and requests stay within their types.
THEOREM RegistryTypes == Spec => []TypeOK
<1>1. IInv => TypeOK
    BY DEF IInv
<1>. QED  BY <1>1, IInvHolds, PTL

\* However many requests delete, merge, remove and add at once, a provider that
\* exists has an account: the lock taken by deleteUnlessLast is enough.
THEOREM NeverEmptyTheorem == Spec => []NeverEmpty
<1>1. IInv => NeverEmpty
    BY DEF IInv
<1>. QED  BY <1>1, IInvHolds, PTL

\* An account never outlives its provider and never sits under a provider of
\* another kind, whatever merges run while it is added.
THEOREM CredentialsTheorem == Spec => []CredentialsFitKind
<1>1. IInv => CredentialsFitKind
    BY DEF IInv
<1>. QED  BY <1>1, IInvHolds, PTL

\* What a merge nobody disturbed still knows of the two providers it read: the labels
\* it settled are for the accounts the source has now, they differ from one another
\* and from those in use under the target, and what it moves is all the source has.
CleanMerge(m) ==
    mrg[m].step # "idle" /\ ~touched[m] =>
        /\ DOMAIN mrg[m].labels = Of(mrg[m].source)
        /\ \A a \in Of(mrg[m].source), b \in Of(mrg[m].target) : mrg[m].labels[a] # accts[b].label
        /\ \A a, b \in Of(mrg[m].source) : a # b => mrg[m].labels[a] # mrg[m].labels[b]
        /\ mrg[m].step # "relabel" => mrg[m].moved = Of(mrg[m].source)

CleanMergesKnow == \A m \in Merges : CleanMerge(m)

\* A step that leaves the accounts of p alone.
Same(p) == Of(p)' = Of(p) /\ \A b \in Of(p) : accts'[b] = accts[b]

\* A merge is disturbed only through the accounts of its two providers.
LEMMA KeptClean ==
    ASSUME NEW m \in Merges, CleanMerge(m), mrg'[m] = mrg[m],
           mrg[m].step # "idle" /\ ~touched'[m] =>
                ~touched[m] /\ Same(mrg[m].source) /\ Same(mrg[m].target)
    PROVE  CleanMerge(m)'
<1>. SUFFICES ASSUME mrg[m].step # "idle", ~touched'[m]
              PROVE  CleanMerge(m)'
    BY DEF CleanMerge
<1>1. ~touched[m] /\ Same(mrg[m].source) /\ Same(mrg[m].target)
    OBVIOUS
<1>2. Of(mrg[m].source)' = Of(mrg[m].source) /\ Of(mrg[m].target)' = Of(mrg[m].target)
    BY <1>1 DEF Same, Of, Live
<1>. QED  BY <1>1, <1>2 DEF CleanMerge, Same

\* A write that touches the providers ps leaves a merge alone, or is noticed by it.
LEMMA TouchedClean ==
    ASSUME IInv, CleanMergesKnow, UNCHANGED mrg, NEW me, NEW ps, me \notin Merges, Touch(me, ps),
           \A p \in Providers \ ps : Same(p)
    PROVE  CleanMergesKnow'
<1>. SUFFICES ASSUME NEW m \in Merges PROVE CleanMerge(m)'
    BY DEF CleanMergesKnow
<1>1. mrg[m].step # "idle" => mrg[m].source \in Providers /\ mrg[m].target \in Providers
    BY DEF IInv, MergeOK
<1>2. ~touched'[m] => ~touched[m] /\ mrg[m].source \notin ps /\ mrg[m].target \notin ps
    BY DEF Touch
<1>. QED  BY <1>1, <1>2, KeptClean DEF CleanMergesKnow

\* A request that writes no account and no merge changes nothing here.
LEMMA QuietClean ==
    ASSUME CleanMergesKnow, UNCHANGED <<accts, mrg, touched>>
    PROVE  CleanMergesKnow'
<1>. QED  BY DEF CleanMergesKnow, CleanMerge, Of, Live

\* Every write to the accounts of a provider outside merge is noticed by the merges
\* that read that provider.
LEMMA OthersClean ==
    ASSUME IInv, CleanMergesKnow,
           \/ \E p \in Providers, k \in Kinds, a \in Accounts, l \in AcctLabel :
                CreateProvider(p, k, a, l)
           \/ \E p \in Providers : RemoveProvider(p)
           \/ \E e \in Edits : EditStep(e)
           \/ \E d \in Deletes : DeleteStep(d)
    PROVE  CleanMergesKnow'
<1>1. ASSUME NEW p \in Providers, NEW k \in Kinds, NEW a \in Accounts, NEW l \in AcctLabel,
             CreateProvider(p, k, a, l)
      PROVE  CleanMergesKnow'
    <2>1. \A q \in Providers \ {p} : Same(q)
        BY <1>1, RowsAssumption DEF CreateProvider, FreshAccounts, Same, Of, Live, IInv, TypeOK,
            Acct, AcctLabel
    <2>2. \A m \in Merges : p \notin {mrg[m].source, mrg[m].target}
        BY <1>1 DEF CreateProvider, FreshProviders
    <2>3. UNCHANGED <<mrg, touched>>
        BY <1>1 DEF CreateProvider
    <2>4. ASSUME NEW m \in Merges PROVE CleanMerge(m)'
        <3>1. mrg[m].step # "idle" => Same(mrg[m].source) /\ Same(mrg[m].target)
            BY <2>1, <2>2 DEF IInv, MergeOK
        <3>. QED  BY <2>3, <3>1, KeptClean DEF CleanMergesKnow
    <2>. QED  BY <2>4 DEF CleanMergesKnow
<1>2. ASSUME NEW p \in Providers, RemoveProvider(p)
      PROVE  CleanMergesKnow'
    <2>1. \A q \in Providers \ {p} : Same(q)
        BY <1>2 DEF RemoveProvider, Same, Of, Live, IInv, TypeOK
    <2>2. Touch(NoTxn, {p}) /\ UNCHANGED mrg
        BY <1>2 DEF RemoveProvider
    <2>. QED  BY <2>1, <2>2, TouchedClean, TxnsAssumption
<1>3. ASSUME NEW e \in Edits, EditStep(e)
      PROVE  CleanMergesKnow'
    <2>1. CASE UNCHANGED <<accts, mrg, touched>>
        BY <2>1, QuietClean
    <2>2. ASSUME NEW a \in Accounts, AddAccount(e, a), UNCHANGED <<accts, touched>> => FALSE
          PROVE  CleanMergesKnow'
        <3>. DEFINE q == edit[e]
        <3>1. /\ a \notin Live
              /\ accts' = [accts EXCEPT ![a] =
                    [provider |-> q.provider, label |-> q.label, kind |-> q.kind]]
              /\ Touch(NoTxn, {q.provider})
              /\ UNCHANGED mrg
            BY <2>2 DEF AddAccount, FreshAccounts
        <3>2. \A p \in Providers \ {q.provider} : Same(p)
            BY <3>1 DEF Same, Of, Live, IInv, TypeOK
        <3>. QED  BY <3>1, <3>2, TouchedClean, TxnsAssumption
    <2>3. ASSUME RelabelAccount(e), UNCHANGED <<accts, touched>> => FALSE
          PROVE  CleanMergesKnow'
        <3>1. PICK a \in Accounts :
                /\ a \in Live
                /\ accts' = [accts EXCEPT ![a].label = edit[e].label]
                /\ Touch(NoTxn, {accts[a].provider})
                /\ UNCHANGED mrg
            BY <2>3 DEF RelabelAccount, Live
        <3>2. accts[a] \in Acct /\ accts' \in [Accounts -> Acct \cup {NoAcct}]
            BY <3>1, <1>3, NextIInv DEF IInv, TypeOK, Live, Next
        <3>3. \A p \in Providers \ {accts[a].provider} : Same(p)
            BY <3>1, <3>2 DEF Same, Of, Live, IInv, TypeOK, Acct
        <3>. QED  BY <3>1, <3>3, TouchedClean, TxnsAssumption
    <2>. QED  BY <1>3, <2>1, <2>2, <2>3 DEF EditStep, ReadForAdd, ReadForRelabel, AddAccount,
            RelabelAccount
<1>4. ASSUME NEW d \in Deletes, DeleteStep(d)
      PROVE  CleanMergesKnow'
    <2>1. CASE ~CommitDelete(d)
        <3>1. UNCHANGED <<accts, mrg, touched>>
            BY <1>4, <2>1 DEF DeleteStep, ReadForDelete, LockProvider, CountAccounts, DeleteRow,
                AbortDelete
        <3>. QED  BY <3>1, QuietClean
    <2>2. CASE CommitDelete(d)
        <3>. DEFINE a == del[d].account
        <3>1. /\ accts' = [accts EXCEPT ![a] = NoAcct]
              /\ Touch(d, {del[d].provider})
              /\ UNCHANGED mrg
            BY <2>2 DEF CommitDelete
        <3>2. a \in Accounts /\ (a \in Live => accts[a].provider = del[d].provider)
            BY <2>2 DEF CommitDelete, IInv, DeleteOK
        <3>3. \A p \in Providers \ {del[d].provider} : Same(p)
            BY <3>1, <3>2 DEF Same, Of, Live, IInv, TypeOK
        <3>. QED  BY <3>1, <3>3, TouchedClean, TxnsAssumption
    <2>. QED  BY <2>1, <2>2
<1>. QED  BY <1>1, <1>2, <1>3, <1>4

\* A merge reads both providers in one go, moves all the source has at that moment,
\* and its commit is noticed by every other merge of either provider.
LEMMA MergesClean ==
    ASSUME IInv, CleanMergesKnow, NEW m \in Merges, MergeStep(m)
    PROVE  CleanMergesKnow'
<1>1. ASSUME NEW n \in Merges \ {m} PROVE CleanMerge(n)'
    <2>1. mrg'[n] = mrg[n]
        BY <1>1 DEF MergeStep, ReadForMerge, MergeRelabel, MergeMove, MergeTarget, MergeSource,
            CommitMerge, AbortMerge, IInv, TypeOK
    <2>2. CASE ~CommitMerge(m)
        <3>1. accts' = accts /\ touched'[n] = touched[n]
            BY <1>1, <2>2 DEF MergeStep, ReadForMerge, MergeRelabel, MergeMove, MergeTarget,
                MergeSource, AbortMerge, IInv, TypeOK
        <3>. QED  BY <2>1, <3>1, KeptClean DEF CleanMergesKnow, Same, Of, Live
    <2>3. CASE CommitMerge(m)
        <3>1. \A a \in Accounts : a \notin Of(mrg[m].source) => accts'[a] = accts[a]
            BY <2>3, MergedAcctIs DEF CommitMerge
        <3>2. \A a \in Accounts :
                a \in Of(mrg[m].source) => accts'[a] = NoAcct \/ accts'[a].provider = mrg[m].target
            BY <2>3, MergedAcctIs DEF CommitMerge
        <3>3. \A p \in Providers \ {mrg[m].source, mrg[m].target} : Same(p)
            BY <3>1, <3>2 DEF Same, Of, Live
        <3>4. ~touched'[n] =>
                ~touched[n] /\ {mrg[n].source, mrg[n].target} \cap {mrg[m].source, mrg[m].target} = {}
            BY <1>1, <2>3 DEF CommitMerge
        <3>5. mrg[n].step # "idle" => mrg[n].source \in Providers /\ mrg[n].target \in Providers
            BY <1>1 DEF IInv, MergeOK
        <3>. QED  BY <2>1, <3>3, <3>4, <3>5, KeptClean DEF CleanMergesKnow
    <2>. QED  BY <2>2, <2>3
<1>2. CleanMerge(m)'
    <2>1. ASSUME NEW s \in Providers, NEW t \in Providers, ReadForMerge(m, s, t)
          PROVE  CleanMerge(m)'
        <3>1. PICK f \in MergedLabels(s, t) :
                mrg'[m] = [step |-> "relabel", source |-> s, target |-> t, labels |-> f,
                           todo |-> Of(s), moved |-> {}]
            BY <2>1 DEF ReadForMerge, IInv, TypeOK
        <3>2. /\ f \in [Of(s) -> Labels]
              /\ \A a \in Of(s), b \in Of(t) : f[a] # accts[b].label
              /\ \A a, b \in Of(s) : a # b => f[a] # f[b]
            BY <3>1, NullsAssumption DEF MergedLabels
        <3>3. Of(s)' = Of(s) /\ Of(t)' = Of(t) /\ accts' = accts
            BY <2>1 DEF ReadForMerge, Of, Live
        <3>. QED  BY <3>1, <3>2, <3>3 DEF CleanMerge, Of, Live
    <2>2. ASSUME NEW a \in Accounts, MergeRelabel(m, a)
          PROVE  CleanMerge(m)'
        BY <2>2 DEF CleanMergesKnow, CleanMerge, MergeRelabel, Of, Live, IInv, TypeOK, MergeReq
    <2>3. CASE MergeMove(m)
        BY <2>3 DEF CleanMergesKnow, CleanMerge, MergeMove, Of, Live, IInv, TypeOK, MergeReq
    <2>4. CASE MergeTarget(m) \/ MergeSource(m)
        <3>1. /\ mrg[m].step \in {"target", "source"}
              /\ mrg'[m].source = mrg[m].source /\ mrg'[m].target = mrg[m].target
              /\ mrg'[m].labels = mrg[m].labels /\ mrg'[m].moved = mrg[m].moved
              /\ UNCHANGED <<accts, touched>>
            BY <2>4 DEF MergeTarget, MergeSource, IInv, TypeOK, MergeReq
        <3>. QED  BY <3>1 DEF CleanMergesKnow, CleanMerge, Of, Live
    <2>5. CASE CommitMerge(m) \/ AbortMerge(m)
        BY <2>5 DEF CleanMerge, CommitMerge, AbortMerge, IdleMrg, IInv, TypeOK
    <2>. QED  BY <2>1, <2>2, <2>3, <2>4, <2>5 DEF MergeStep
<1>. QED  BY <1>1, <1>2 DEF CleanMergesKnow

\* What the commit of an undisturbed merge does.
LEMMA CleanCommit ==
    ASSUME IInv, CleanMergesKnow, NEW m \in Merges, CommitMerge(m), ~touched[m]
    PROVE  /\ \A a \in Live : accts'[a] # NoAcct
           /\ \A a \in Of(mrg[m].source) : accts'[a].provider = mrg[m].target
           /\ LabelsUnique => LabelsUnique'
<1>. DEFINE s == mrg[m].source
            t == mrg[m].target
            f == mrg[m].labels
<1>1. mrg[m].step = "commit" /\ s # t /\ s \in Providers /\ t \in Providers
    BY DEF CommitMerge, IInv, MergeOK
<1>2. /\ mrg[m].moved = Of(s) /\ DOMAIN f = Of(s)
      /\ \A a \in Of(s), b \in Of(t) : f[a] # accts[b].label
      /\ \A a, b \in Of(s) : a # b => f[a] # f[b]
    BY <1>1 DEF CleanMergesKnow, CleanMerge
<1>3. \A a \in Accounts : accts'[a] = MergedAcct(m, a)
    BY DEF CommitMerge
<1>4. \A a \in Of(s) : accts'[a] \in Acct /\ accts'[a].provider = t /\ accts'[a].label = f[a]
    <2>. SUFFICES ASSUME NEW a \in Of(s)
                  PROVE  accts'[a] \in Acct /\ accts'[a].provider = t /\ accts'[a].label = f[a]
        OBVIOUS
    <2>1. a \in Accounts /\ accts[a] \in Acct
        BY DEF Of, Live, IInv, TypeOK
    <2>2. accts'[a] = [accts[a] EXCEPT !.provider = t, !.label = f[a]]
        BY <1>2, <1>3, <2>1 DEF MergedAcct
    <2>3. accts'[a] \in Acct
        BY <1>1, <1>2, <1>3, <2>1, MergedAcctIs
    <2>. QED  BY <2>1, <2>2, <2>3 DEF Acct
<1>5. \A a \in Accounts : a \notin Of(s) => accts'[a] = accts[a]
    BY <1>1, <1>3, MergedAcctIs
<1>6. \A a \in Live : accts'[a] # NoAcct
    BY <1>4, <1>5, RowsAssumption DEF Live, Acct, AcctLabel
<1>7. ASSUME LabelsUnique, NEW a \in Live', NEW b \in Live', a # b,
             accts'[a].provider = accts'[b].provider
      PROVE  accts'[a].label # accts'[b].label
    <2>1. a \in Live /\ b \in Live
        BY <1>5 DEF Live, Of
    <2>2. CASE a \notin Of(s) /\ b \notin Of(s)
        BY <1>5, <1>7, <2>1, <2>2 DEF LabelsUnique, Live
    <2>3. CASE a \in Of(s) /\ b \notin Of(s)
        <3>1. accts'[b] = accts[b] /\ b \in Of(t)
            BY <1>4, <1>5, <1>7, <2>1, <2>3 DEF Of, Live
        <3>. QED  BY <1>2, <1>4, <2>3, <3>1
    <2>4. CASE a \notin Of(s) /\ b \in Of(s)
        <3>1. accts'[a] = accts[a] /\ a \in Of(t)
            BY <1>4, <1>5, <1>7, <2>1, <2>4 DEF Of, Live
        <3>. QED  BY <1>2, <1>4, <2>4, <3>1
    <2>5. CASE a \in Of(s) /\ b \in Of(s)
        BY <1>2, <1>4, <1>7, <2>5
    <2>. QED  BY <2>2, <2>3, <2>4, <2>5
<1>. QED  BY <1>4, <1>6, <1>7 DEF LabelsUnique

\* The step that takes a merge from its last statement to its end, the source gone,
\* is its commit.
LEMMA EndsByCommit ==
    ASSUME IInv, Next, NEW m \in Merges, mrg[m].step = "commit", mrg'[m] = IdleMrg,
           kind'[mrg[m].source] = NoKind
    PROVE  CommitMerge(m)
<1>1. mrg'[m] # mrg[m]
    BY DEF IdleMrg
<1>2. PICK n \in Merges : MergeStep(n)
    BY <1>1 DEF Next, CreateProvider, RemoveProvider, EditStep, ReadForAdd, AddAccount,
        ReadForRelabel, RelabelAccount, DeleteStep, ReadForDelete, LockProvider, CountAccounts,
        DeleteRow, CommitDelete, AbortDelete
<1>3. n = m
    BY <1>1, <1>2 DEF MergeStep, ReadForMerge, MergeRelabel, MergeMove, MergeTarget, MergeSource,
        CommitMerge, AbortMerge, IInv, TypeOK
<1>4. kind[mrg[m].source] # NoKind
    BY DEF IInv, MergeOK, Exists
<1>. QED  BY <1>2, <1>3, <1>4 DEF MergeStep, ReadForMerge, MergeRelabel, MergeMove, MergeTarget,
        MergeSource, AbortMerge

\* However many requests run at once: a merge whose two providers nobody else wrote
\* between its read and its commit loses no account, brings all of the source's over
\* and leaves the labels distinct when they were.
THEOREM CleanMergeTheorem == Spec => CleanMergeKeepsAll
<1>1. Init => CleanMergesKnow
    BY DEF Init, CleanMergesKnow, CleanMerge, IdleMrg
<1>2. IInv /\ CleanMergesKnow /\ [Next]_vars => CleanMergesKnow'
    <2>1. ASSUME IInv, CleanMergesKnow, Next PROVE CleanMergesKnow'
        BY <2>1, OthersClean, MergesClean DEF Next
    <2>2. ASSUME CleanMergesKnow, UNCHANGED vars PROVE CleanMergesKnow'
        BY <2>2, QuietClean DEF vars
    <2>. QED  BY <2>1, <2>2
<1>3. IInv /\ CleanMergesKnow /\ [Next]_vars =>
        [\A m \in Merges :
            (mrg[m].step = "commit" /\ ~touched[m] /\ kind'[mrg[m].source] = NoKind
                /\ mrg'[m] = IdleMrg)
            => /\ \A a \in Live : accts'[a] # NoAcct
               /\ \A a \in Of(mrg[m].source) : accts'[a].provider = mrg[m].target
               /\ LabelsUnique => LabelsUnique']_vars
    BY EndsByCommit, CleanCommit
<1>. QED  BY <1>1, <1>2, <1>3, IInvHolds, PTL DEF Spec, CleanMergeKeepsAll

=============================================================================
