-------------------------- MODULE OwnerView_proofs --------------------------
(***************************************************************************)
(* Proofs about the four parts of OwnerView: the cadence of AutoSync, the  *)
(* icons of Favicons, the cache of Panel and the blob of Credentials.      *)
(***************************************************************************)
EXTENDS OwnerView, Sequences, TLAPS

-----------------------------------------------------------------------------
(* AutoSync.                                                               *)

CadenceInv ==
    /\ hours \in Hours /\ interval \in Hours /\ due \in Nat /\ shown \in Nat
    /\ save \in [Saves -> Hours \cup {None}]
    /\ interval <= MaxTimer => shown = due
    \* The one save under way holds what is stored; without one, the timer does.
    /\ ~raced => /\ \A s, t \in Saves : save[s] # None /\ save[t] # None => s = t
                 /\ \A s \in Saves : save[s] # None => save[s] = hours
                 /\ (\A s \in Saves : save[s] = None) => interval = hours

-----------------------------------------------------------------------------
(* Favicons.                                                               *)

Entry == [of : Entities, links : Nat, found : BOOLEAN, fresh : BOOLEAN]

\* A load that has read other links than there are now is one that an edit will
\* overtake, or has overtaken.
IconInv ==
    /\ cache \in Seq(Entry) /\ Len(cache) <= MAX_ENTRIES
    /\ \A i, j \in 1..Len(cache) : cache[i].of = cache[j].of => i = j
    /\ link \in [Entities -> Nat] /\ editing \subseteq Entities /\ late \subseteq Entities
    /\ pending \in [Entities -> [at : {F!Nothing, "reads"}] \cup [at : {"fetches"}, links : Nat]]
    /\ \A i \in 1..Len(cache) :
           cache[i].fresh /\ cache[i].of \notin editing \cup late => cache[i].links = link[cache[i].of]
    /\ \A e \in Entities : pending[e].at = "fetches" /\ pending[e].links # link[e] => e \in editing \cup late

-----------------------------------------------------------------------------
(* Panel.                                                                  *)

Watchable == UNION {Shown(p, TRUE) : p \in Pages}
Committed == change # None /\ change.committed

PanelType ==
    /\ watched \in Watchable /\ version \in Nat /\ page \in Pages /\ palette \in BOOLEAN
    /\ change \in {None} \cup [of : Mutations, committed : BOOLEAN, version : Nat]
    /\ change # None => Table \in Writes(change.of)
    /\ Committed => change.version = version
    /\ fetch \in {Idle, Sent} \cup [at : {"answered"}, version : 0..version]

\* What is behind in the cache: excused, to be announced by the mutation under
\* way, on its way, or to be fetched when its query is mounted.
BehindIsCovered ==
    data = version \/ excuse # {} \/ Committed \/ fetch = Sent
    \/ (fetch.at = "answered" /\ fetch.version = version)
    \/ (/\ fetch = Idle /\ ~Mounted(page, palette, Query)
        /\ Query # "me" \/ data = None \/ invalid)

\* An answer that is out of date is excused, also once it has arrived, or the
\* mutation that has overtaken it is still to be announced.
OldAnswerIsCovered ==
    fetch.at = "answered" /\ fetch.version # version => Committed \/ excuse \ {"failed"} # {}

PanelInv == PanelType /\ BehindIsCovered /\ OldAnswerIsCovered

-----------------------------------------------------------------------------
(* Credentials.                                                            *)

Dtos == UNION {[D -> Values] : D \in SUBSET C!Asks(kind)}
Forms == [new : BOOLEAN, value : [C!Asks(kind) -> Values], stored : SUBSET C!Asks(kind), seen : SUBSET C!Asks(kind),
          told : {None} \cup Dtos, shot : SUBSET C!Asks(kind), typed : SUBSET C!Asks(kind)]
Saving == [dto : Dtos, new : BOOLEAN, read : BOOLEAN, existing : {Absent, None} \cup Blobs(kind),
           typed : SUBSET C!Asks(kind), shown : SUBSET C!Asks(kind)]

CredentialsType ==
    /\ kind \in Kinds
    /\ blob \in {Absent, None} \cup Blobs(kind)
    /\ form \in {None} \cup Forms
    /\ request \in [C!Clients -> {None} \cup Saving]
    /\ form = None \/ request["panel"] = None
    /\ \A c \in C!Clients : request[c] # None /\ request[c].new => ~request[c].read

\* A stored blob has what the kind needs, for one of the vendor's own hosts; a kind
\* without credentials has none, and the parts of one field come from one entry.
Works(b) ==
    /\ kind # "manual"
    /\ \A x \in C!Needs(kind) : b.has[x] # C!Blank
    /\ kind \in {"vdsina", "aeza"} => b.has["baseUrl"] # "bad"
    /\ \A f \in C!Asks(kind) : \A x, y \in C!StoredAs(kind, f) : b.has[x] = b.has[y]
BlobsWork ==
    /\ blob \in {Absent, None} \/ Works(blob)
    /\ \A c \in C!Clients : request[c] # None => request[c].existing \in {Absent, None} \/ Works(request[c].existing)

\* The value of a field is what is stored.
Readable == blob \notin {Absent, None} /\ blob.readable
Mirrors(f, v) == \A x \in C!StoredAs(kind, f) : v = C!Decode(kind, blob)[x]

\* What the owner did not type, the form has prefilled or revealed; unless a write
\* has passed it by, it is what is stored.
FormFits(g) ==
    /\ \A f \in C!Asks(kind) \ g.typed : g.value[f] # C!Blank => f \in C!Hints(kind) \cup g.shot
    /\ Readable /\ {"panel", "key"} \cap overtaken = {} =>
          /\ \A f \in C!Asks(kind) \ g.typed : g.value[f] # C!Blank => Mirrors(f, g.value[f])
          /\ g.told # None => g.told = C!Revealed(kind, blob)
RequestFits(q) ==
    \A f \in DOMAIN q.dto \ q.typed :
        f \in q.shown /\ (Readable /\ {"panel", "key"} \cap overtaken = {} => Mirrors(f, q.dto[f]))
FormMirrors    == form # None => FormFits(form)
RequestMirrors == /\ request["panel"] # None => RequestFits(request["panel"])
                  /\ request["api"] # None => DOMAIN request["api"].dto \subseteq request["api"].typed

CredentialsInv == CredentialsType /\ BlobsWork /\ FormMirrors /\ RequestMirrors

-----------------------------------------------------------------------------
(* AutoSync: proofs.                                                       *)

LEMMA CadenceStep == CadenceInv /\ [A!Next]_(A!vars) => CadenceInv'
<1> SUFFICES ASSUME CadenceInv, [A!Next]_(A!vars) PROVE CadenceInv'
  OBVIOUS
<1> USE HoursAssumption, NullAssumption
<1>p. \A h \in Hours : A!Period(h) \in Nat /\ h \in Nat /\ (h <= MaxTimer => A!Period(h) = h)
  BY DEF A!Period
<1>1. ASSUME NEW s \in Saves, NEW h \in Hours, A!Save(s, h) PROVE CadenceInv'
  <2>1. /\ save[s] = None /\ hours' = h /\ save' = [save EXCEPT ![s] = h]
        /\ interval' = interval /\ due' = due /\ shown' = shown
    BY <1>1 DEF A!Save
  <2>2. ~raced' => \A t \in Saves \ {s} : save[t] = None
    BY <1>1, Zenon DEF A!Save
  <2> QED
    BY <2>1, <2>2 DEF CadenceInv
<1>2. ASSUME NEW s \in Saves, A!Reschedule(s) PROVE CadenceInv'
  BY <1>2, <1>p DEF A!Reschedule, CadenceInv
<1>3. ASSUME A!Restart PROVE CadenceInv'
  BY <1>3, <1>p DEF A!Restart, CadenceInv
<1>4. ASSUME A!Hour PROVE CadenceInv'
  BY <1>4 DEF A!Hour, CadenceInv
<1>5. ASSUME A!Tick PROVE CadenceInv'
  BY <1>5, <1>p DEF A!Tick, A!NextRunAt, CadenceInv
<1>6. ASSUME UNCHANGED <<hours, interval, due, shown, save, raced>> PROVE CadenceInv'
  BY <1>6 DEF CadenceInv
<1>7. \/ UNCHANGED <<hours, interval, due, shown, save, raced>>
      \/ A!Restart \/ A!Hour \/ A!Tick
      \/ \E s \in Saves : A!Reschedule(s) \/ \E h \in Hours : A!Save(s, h)
  BY DEF A!Next, A!vars, A!SyncAll, A!EndRound, A!SyncAccount, A!SyncProvider, A!Switch
<1> QED
  BY <1>1, <1>2, <1>3, <1>4, <1>5, <1>6, <1>7

\* The timer runs at the stored cadence and the panel shows when it fires, after
\* every restart, save and tick, unless two saves overlapped or the interval is
\* longer than setInterval can hold.
THEOREM CadenceTheorem == A!Spec => []CadenceUnlessRaced
<1>1. A!Init => CadenceInv
  <2> SUFFICES ASSUME A!Init PROVE CadenceInv
    OBVIOUS
  <2>1. hours \in Hours /\ hours \in Nat /\ interval = hours /\ shown = hours /\ due = A!Period(hours)
    BY HoursAssumption DEF A!Init
  <2>2. due \in Nat /\ (hours <= MaxTimer => due = hours)
    BY <2>1 DEF A!Period
  <2>3. save \in [Saves -> Hours \cup {None}] /\ \A s \in Saves : save[s] = None
    BY DEF A!Init
  <2> QED
    BY <2>1, <2>2, <2>3 DEF CadenceInv
<1>2. CadenceInv => CadenceUnlessRaced
  BY DEF CadenceInv, CadenceUnlessRaced, A!CadenceUnlessRaced
<1> QED
  BY <1>1, <1>2, CadenceStep, PTL DEF A!Spec

-----------------------------------------------------------------------------
(* Favicons: proofs.                                                       *)

\* What is left of the cache when the entry of e is taken out.
LEMMA WithoutIs ==
    ASSUME IconInv, NEW e \in Entities
    PROVE  /\ F!Without(e) \in Seq(Entry) /\ Len(F!Without(e)) <= Len(cache)
           /\ \A i \in 1..Len(F!Without(e)) :
                  /\ F!Without(e)[i].of # e
                  /\ \E j \in 1..Len(cache) : F!Without(e)[i] = cache[j]
           /\ \A i, j \in 1..Len(F!Without(e)) : F!Without(e)[i].of = F!Without(e)[j].of => i = j
<1>1. CASE \A i \in DOMAIN cache : cache[i].of # e
  BY <1>1 DEF F!Without, IconInv
<1>2. CASE \E i \in DOMAIN cache : cache[i].of = e
  <2>1. PICK i \in 1..Len(cache) :
          /\ cache[i].of = e
          /\ F!Without(e) = [j \in 1..(Len(cache) - 1) |-> IF j < i THEN cache[j] ELSE cache[j + 1]]
    <3>1. DOMAIN cache = 1..Len(cache)
      BY DEF IconInv
    <3>2. PICK i \in DOMAIN cache : i = CHOOSE j \in DOMAIN cache : cache[j].of = e
      BY <1>2
    <3>3. cache[i].of = e
      BY <1>2, <3>2
    <3>4. F!Without(e) = [j \in 1..(Len(cache) - 1) |-> IF j < i THEN cache[j] ELSE cache[j + 1]]
      BY <1>2, <3>2 DEF F!Without
    <3> QED
      BY <3>1, <3>3, <3>4
  <2>2. cache \in Seq(Entry) /\ Len(cache) \in Nat /\ \A j \in 1..Len(cache) : cache[j] \in Entry
    BY DEF IconInv
  <2>3. PICK w : w = F!Without(e)
    OBVIOUS
  <2>4. w = [j \in 1..(Len(cache) - 1) |-> IF j < i THEN cache[j] ELSE cache[j + 1]]
    BY <2>1, <2>3
  <2>5. w \in Seq(Entry) /\ Len(w) = Len(cache) - 1
    BY <2>2, <2>4
  <2> DEFINE From(j) == IF j < i THEN j ELSE j + 1
  <2>u. \A j, k \in 1..Len(cache) : cache[j].of = cache[k].of => j = k
    BY DEF IconInv
  <2>6. \A j \in 1..Len(w) : w[j] = cache[From(j)] /\ From(j) \in 1..Len(cache) /\ From(j) # i
    BY <2>2, <2>4, <2>5
  <2>f. \A j, k \in 1..Len(w) : From(j) = From(k) => j = k
    BY <2>2, <2>5
  <2> HIDE DEF From
  <2>7. ASSUME NEW j \in 1..Len(w) PROVE w[j].of # e /\ \E k \in 1..Len(cache) : w[j] = cache[k]
    <3>1. cache[From(j)].of # cache[i].of
      BY <2>u, <2>1, <2>6
    <3> QED
      BY <2>1, <2>6, <3>1
  <2>8. ASSUME NEW j \in 1..Len(w), NEW k \in 1..Len(w), w[j].of = w[k].of PROVE j = k
    <3>1. From(j) = From(k)
      BY <2>u, <2>6, <2>8
    <3> QED
      BY <2>f, <3>1
  <2> QED
    BY <2>2, <2>3, <2>5, <2>7, <2>8
<1> QED
  BY <1>1, <1>2

\* store: the entry goes in, the rest are entries of other keys that were there.
IsStored(s, entry) ==
    /\ s \in Seq(Entry) /\ Len(s) <= MAX_ENTRIES
    /\ \A i \in 1..Len(s) : s[i] = entry \/ (s[i].of # entry.of /\ \E j \in 1..Len(cache) : s[i] = cache[j])
    /\ \A i, j \in 1..Len(s) : s[i].of = s[j].of => i = j

LEMMA StoredIs ==
    ASSUME IconInv, NEW entry \in Entry, NEW s, s = F!Stored(entry)
    PROVE  IsStored(s, entry)
<1>1. entry.of \in Entities
  BY DEF Entry
<1>2. PICK w \in Seq(Entry) : w = F!Without(entry.of)
  BY <1>1, WithoutIs
<1>3. /\ Len(w) \in Nat /\ Len(w) <= MAX_ENTRIES /\ MAX_ENTRIES \in Nat /\ MAX_ENTRIES >= 1
      /\ \A i \in 1..Len(w) : w[i].of # entry.of /\ \E j \in 1..Len(cache) : w[i] = cache[j]
      /\ \A i, j \in 1..Len(w) : w[i].of = w[j].of => i = j
  BY <1>1, <1>2, WithoutIs, EntriesAssumption, SMTT(60) DEF IconInv
<1>4. PICK v : v = F!Evict(w)
  OBVIOUS
<1>5. PICK k \in 0..Len(w) : /\ v \in Seq(Entry) /\ Len(v) = Len(w) - k /\ Len(v) < MAX_ENTRIES
                             /\ \A i \in 1..Len(v) : v[i] = w[i + k] /\ i + k \in 1..Len(w)
  <2>1. CASE Len(w) < MAX_ENTRIES
    <3>1. v = w
      BY <1>4, <2>1 DEF F!Evict
    <3> QED
      BY <1>2, <1>3, <2>1, <3>1
  <2>2. CASE ~(Len(w) < MAX_ENTRIES)
    <3>1. v = SubSeq(w, Len(w) - MAX_ENTRIES + 2, Len(w))
      BY <1>4, <2>2 DEF F!Evict
    <3>2. Len(w) = MAX_ENTRIES
      BY <1>3, <2>2
    <3>3. v = SubSeq(w, 2, Len(w))
      BY <1>3, <3>1, <3>2
    <3>4. v \in Seq(Entry) /\ Len(v) = Len(w) - 1
      BY <1>2, <1>3, <3>2, <3>3
    <3>5. \A i \in 1..Len(v) : v[i] = w[i + 1] /\ i + 1 \in 1..Len(w)
      BY <1>2, <1>3, <3>2, <3>3, <3>4
    <3>6. 1 \in 0..Len(w) /\ Len(v) < MAX_ENTRIES
      BY <1>3, <3>2, <3>4
    <3> QED
      BY <3>4, <3>5, <3>6
  <2> QED
    BY <2>1, <2>2
<1>6. s = Append(v, entry)
  BY <1>2, <1>4 DEF F!Stored
<1>7. /\ s \in Seq(Entry) /\ Len(s) = Len(v) + 1 /\ s[Len(s)] = entry
      /\ \A i \in 1..Len(v) : s[i] = v[i]
  BY <1>5, <1>6
<1>8. Len(v) \in Nat /\ \A i \in 1..Len(s) : i \in 1..Len(v) \/ i = Len(s)
  BY <1>5, <1>7
<1>9. ASSUME NEW i \in 1..Len(v) PROVE s[i].of # entry.of /\ \E j \in 1..Len(cache) : s[i] = cache[j]
  <2>1. s[i] = w[i + k] /\ i + k \in 1..Len(w)
    BY <1>5, <1>7
  <2> QED
    BY <1>3, <2>1
<1>10. ASSUME NEW i \in 1..Len(v), NEW j \in 1..Len(v), s[i].of = s[j].of PROVE i = j
  <2>1. i + k \in 1..Len(w) /\ j + k \in 1..Len(w) /\ s[i] = w[i + k] /\ s[j] = w[j + k]
    BY <1>5, <1>7
  <2>2. i + k = j + k
    BY <1>3, <1>10, <2>1
  <2> QED
    BY <1>8, <2>2
<1>11. \A i, j \in 1..Len(s) : s[i].of = s[j].of => i = j
  BY <1>7, <1>8, <1>9, <1>10, SMTT(60)
<1>12. \A i \in 1..Len(s) : s[i] = entry \/ (s[i].of # entry.of /\ \E j \in 1..Len(cache) : s[i] = cache[j])
  BY <1>7, <1>8, <1>9
<1> QED
  BY <1>3, <1>5, <1>7, <1>11, <1>12 DEF IsStored

LEMMA IconStep == IconInv /\ [F!Next]_(F!vars) => IconInv'
<1> SUFFICES ASSUME IconInv, [F!Next]_(F!vars) PROVE IconInv'
  OBVIOUS
<1> USE DEF F!Nothing
<1>d. /\ DOMAIN cache = 1..Len(cache) /\ Len(cache) \in Nat
      /\ \A i \in 1..Len(cache) : cache[i] \in Entry /\ cache[i].of \in Entities
  <2>1. /\ DOMAIN cache = 1..Len(cache) /\ Len(cache) \in Nat
        /\ \A i \in 1..Len(cache) : cache[i] \in Entry
    BY DEF IconInv
  <2> QED
    BY <2>1 DEF Entry
<1>1. ASSUME NEW e \in Entities, F!Resolve(e) PROVE IconInv'
  BY <1>1 DEF F!Resolve, IconInv
<1>2. ASSUME NEW e \in Entities, F!LoadSource(e) PROVE IconInv'
  BY <1>2 DEF F!LoadSource, IconInv
<1>3. ASSUME NEW e \in Entities, F!Fetched(e) PROVE IconInv'
  <2>1. PICK found \in BOOLEAN :
           cache' = F!Stored([of |-> e, links |-> pending[e].links, found |-> found, fresh |-> TRUE])
    BY <1>3 DEF F!Fetched
  <2>2. PICK entry : entry = [of |-> e, links |-> pending[e].links, found |-> found, fresh |-> TRUE]
    OBVIOUS
  <2>3. pending[e].links \in Nat /\ pending[e].at = "fetches"
    BY <1>3 DEF F!Fetched, IconInv
  <2>4. entry \in Entry /\ entry.of = e /\ entry.links = pending[e].links
    BY <2>2, <2>3 DEF Entry
  <2>5. PICK s : s = cache'
    OBVIOUS
  <2>6. s = F!Stored(entry)
    BY <2>1, <2>2, <2>5
  <2>7. /\ s \in Seq(Entry) /\ Len(s) <= MAX_ENTRIES
        /\ \A i \in 1..Len(s) : s[i] = entry \/ (s[i].of # entry.of /\ \E j \in 1..Len(cache) : s[i] = cache[j])
        /\ \A i, j \in 1..Len(s) : s[i].of = s[j].of => i = j
    <3>1. IsStored(s, entry)
      BY <2>4, <2>6, StoredIs
    <3> QED
      BY <3>1 DEF IsStored
  <2>8. /\ pending' = [pending EXCEPT ![e] = [at |-> F!Nothing]] /\ link' = link /\ editing' = editing
        /\ late' = IF pending[e].links = link[e] THEN late \ {e} ELSE late
    BY <1>3 DEF F!Fetched
  <2>9. ASSUME NEW i \in 1..Len(s), s[i].fresh, s[i].of \notin editing \cup late' PROVE s[i].links = link[s[i].of]
    <3>1. CASE s[i] = entry
      BY <2>3, <2>4, <2>8, <2>9, <3>1 DEF IconInv
    <3>2. ASSUME NEW j \in 1..Len(cache), s[i] = cache[j], s[i].of # e PROVE s[i].links = link[s[i].of]
      BY <2>8, <2>9, <3>2 DEF IconInv
    <3> QED
      BY <2>4, <2>7, <3>1, <3>2
  <2>10. \A x \in Entities : pending'[x].at = "fetches" /\ pending'[x].links # link[x] => x \in editing \cup late'
    BY <2>8 DEF IconInv
  <2>11. /\ late' \subseteq Entities
         /\ pending' \in [Entities -> [at : {F!Nothing, "reads"}] \cup [at : {"fetches"}, links : Nat]]
    BY <2>8 DEF IconInv
  <2> QED
    BY <2>5, <2>7, <2>8, <2>9, <2>10, <2>11 DEF IconInv
<1>4. ASSUME NEW e \in Entities, F!Expire(e) PROVE IconInv'
  <2>1. /\ link' = link /\ editing' = editing /\ pending' = pending /\ late' = late
        /\ cache' = [i \in 1..Len(cache) |-> IF cache[i].of = e THEN [cache[i] EXCEPT !.fresh = FALSE] ELSE cache[i]]
    BY <1>4, <1>d DEF F!Expire
  <2>2. \A i \in 1..Len(cache) : /\ cache'[i] \in Entry /\ cache'[i].of = cache[i].of /\ cache'[i].links = cache[i].links
                                 /\ cache'[i].fresh => cache[i].fresh
    BY <1>d, <2>1 DEF Entry
  <2>3. cache' \in Seq(Entry) /\ Len(cache') = Len(cache)
    BY <1>d, <2>1, <2>2
  <2> QED
    BY <2>1, <2>2, <2>3 DEF IconInv
<1>5. ASSUME NEW e \in Entities, NEW v \in Nat, F!Write(e, v) PROVE IconInv'
  BY <1>5, <1>d DEF F!Write, IconInv
<1>6. ASSUME NEW e \in Entities, F!Edit(e) \/ F!Delete(e) PROVE IconInv'
  <2>1. link[e] + 1 \in Nat /\ F!Gone \in Nat
    BY EntriesAssumption DEF F!Gone, IconInv
  <2> QED
    BY <1>5, <1>6, <2>1 DEF F!Edit, F!Delete
<1>7. ASSUME NEW e \in Entities, F!Invalidate(e) PROVE IconInv'
  <2>1. PICK s : s = cache' /\ s = F!Without(e)
    BY <1>7 DEF F!Invalidate, F!Dropped
  <2>2. /\ s \in Seq(Entry) /\ Len(s) <= Len(cache)
        /\ \A i \in 1..Len(s) : s[i].of # e /\ \E j \in 1..Len(cache) : s[i] = cache[j]
        /\ \A i, j \in 1..Len(s) : s[i].of = s[j].of => i = j
    BY <2>1, WithoutIs
  <2>3. /\ editing' = editing \ {e} /\ link' = link /\ pending' = pending
        /\ late' = IF pending[e].at = "fetches" /\ pending[e].links # link[e] THEN late \cup {e} ELSE late \ {e}
    BY <1>7 DEF F!Invalidate
  <2>4. \A x \in Entities : pending[x].at = "fetches" /\ pending[x].links # link[x] => x \in editing' \cup late'
    BY <2>3 DEF IconInv
  <2>5. \A i \in 1..Len(s) : s[i].fresh /\ s[i].of \notin editing' \cup late' => s[i].links = link[s[i].of]
    BY <2>2, <2>3 DEF IconInv
  <2>6. Len(s) <= MAX_ENTRIES
    BY <1>d, <2>2, EntriesAssumption DEF IconInv
  <2>7. late' \subseteq Entities /\ editing' \subseteq Entities
    BY <2>3 DEF IconInv
  <2> QED
    BY <2>1, <2>2, <2>3, <2>4, <2>5, <2>6, <2>7 DEF IconInv
<1>8. ASSUME UNCHANGED F!vars PROVE IconInv'
  BY <1>8 DEF F!vars, IconInv
<1> QED
  BY <1>1, <1>2, <1>3, <1>4, <1>6, <1>7, <1>8 DEF F!Next

\* A cached icon is that of the links there are now, also while loads and edits
\* overlap, unless a load that had read the old links stores them after the edit
\* has dropped the icon; the cache stays within MAX_ENTRIES, one entry per key.
THEOREM IconTheorem == F!Spec => []IconIsCurrentUnlessOvertaken
<1>1. F!Init => IconInv
  <2> SUFFICES ASSUME F!Init PROVE IconInv
    OBVIOUS
  <2>1. cache = <<>> /\ cache \in Seq(Entry) /\ Len(cache) = 0 /\ Len(cache) <= MAX_ENTRIES
    BY EntriesAssumption DEF F!Init
  <2>2. pending \in [Entities -> [at : {F!Nothing, "reads"}] \cup [at : {"fetches"}, links : Nat]]
    BY DEF F!Init
  <2>3. \A e \in Entities : pending[e].at # "fetches"
    BY DEF F!Init, F!Nothing
  <2> QED
    BY <2>1, <2>2, <2>3 DEF F!Init, IconInv
<1>2. IconInv => IconIsCurrentUnlessOvertaken
  <2> SUFFICES ASSUME IconInv PROVE F!IconIsCurrentUnlessOvertaken
    BY DEF IconIsCurrentUnlessOvertaken
  <2>1. DOMAIN cache = 1..Len(cache)
    BY DEF IconInv
  <2>2. ASSUME NEW i \in 1..Len(cache), F!Cached(cache[i].of) PROVE cache[i].fresh
    BY <2>1, <2>2 DEF F!Cached, IconInv
  <2>3. ASSUME NEW i \in 1..Len(cache), F!Cached(cache[i].of), cache[i].of \notin editing \cup late
        PROVE  cache[i].links = link[cache[i].of]
    BY <2>2, <2>3 DEF IconInv
  <2>4. Len(cache) <= MAX_ENTRIES /\ \A i, j \in 1..Len(cache) : cache[j].of = cache[i].of => i = j
    BY DEF IconInv
  <2> QED
    BY <2>1, <2>3, <2>4 DEF F!IconIsCurrentUnlessOvertaken
<1> QED
  BY <1>1, <1>2, IconStep, PTL DEF F!Spec

-----------------------------------------------------------------------------
(* Panel: proofs.                                                          *)

\* What the pages, dialogs, sidebar and palette show of which query.
Showing(q, t) ==
    \/ q \in {"summary", "forecast"} /\ t \in Everything
    \/ q = "providers" /\ t \in {"providers", "accounts", "services", "payments"}
    \/ q = "projects" /\ t \in {"projects", "services"}
    \/ q = "services" /\ t \in {"services", "payments"}
    \/ q = "payments" /\ t = "payments"
    \/ q = "account-spend" /\ t \in {"accounts", "payments", "rates"}
    \/ q = "rates" /\ t = "rates"
    \/ q = "settings" /\ t = "settings"
    \/ q = "sync-runs" /\ t = "runs"
    \/ q = "balance-history" /\ t = "snapshots"
    \/ q = "me" /\ t = "username"
    \/ q = "setupStatus" /\ t = "methods"
    \/ q = "authConfig" /\ t \in {"username", "methods"}
    \/ q = "passkeys" /\ t = "passkeys"
    \/ q = "tokens" /\ t = "tokens"

Parts == {LoginPage, DashboardPage, LastSyncCard, SpendByMonthCard, ProvidersPage, ProviderFormModal, ProviderDetailModal,
          ProviderAccountModal, AccountCard, BalanceHistoryChart, AccountSpend, MergeProviderDialog, ProjectsPage,
          ServicesPage, ServicePaymentsModal, PaymentsPage, GeneralSettingsCard, TelegramSettingsCard,
          ForecastSettingsCard, RatesCard, AuthSettingsPage, TokensPage}

LEMMA RoutesAreParts == \A p \in Pages : Routes[p] \subseteq Parts
BY DEF Pages, Routes, Parts

LEMMA OfShows ==
    ASSUME NEW query, NEW tables, \A t \in tables : Showing(query, t)
    PROVE  \A s \in Of(query, tables) : Showing(s[1], s[2])
BY DEF Of

LEMMA PartsShow == \A x \in Parts : \A s \in x.shows : Showing(s[1], s[2])
<1> DEFINE Fits(S) == \A s \in S : Showing(s[1], s[2])
<1>1. /\ Fits(Of("summary", Everything)) /\ Fits(Of("forecast", Everything))
      /\ Fits(Of("providers", {"providers", "accounts"})) /\ Fits(Of("providers", {"providers"}))
      /\ Fits(Of("providers", {"providers", "accounts", "services", "payments"}))
  BY OfShows DEF Showing
<1>2. /\ Fits(Of("projects", {"projects"})) /\ Fits(Of("projects", {"projects", "services"}))
      /\ Fits(Of("services", {"services"})) /\ Fits(Of("services", {"services", "payments"}))
      /\ Fits(Of("payments", {"payments"})) /\ Fits(Of("account-spend", {"accounts", "payments", "rates"}))
  BY OfShows DEF Showing
<1>3. /\ Fits(Of("rates", {"rates"})) /\ Fits(Of("settings", {"settings"})) /\ Fits(Of("sync-runs", {"runs"}))
      /\ Fits(Of("balance-history", {"snapshots"})) /\ Fits(Of("me", {"username"}))
      /\ Fits(Of("setupStatus", {"methods"})) /\ Fits(Of("authConfig", {"username", "methods"}))
      /\ Fits(Of("passkeys", {"passkeys"})) /\ Fits(Of("tokens", {"tokens"})) /\ Fits({})
  BY OfShows DEF Showing
<1>4. \A S, T : Fits(S) /\ Fits(T) => Fits(S \cup T)
  OBVIOUS
<1> HIDE DEF Fits
<1>5. Fits(Identity) /\ Fits(Prices)
  BY <1>1, <1>3, <1>4 DEF Identity, Prices
<1>6. /\ Fits(LoginPage.shows) /\ Fits(DashboardPage.shows) /\ Fits(LastSyncCard.shows) /\ Fits(SpendByMonthCard.shows)
      /\ Fits(ProvidersPage.shows) /\ Fits(ProviderFormModal.shows) /\ Fits(ProviderDetailModal.shows)
      /\ Fits(ProviderAccountModal.shows) /\ Fits(AccountCard.shows) /\ Fits(BalanceHistoryChart.shows)
  BY <1>1, <1>2, <1>3, <1>4, <1>5 DEF LoginPage, DashboardPage, LastSyncCard, SpendByMonthCard, ProvidersPage,
     ProviderFormModal, ProviderDetailModal, ProviderAccountModal, AccountCard, BalanceHistoryChart
<1>7. /\ Fits(AccountSpend.shows) /\ Fits(MergeProviderDialog.shows) /\ Fits(ProjectsPage.shows)
      /\ Fits(ServicesPage.shows) /\ Fits(ServicePaymentsModal.shows) /\ Fits(PaymentsPage.shows)
      /\ Fits(GeneralSettingsCard.shows) /\ Fits(TelegramSettingsCard.shows) /\ Fits(ForecastSettingsCard.shows)
      /\ Fits(RatesCard.shows) /\ Fits(AuthSettingsPage.shows) /\ Fits(TokensPage.shows)
  BY <1>1, <1>2, <1>3, <1>4, <1>5 DEF AccountSpend, MergeProviderDialog, ProjectsPage, ServicesPage,
     ServicePaymentsModal, PaymentsPage, GeneralSettingsCard, TelegramSettingsCard, ForecastSettingsCard,
     RatesCard, AuthSettingsPage, TokensPage
<1>8. \A x \in Parts : Fits(x.shows)
  BY <1>6, <1>7 DEF Parts
<1> QED
  BY <1>8 DEF Fits

LEMMA ShownIs ==
    ASSUME NEW p, NEW open \in BOOLEAN, NEW s
    PROVE  s \in Shown(p, open) <=> \/ \E x \in Routes[p] : s \in x.shows
                                    \/ p # "login" /\ (s \in SidebarParts \/ (open /\ s \in CommandPalette))
<1>1. s \in UNION {x.shows : x \in Routes[p]} <=> \E x \in Routes[p] : s \in x.shows
  BY Zenon
<1>2. CASE p = "login"
  BY <1>1, <1>2, Zenon DEF Shown
<1>3. CASE p # "login" /\ open
  BY <1>1, <1>3, Zenon DEF Shown
<1>4. CASE p # "login" /\ ~open
  BY <1>1, <1>4, Zenon DEF Shown
<1> QED
  BY <1>2, <1>3, <1>4

LEMMA WatchableShows == \A s \in Watchable : Showing(s[1], s[2])
<1>1. \A s \in SidebarParts : Showing(s[1], s[2])
  BY DEF SidebarParts, Of, Showing, Everything
<1>2. \A s \in CommandPalette : Showing(s[1], s[2])
  BY DEF CommandPalette, Identity, Of, Showing
<1>3. ASSUME NEW p \in Pages, NEW s \in Shown(p, TRUE) PROVE Showing(s[1], s[2])
  <2>1. s \in SidebarParts \/ s \in CommandPalette \/ \E x \in Routes[p] : s \in x.shows
    BY ShownIs
  <2> QED
    BY <1>1, <1>2, <2>1, RoutesAreParts, PartsShow
<1> QED
  BY <1>3 DEF Watchable

Writers ==
    {"useCreateProvider", "useUpdateProvider", "useCreateProviderAccount",
     "useUpdateProviderAccount", "useDeleteProvider", "useMergeProvider",
     "useDeleteProviderAccount", "useSyncAccount", "useSyncAllProviders", "useCreateProject",
     "useUpdateProject", "useDeleteProject", "useMoveAllToProject", "useEmptyProject",
     "useCreateService", "useUpdateService", "useDeleteService", "useCreatePayment",
     "useDeletePayment", "useAddRate", "useRefreshRates", "useBackfillRates", "useUpdateSettings",
     "useUpdateAuthConfig", "useTelegramUnlink", "useRegisterPasskey", "useDeletePasskey",
     "useCreateToken", "useDeleteToken"}

LEMMA WritersAre ==
    ASSUME NEW m, NEW t \in Writes(m)
    PROVE  m \in Writers
BY DEF Writes, Writers

\* The tables of the mutations: a mutation that writes what a query shows
\* invalidates the query, sets it, or is one of the known gaps.
LEMMA WritesAreAnnounced ==
    ASSUME NEW m, NEW q, NEW t, Showing(q, t), t \in Writes(m)
    PROVE  q \in Invalidates(m) \/ Unannounced(m, q, t) \/ (m = "useUpdateAuthConfig" /\ q = "authConfig")
<1>1. CASE m = "useCreateProvider"
  BY <1>1 DEF Writes, Invalidates, Unannounced, Showing, OnSettled, Analytics, Everything, AfterAccountEdit
<1>2. CASE m = "useUpdateProvider"
  BY <1>2 DEF Writes, Invalidates, Unannounced, Showing, OnSettled, Analytics, Everything, AfterAccountEdit
<1>3. CASE m = "useCreateProviderAccount"
  BY <1>3 DEF Writes, Invalidates, Unannounced, Showing, OnSettled, Analytics, Everything, AfterAccountEdit
<1>4. CASE m = "useUpdateProviderAccount"
  BY <1>4 DEF Writes, Invalidates, Unannounced, Showing, OnSettled, Analytics, Everything, AfterAccountEdit
<1>5. CASE m = "useDeleteProvider"
  BY <1>5 DEF Writes, Invalidates, Unannounced, Showing, OnSettled, Analytics, Everything, AfterAccountDelete
<1>6. CASE m = "useMergeProvider"
  BY <1>6 DEF Writes, Invalidates, Unannounced, Showing, OnSettled, Analytics, Everything, AfterAccountDelete
<1>7. CASE m = "useDeleteProviderAccount"
  BY <1>7 DEF Writes, Invalidates, Unannounced, Showing, OnSettled, Analytics, Everything, AfterAccountDelete
<1>8. CASE m = "useSyncAccount"
  BY <1>8 DEF Writes, Invalidates, Unannounced, Showing, OnSettled, Analytics, Everything, AfterSync
<1>9. CASE m = "useSyncAllProviders"
  BY <1>9 DEF Writes, Invalidates, Unannounced, Showing, OnSettled, Analytics, Everything, AfterSync
<1>10. CASE m = "useCreateProject"
  BY <1>10 DEF Writes, Invalidates, Unannounced, Showing, OnSettled, Analytics, Everything, AfterProjectEdit
<1>11. CASE m = "useUpdateProject"
  BY <1>11 DEF Writes, Invalidates, Unannounced, Showing, OnSettled, Analytics, Everything, AfterProjectEdit
<1>12. CASE m = "useDeleteProject"
  BY <1>12 DEF Writes, Invalidates, Unannounced, Showing, OnSettled, Analytics, Everything, AfterProjectEdit
<1>13. CASE m = "useMoveAllToProject"
  BY <1>13 DEF Writes, Invalidates, Unannounced, Showing, OnSettled, Analytics, Everything, AfterProjectEdit
<1>14. CASE m = "useEmptyProject"
  BY <1>14 DEF Writes, Invalidates, Unannounced, Showing, OnSettled, Analytics, Everything, AfterProjectEdit
<1>15. CASE m = "useCreateService"
  BY <1>15 DEF Writes, Invalidates, Unannounced, Showing, OnSettled, Analytics, Everything, AfterServiceEdit
<1>16. CASE m = "useUpdateService"
  BY <1>16 DEF Writes, Invalidates, Unannounced, Showing, OnSettled, Analytics, Everything, AfterServiceEdit
<1>17. CASE m = "useDeleteService"
  BY <1>17 DEF Writes, Invalidates, Unannounced, Showing, OnSettled, Analytics, Everything, AfterServiceEdit
<1>18. CASE m = "useCreatePayment"
  BY <1>18 DEF Writes, Invalidates, Unannounced, Showing, OnSettled, Analytics, Everything, AfterPaymentEdit
<1>19. CASE m = "useDeletePayment"
  BY <1>19 DEF Writes, Invalidates, Unannounced, Showing, OnSettled, Analytics, Everything, AfterPaymentEdit
<1>20. CASE m = "useAddRate"
  BY <1>20 DEF Writes, Invalidates, Unannounced, Showing, OnSettled, Analytics, Everything, AfterManualRate
<1>21. CASE m = "useRefreshRates"
  BY <1>21 DEF Writes, Invalidates, Unannounced, Showing, OnSettled, Analytics, Everything, AfterRates
<1>22. CASE m = "useBackfillRates"
  BY <1>22 DEF Writes, Invalidates, Unannounced, Showing, OnSettled, Analytics, Everything, AfterRates
<1>23. CASE m = "useUpdateSettings"
  BY <1>23 DEF Writes, Invalidates, Unannounced, Showing, OnSettled, Analytics, Everything, AfterSettings
<1>24. CASE m = "useUpdateAuthConfig"
  BY <1>24 DEF Writes, Invalidates, Unannounced, Showing, OnSettled, Analytics, Everything, AfterAuthConfig
<1>25. CASE m = "useTelegramUnlink"
  BY <1>25 DEF Writes, Invalidates, Unannounced, Showing, OnSettled, Analytics, Everything, AfterUnlink
<1>26. CASE m = "useRegisterPasskey"
  BY <1>26 DEF Writes, Invalidates, Unannounced, Showing, OnSettled, Analytics, Everything, AfterPasskeyAdded
<1>27. CASE m = "useDeletePasskey"
  BY <1>27 DEF Writes, Invalidates, Unannounced, Showing, OnSettled, Analytics, Everything, AfterPasskeyGone
<1>28. CASE m = "useCreateToken"
  BY <1>28 DEF Writes, Invalidates, Unannounced, Showing, OnSettled, Analytics, Everything, AfterToken
<1>29. CASE m = "useDeleteToken"
  BY <1>29 DEF Writes, Invalidates, Unannounced, Showing, OnSettled, Analytics, Everything, AfterToken
<1>30. m \in Writers
  BY WritersAre
<1> QED
  BY <1>1, <1>2, <1>3, <1>4, <1>5, <1>6, <1>7, <1>8, <1>9, <1>10, <1>11, <1>12, <1>13, <1>14, <1>15, <1>16, <1>17,
     <1>18, <1>19, <1>20, <1>21, <1>22, <1>23, <1>24, <1>25, <1>26, <1>27, <1>28, <1>29, <1>30 DEF Writers

LEMMA FetchKinds ==
    /\ Idle.at = "idle" /\ Sent.at = "sent" /\ Idle # Sent
    /\ \A v : [at |-> "answered", version |-> v] \notin {Idle, Sent}
BY DEF Idle, Sent

\* What a page, a dialog or the palette mounts beyond what was there.
LEMMA MountsLemma ==
    ASSUME NEW p \in Pages, NEW open \in BOOLEAN, NEW q, PanelType, p # "login", page # "login",
           Mounted(p, open, q), ~Mounted(page, palette, q)
    PROVE  Mounts(p, open, q)
<1>1. palette \in BOOLEAN
  BY DEF PanelType
<1>2. q \notin PaletteMounted
  BY DEF Mounted
<1>3. PICK s \in Shown(p, open) : s[1] = q
  BY <1>2 DEF Mounted
<1>4. s \notin Shown(page, palette)
  BY <1>3 DEF Mounted
<1>5. CASE \E x \in Routes[p] : s \in x.shows
  <2>1. PICK x \in Routes[p] : s \in x.shows
    BY <1>5
  <2>2. x \notin Routes[page]
    BY <1>1, <1>4, <2>1, ShownIs
  <2> QED
    BY <1>3, <2>1, <2>2 DEF Mounts
<1>6. CASE s \in SidebarParts
  BY <1>1, <1>4, <1>6, ShownIs
<1>7. CASE open /\ s \in CommandPalette
  <2>1. ~palette
    BY <1>1, <1>4, <1>7, ShownIs
  <2>2. s[1] \in {"providers", "projects", "services"}
    BY <1>7 DEF CommandPalette, Identity, Of
  <2>3. q = "services"
    BY <1>2, <1>3, <2>2 DEF PaletteMounted
  <2> QED
    BY <1>7, <2>1, <2>3 DEF Mounts
<1> QED
  BY <1>3, <1>5, <1>6, <1>7, ShownIs

\* What invalidating the query leaves: the cache is covered whatever it was.
LEMMA InvalidatedCovers ==
    ASSUME PanelType, Invalidated, watched' = watched, version' = version, page' = page, palette' = palette,
           data' = data
    PROVE  /\ fetch' \in {Idle, Sent} \cup [at : {"answered"}, version : 0..version]
           /\ BehindIsCovered'
           /\ fetch'.at = "answered" /\ fetch'.version # version' => excuse' \ {"failed"} # {}
<1>q. Query' = Query /\ invalid' = TRUE
  BY DEF Query, Invalidated
<1>m. Mounted(page', palette', Query') <=> Mounted(page, palette, Query)
  BY <1>q
<1>1. fetch' \in {fetch, Sent}
  BY DEF Invalidated, Refetched
<1>2. fetch' \in {Idle, Sent} \cup [at : {"answered"}, version : 0..version]
  BY <1>1 DEF PanelType
<1>3. ASSUME fetch' \notin {Idle, Sent}
      PROVE  /\ fetch'.at = "answered"
             /\ fetch'.version = version' \/ "overtaken" \in excuse'
  <2>1. fetch' = fetch /\ fetch \in [at : {"answered"}, version : 0..version] /\ fetch # Idle
    BY <1>1, <1>3 DEF PanelType
  <2>2. data = None \/ ~Mounted(page, palette, Query)
    BY <1>3, <2>1 DEF Invalidated, Refetched
  <2>3. fetch.version \in 0..version /\ version \in Nat /\ fetch.at = "answered"
    BY <2>1 DEF PanelType
  <2>4. CASE fetch.version < version
    BY <2>1, <2>2, <2>3, <2>4 DEF Invalidated
  <2>5. CASE fetch.version = version
    BY <2>1, <2>3, <2>5
  <2> QED
    BY <2>3, <2>4, <2>5
<1>4. fetch' = Idle => ~Mounted(page', palette', Query')
  BY <1>m, FetchKinds DEF Invalidated, Refetched
<1>5. BehindIsCovered'
  BY <1>q, <1>3, <1>4 DEF BehindIsCovered
<1>6. fetch'.at = "answered" => fetch' \notin {Idle, Sent}
  BY FetchKinds
<1> QED
  BY <1>2, <1>3, <1>5, <1>6

LEMMA PanelInit == Init => PanelInv
<1> SUFFICES ASSUME Init PROVE PanelInv
  OBVIOUS
<1>1. fetch \in {Idle, Sent} /\ (fetch = Idle => ~Mounted(page, palette, Query))
  BY FetchKinds DEF Init
<1>2. PanelType
  BY <1>1 DEF Init, PanelType, Watchable, Committed
<1>3. BehindIsCovered
  BY <1>1 DEF Init, BehindIsCovered
<1>4. OldAnswerIsCovered
  BY <1>1, FetchKinds DEF OldAnswerIsCovered
<1> QED
  BY <1>2, <1>3, <1>4 DEF PanelInv

LEMMA PanelStep == PanelInv /\ [Next]_vars => PanelInv'
<1> SUFFICES ASSUME PanelInv, [Next]_vars PROVE PanelInv'
  OBVIOUS
<1>inv. PanelType /\ BehindIsCovered /\ OldAnswerIsCovered
  BY DEF PanelInv
\* The parts of a step that concern neither the tables nor a mutation.
<1>keep. ASSUME UNCHANGED <<watched, version, change>>, page' \in Pages, palette' \in BOOLEAN,
                fetch' \in {Idle, Sent} \cup [at : {"answered"}, version : 0..version]
         PROVE  PanelType' /\ (Committed' <=> Committed) /\ Query' = Query
  BY <1>inv, <1>keep DEF PanelType, Committed, Query, Table
<1>at. ASSUME NEW f \in {Idle, Sent} PROVE f.at # "answered"
  BY FetchKinds
<1>show. ASSUME NEW p \in Pages, NEW open \in BOOLEAN, Show(p, open) PROVE PanelInv'
  <2>1. fetch' \in {fetch, Sent} /\ (fetch # Idle => fetch' = fetch)
    BY <1>show DEF Show, OnMount
  <2>2. PanelType' /\ (Committed' <=> Committed) /\ Query' = Query
    BY <1>inv, <1>keep, <1>show, <2>1 DEF Show, PanelType
  <2>3. OldAnswerIsCovered'
    BY <1>inv, <1>show, <2>1, <2>2, FetchKinds DEF OldAnswerIsCovered, Show
  <2> SUFFICES BehindIsCovered'
    BY <2>2, <2>3 DEF PanelInv
  <2>4. CASE fetch = Idle /\ ~Mounted(page, palette, Query) /\ (Query # "me" \/ data = None \/ invalid)
    <3>1. CASE Mounted(p, open, Query)
      <4>1. Mounts(p, open, Query)
        BY <1>inv, <1>show, <2>4, <3>1, MountsLemma DEF Show
      <4>2. fetch' = Sent
        BY <1>show, <2>4, <4>1 DEF Show, OnMount
      <4> QED
        BY <4>2 DEF BehindIsCovered
    <3>2. CASE ~Mounted(p, open, Query)
      <4>1. fetch' \in {Idle, Sent}
        BY <2>1, <2>4
      <4>2. ~Mounted(page', palette', Query')
        BY <1>show, <2>2, <3>2 DEF Show
      <4>3. Query' # "me" \/ data' = None \/ invalid'
        BY <1>show, <2>2, <2>4 DEF Show
      <4> QED
        BY <4>1, <4>2, <4>3 DEF BehindIsCovered
    <3> QED
      BY <3>1, <3>2
  <2>5. CASE ~(fetch = Idle /\ ~Mounted(page, palette, Query) /\ (Query # "me" \/ data = None \/ invalid))
    BY <1>inv, <1>show, <2>1, <2>2, <2>5, FetchKinds DEF BehindIsCovered, Show
  <2> QED
    BY <2>4, <2>5
<1>login. CASE Login
  <2>1. fetch' \in {fetch, Sent} /\ (fetch # Idle => fetch' = fetch)
    BY <1>login DEF Login, OnMount
  <2>2. PanelType' /\ (Committed' <=> Committed) /\ Query' = Query
    BY <1>inv, <1>keep, <1>login, <2>1 DEF Login, PanelType, Pages, Routes
  <2>3. OldAnswerIsCovered'
    BY <1>inv, <1>login, <2>1, <2>2, FetchKinds DEF OldAnswerIsCovered, Login
  <2> SUFFICES BehindIsCovered'
    BY <2>2, <2>3 DEF PanelInv
  <2>4. CASE Query = "me"
    BY <1>login, <2>4 DEF Login, BehindIsCovered
  <2>5. CASE Query # "me" /\ fetch = Idle
    <3>1. fetch' \in {Idle, Sent} /\ (fetch' = Idle => ~Mounted(page', palette', Query'))
      BY <1>login, <2>2, <2>5, FetchKinds DEF Login, OnMount
    <3> QED
      BY <2>2, <2>5, <3>1 DEF BehindIsCovered
  <2>6. CASE Query # "me" /\ fetch # Idle
    BY <1>inv, <1>login, <2>1, <2>2, <2>6 DEF Login, BehindIsCovered
  <2> QED
    BY <2>4, <2>5, <2>6
<1>out. CASE Logout \/ SignedOut
  <2>1. /\ fetch' \in {Idle, Sent} /\ (fetch' = Idle => ~Mounted(page', palette', Query')) /\ data' = None
        /\ change' = None /\ UNCHANGED <<watched, version>> /\ page' \in Pages /\ palette' = FALSE
    BY <1>out, FetchKinds DEF Logout, SignedOut, Query, Pages, Routes
  <2>2. PanelType'
    BY <1>inv, <2>1 DEF PanelType, Committed
  <2>3. OldAnswerIsCovered'
    BY <1>at, <2>1 DEF OldAnswerIsCovered
  <2>4. BehindIsCovered'
    BY <2>1 DEF BehindIsCovered
  <2> QED
    BY <2>2, <2>3, <2>4 DEF PanelInv
<1>answer. CASE Answer
  <2>1. fetch' = [at |-> "answered", version |-> version] /\ version \in Nat /\ version' = version
    BY <1>inv, <1>answer DEF Answer, PanelType
  <2>2. fetch' \in [at : {"answered"}, version : 0..version]
    BY <2>1
  <2>3. PanelType'
    BY <1>inv, <1>answer, <1>keep, <2>2 DEF Answer, PanelType
  <2>4. BehindIsCovered' /\ OldAnswerIsCovered'
    BY <2>1 DEF BehindIsCovered, OldAnswerIsCovered
  <2> QED
    BY <2>3, <2>4 DEF PanelInv
<1>arrive. CASE Arrive
  <2>1. PanelType' /\ (Committed' <=> Committed)
    BY <1>inv, <1>arrive, <1>keep DEF Arrive, PanelType, Pages, Routes
  <2>2. OldAnswerIsCovered'
    BY <1>arrive, <1>at DEF Arrive, OldAnswerIsCovered
  <2> SUFFICES BehindIsCovered'
    BY <2>1, <2>2 DEF PanelInv
  <2>3. CASE fetch.version = version
    BY <1>arrive, <2>3 DEF Arrive, BehindIsCovered
  <2>4. CASE fetch.version # version
    BY <1>inv, <1>arrive, <2>1, <2>4 DEF Arrive, OldAnswerIsCovered, BehindIsCovered
  <2> QED
    BY <2>3, <2>4
<1>fails. CASE FetchFails
  <2>1. /\ fetch' \in {Idle, Sent} /\ UNCHANGED <<watched, version, change>> /\ excuse' # {}
        /\ page' \in Pages /\ palette' \in BOOLEAN
    BY <1>inv, <1>fails DEF FetchFails, PanelType, Pages, Routes
  <2>2. PanelType'
    BY <1>keep, <2>1
  <2>3. BehindIsCovered' /\ OldAnswerIsCovered'
    BY <1>at, <2>1 DEF BehindIsCovered, OldAnswerIsCovered
  <2> QED
    BY <2>2, <2>3 DEF PanelInv
<1>mutate. ASSUME NEW m \in Mutations, Mutate(m) PROVE PanelInv'
  <2>1. ~Committed /\ change' = [of |-> m, committed |-> FALSE, version |-> 0] /\ Table \in Writes(m)
    BY <1>mutate DEF Mutate, Committed
  <2>2. UNCHANGED <<watched, version, data, fetch, invalid, page, palette, excuse>>
    BY <1>mutate DEF Mutate
  <2>3. change' \in [of : Mutations, committed : BOOLEAN, version : Nat] /\ ~Committed' /\ change'.of = m
    BY <2>1 DEF Committed
  <2>4. PanelType'
    BY <1>inv, <2>1, <2>2, <2>3 DEF PanelType, Table
  <2>5. BehindIsCovered' /\ OldAnswerIsCovered'
    BY <1>inv, <2>1, <2>2 DEF BehindIsCovered, OldAnswerIsCovered, Query
  <2> QED
    BY <2>4, <2>5 DEF PanelInv
<1>commit. CASE Commit
  <2>1. change \in [of : Mutations, committed : BOOLEAN, version : Nat] /\ version \in Nat /\ Table \in Writes(change.of)
    BY <1>inv, <1>commit DEF Commit, PanelType
  <2>2. /\ version' = version + 1 /\ UNCHANGED <<watched, data, fetch, invalid, page, palette, excuse>>
        /\ change' = [of |-> change.of, committed |-> TRUE, version |-> version']
    BY <1>commit, <2>1 DEF Commit
  <2>3. /\ change' \in [of : Mutations, committed : BOOLEAN, version : Nat] /\ change'.of = change.of
        /\ change'.committed = TRUE /\ change'.version = version'
    BY <2>1, <2>2
  <2>4. Committed'
    BY <2>3, NullAssumption DEF Committed
  <2>5. fetch' \in {Idle, Sent} \cup [at : {"answered"}, version : 0..version']
    BY <1>inv, <2>1, <2>2 DEF PanelType
  <2>6. PanelType'
    BY <1>inv, <2>1, <2>2, <2>3, <2>5 DEF PanelType, Table
  <2>7. BehindIsCovered' /\ OldAnswerIsCovered'
    BY <2>4 DEF BehindIsCovered, OldAnswerIsCovered
  <2> QED
    BY <2>6, <2>7 DEF PanelInv
<1>succeed. CASE Succeed
  <2> DEFINE m == change.of
             sets == m = "useUpdateAuthConfig" /\ Query = "authConfig"
  <2>0. /\ Table \in Writes(m) /\ Committed /\ change.version = version /\ change' = None
        /\ UNCHANGED <<watched, version, page, palette>> /\ page \in Pages /\ palette \in BOOLEAN
    BY <1>inv, <1>succeed DEF Succeed, PanelType, Committed
  <2>1. Query \in Invalidates(m) \/ Unannounced(m, Query, Table) \/ sets
    <3>1. Showing(Query, Table)
      BY <1>inv, WatchableShows DEF PanelType, Query, Table
    <3> QED
      BY <2>0, <3>1, WritesAreAnnounced
  <2>2. sets => Query \notin Invalidates(m)
    BY DEF Invalidates, AfterAuthConfig
  <2>3. CASE Query \in Invalidates(m)
    <3>1. Invalidated /\ data' = data
      BY <1>succeed, <2>2, <2>3 DEF Succeed
    <3>2. PanelType'
      BY <1>inv, <2>0, <3>1, InvalidatedCovers DEF PanelType, Committed
    <3>3. BehindIsCovered' /\ OldAnswerIsCovered'
      BY <1>inv, <2>0, <3>1, InvalidatedCovers DEF OldAnswerIsCovered
    <3> QED
      BY <3>2, <3>3 DEF PanelInv
  <2>4. CASE Query \notin Invalidates(m)
    <3>1. /\ UNCHANGED <<fetch, invalid>>
          /\ excuse' = IF sets THEN (IF fetch = Idle THEN {} ELSE {"overtaken"})
                       ELSE IF Unannounced(m, Query, Table) THEN excuse \cup {"gap"} ELSE excuse
          /\ data' = IF sets THEN change.version ELSE data
      BY <1>succeed, <2>4 DEF Succeed
    <3>2. PanelType'
      BY <1>inv, <2>0, <3>1 DEF PanelType, Committed
    <3>3. BehindIsCovered'
      BY <2>0, <2>1, <2>4, <3>1 DEF BehindIsCovered
    <3>4. OldAnswerIsCovered'
      BY <2>0, <2>1, <2>4, <3>1, FetchKinds DEF OldAnswerIsCovered
    <3> QED
      BY <3>2, <3>3, <3>4 DEF PanelInv
  <2> QED
    BY <2>3, <2>4
<1>fail. CASE Fail
  <2> DEFINE m == change.of
             settles == OnSettled(m) /\ Query \in Invalidates(m)
  <2>0. /\ change' = None /\ UNCHANGED <<watched, version, data, page, palette>>
        /\ page \in Pages /\ palette \in BOOLEAN /\ ~Committed'
    BY <1>inv, <1>fail DEF Fail, PanelType, Committed
  <2>1. CASE settles
    <3>1. Invalidated
      BY <1>fail, <2>1 DEF Fail
    <3>2. PanelType'
      BY <1>inv, <2>0, <3>1, InvalidatedCovers DEF PanelType, Committed
    <3>3. BehindIsCovered' /\ OldAnswerIsCovered'
      BY <1>inv, <2>0, <3>1, InvalidatedCovers DEF OldAnswerIsCovered
    <3> QED
      BY <3>2, <3>3 DEF PanelInv
  <2>2. CASE ~settles
    <3>1. /\ UNCHANGED <<fetch, invalid>>
          /\ excuse' = IF change.committed THEN excuse \cup {"lost"} ELSE excuse
      BY <1>fail, <2>2 DEF Fail
    <3>2. PanelType'
      BY <1>inv, <2>0, <3>1 DEF PanelType, Committed
    <3> SUFFICES BehindIsCovered' /\ OldAnswerIsCovered'
      BY <3>2 DEF PanelInv
    <3>3. CASE change.committed
      <4>1. excuse' # {} /\ excuse' \ {"failed"} # {}
        BY <3>1, <3>3
      <4> QED
        BY <4>1 DEF BehindIsCovered, OldAnswerIsCovered
    <3>4. CASE ~change.committed
      BY <1>inv, <2>0, <3>1, <3>4 DEF BehindIsCovered, OldAnswerIsCovered, Committed, Query
    <3> QED
      BY <3>3, <3>4
  <2> QED
    BY <2>1, <2>2
<1>stutter. CASE UNCHANGED vars
  BY <1>inv, <1>stutter DEF vars, PanelInv, PanelType, BehindIsCovered, OldAnswerIsCovered, Committed, Query, Table
<1> QED
  BY <1>show, <1>login, <1>out, <1>answer, <1>arrive, <1>fails, <1>mutate, <1>commit, <1>succeed, <1>fail, <1>stutter
     DEF Next

\* Panel: once nothing is under way, what a page shows includes everything the
\* panel did itself, whichever mutation, page or dialog it was done from; the
\* exceptions are the four the property names.
THEOREM PanelTheorem == Spec => []UpToDateUnlessExcused
<1>1. PanelInv => UpToDateUnlessExcused
  <2> SUFFICES ASSUME PanelInv, change = None, fetch = Idle, excuse = {}, watched \in Shown(page, palette)
               PROVE  data = version
    BY DEF UpToDateUnlessExcused
  <2>1. Mounted(page, palette, Query)
    BY SMTT(60) DEF Mounted, Query
  <2> QED
    BY <2>1, FetchKinds DEF PanelInv, BehindIsCovered, Committed
<1> QED
  BY <1>1, PanelInit, PanelStep, PTL DEF Spec

-----------------------------------------------------------------------------
(* Credentials: proofs.                                                    *)

\* The tables by kind.  Where the flags and the revealed secrets differ, the key is
\* stored bare and a blob always has it; the form asks for every secret it masks,
\* and prefills whatever is not one; fields are stored apart from each other, those
\* that are prefilled under their own name, and a reveal reads where they are stored.
TablesFit(k) ==
    /\ C!Flags(k) = C!Reveals(k) \/ (/\ C!Flags(k) = [token |-> {}] /\ C!Reveals(k) = [token |-> {"token"}]
                                     /\ C!Needs(k) = {"token"})
    /\ DOMAIN C!Flags(k) \subseteq C!Asks(k) /\ DOMAIN C!Reveals(k) \subseteq C!Asks(k)
    /\ C!Hints(k) \cup (C!Asks(k) \cap C!Secrets) = C!Asks(k)
    /\ \A f \in DOMAIN C!Reveals(k) : C!Reveals(k)[f] = C!StoredAs(k, f)
PlacesFit(k) ==
    /\ \A f \in C!Asks(k) : C!StoredAs(k, f) \subseteq C!Keys(k) /\ C!StoredAs(k, f) # {}
    /\ \A f, g \in C!Asks(k) : \A x \in C!StoredAs(k, f) : x \in C!StoredAs(k, g) => f = g
    /\ C!Hints(k) \subseteq C!Asks(k)
    /\ \A f \in C!Hints(k) : C!StoredAs(k, f) = {f}
    /\ "useCatalogNames" \in C!Asks(k) => "useCatalogNames" \in C!Hints(k)
    /\ k = "openrouter" => \A f \in C!Asks(k) : C!StoredAs(k, f) = {f}

LEMMA TablesAgree ==
    ASSUME NEW k, k # "manual"
    PROVE  TablesFit(k)
<1> USE DEF TablesFit, C!Flags, C!Reveals, C!Needs, C!Asks, C!Hints, C!Secrets, C!StoredAs
<1>1. CASE k = "selectel"
  BY <1>1 DEF C!SelectelForm
<1>2. CASE k = "cloudflare"
  BY <1>2 DEF C!CloudflareForm
<1>3. CASE k \in {"hostbill", "billmgr"}
  <2>1. /\ C!Flags(k) = [password |-> {"password"}, totpSecret |-> {"totpSecret"}] /\ C!Reveals(k) = C!Flags(k)
        /\ C!Asks(k) = {"baseUrl", "username", "password", "totpSecret"} /\ C!Hints(k) = {"baseUrl", "username"}
    BY <1>3 DEF C!BillingForm
  <2>2. \A f : C!StoredAs(k, f) = {f}
    BY <1>3
  <2> HIDE DEF C!Flags, C!Reveals, C!Asks, C!Hints, C!StoredAs
  <2>3. DOMAIN C!Flags(k) \subseteq C!Asks(k) /\ C!Hints(k) \cup (C!Asks(k) \cap C!Secrets) = C!Asks(k)
    BY <2>1
  <2>4. \A f \in DOMAIN C!Reveals(k) : C!Reveals(k)[f] = {f}
    BY <2>1
  <2> QED
    BY <2>1, <2>2, <2>3, <2>4
<1>4. CASE k = "4vps"
  BY <1>4 DEF C!FourVpsForm
<1>5. CASE k \in {"aeza", "vdsina"}
  BY <1>5, SMTT(60) DEF C!BranchForm
<1>6. CASE k = "openrouter"
  BY <1>6 DEF C!OpenRouterForm
<1>7. CASE k = "beget"
  <2>1. /\ C!Flags(k) = [password |-> {"password"}, totpSecret |-> {"totpSecret"}, apiPassword |-> {"apiPassword"}] /\ C!Reveals(k) = C!Flags(k)
        /\ C!Asks(k) = {"username", "password", "totpSecret", "apiPassword"} /\ C!Hints(k) = {"username"}
    BY <1>7 DEF C!BegetForm
  <2>2. \A f : C!StoredAs(k, f) = {f}
    BY <1>7
  <2> HIDE DEF C!Flags, C!Reveals, C!Asks, C!Hints, C!StoredAs
  <2>3. DOMAIN C!Flags(k) \subseteq C!Asks(k) /\ C!Hints(k) \cup (C!Asks(k) \cap C!Secrets) = C!Asks(k)
    BY <2>1
  <2>4. \A f \in DOMAIN C!Reveals(k) : C!Reveals(k)[f] = {f}
    BY <2>1
  <2> QED
    BY <2>1, <2>2, <2>3, <2>4
<1>8. CASE k = "doubleservers"
  BY <1>8 DEF C!DoubleForm
<1>9. CASE k \in {"porkbun", "spaceship"}
  <2>1. CASE k = "porkbun"
    BY <2>1 DEF C!KeyPairForm
  <2>2. CASE k = "spaceship"
    BY <2>2 DEF C!KeyPairForm
  <2> QED
    BY <1>9, <2>1, <2>2
<1>10. CASE k = "yandex"
  BY <1>10
<1>11. CASE k \notin {"selectel", "cloudflare", "hostbill", "billmgr", "4vps", "aeza", "vdsina", "openrouter", "beget",
                      "doubleservers", "porkbun", "spaceship", "yandex", "manual"}
  BY <1>11, SMTT(60)
<1> QED
  BY <1>1, <1>2, <1>3, <1>4, <1>5, <1>6, <1>7, <1>8, <1>9, <1>10, <1>11

LEMMA PlacesAgree ==
    ASSUME NEW k
    PROVE  PlacesFit(k)
<1> USE DEF PlacesFit, C!Needs, C!Spare, C!Keys, C!Asks, C!Hints, C!StoredAs
<1>1. CASE k = "selectel"
  BY <1>1 DEF C!SelectelForm
<1>2. CASE k = "cloudflare"
  BY <1>2 DEF C!CloudflareForm
<1>3. CASE k \in {"hostbill", "billmgr"}
  BY <1>3 DEF C!BillingForm
<1>4. CASE k = "4vps"
  BY <1>4 DEF C!FourVpsForm
<1>5. CASE k \in {"aeza", "vdsina"}
  BY <1>5 DEF C!BranchForm
<1>6. CASE k = "openrouter"
  BY <1>6 DEF C!OpenRouterForm
<1>7. CASE k = "beget"
  BY <1>7 DEF C!BegetForm
<1>8. CASE k = "doubleservers"
  BY <1>8 DEF C!DoubleForm
<1>9. CASE k \in {"porkbun", "spaceship"}
  BY <1>9 DEF C!KeyPairForm
<1>10. CASE k = "yandex"
  BY <1>10
<1>11. CASE k = "manual"
  BY <1>11
<1>12. CASE k \notin {"selectel", "cloudflare", "hostbill", "billmgr", "4vps", "aeza", "vdsina", "openrouter", "beget",
                      "doubleservers", "porkbun", "spaceship", "yandex", "manual"}
  BY <1>12
<1> QED
  BY <1>1, <1>2, <1>3, <1>4, <1>5, <1>6, <1>7, <1>8, <1>9, <1>10, <1>11, <1>12

LEMMA NeedsAreKeys ==
    ASSUME NEW k
    PROVE  /\ C!Needs(k) \subseteq C!Keys(k) /\ "useCatalogNames" \notin C!Needs(k)
           /\ k \in {"vdsina", "aeza"} => "baseUrl" \in C!Keys(k)
           /\ k = "openrouter" => "useCatalogNames" \in C!Keys(k)
BY DEF C!Needs, C!Keys, C!Spare

LEMMA ValuesAre == C!Blank \in Values /\ "yes" \in Values /\ C!Blank # "yes"
BY DEF Values, C!Blank

LEMMA DecodeType ==
    ASSUME NEW k, NEW b \in {Absent, None} \cup Blobs(k)
    PROVE  C!Decode(k, b) \in [C!Keys(k) -> Values]
<1>1. CASE b = None \/ b = Absent \/ ~b.readable
  BY <1>1, ValuesAre DEF C!Decode
<1>2. CASE ~(b = None \/ b = Absent \/ ~b.readable)
  <2>1. b.has \in [C!Keys(k) -> Values]
    BY <1>2 DEF Blobs
  <2> QED
    BY <1>2, <2>1, ValuesAre DEF C!Decode
<1> QED
  BY <1>1, <1>2

LEMMA DecodeIs ==
    ASSUME NEW k, NEW b \in Blobs(k), b \notin {Absent, None}, b.readable
    PROVE  /\ \A x \in C!Keys(k) : C!Decode(k, b)[x] = b.has[x] \/ (x = "useCatalogNames" /\ k = "openrouter")
           /\ k = "openrouter" => C!Decode(k, b)["useCatalogNames"] # C!Blank
<1>1. b.has \in [C!Keys(k) -> Values]
  BY DEF Blobs
<1>2. C!Decode(k, b) = IF k = "openrouter" /\ b.has["useCatalogNames"] = C!Blank
                       THEN [b.has EXCEPT !["useCatalogNames"] = "yes"] ELSE b.has
  BY DEF C!Decode
<1> QED
  BY <1>1, <1>2, NeedsAreKeys, ValuesAre

\* Where the parts of a field come from one entry, they decode to one value.
LEMMA DecodeUniform ==
    ASSUME NEW b \in {Absent, None} \cup Blobs(kind), b \in {Absent, None} \/ Works(b),
           NEW f \in C!Asks(kind), NEW x \in C!StoredAs(kind, f), NEW y \in C!StoredAs(kind, f)
    PROVE  C!Decode(kind, b)[x] = C!Decode(kind, b)[y]
<1>1. x \in C!Keys(kind) /\ y \in C!Keys(kind)
  BY PlacesAgree DEF PlacesFit
<1>2. CASE b = None \/ b = Absent \/ ~b.readable
  BY <1>1, <1>2 DEF C!Decode
<1>3. CASE ~(b = None \/ b = Absent \/ ~b.readable) /\ kind = "openrouter"
  <2>1. x = y
    BY <1>3, PlacesAgree DEF PlacesFit
  <2> QED
    BY <2>1
<1>4. CASE ~(b = None \/ b = Absent \/ ~b.readable) /\ kind # "openrouter"
  BY <1>4 DEF C!Decode, Works
<1> QED
  BY <1>2, <1>3, <1>4

LEMMA DtoIs ==
    ASSUME NEW dto \in Dtos
    PROVE  DOMAIN dto \subseteq C!Asks(kind) /\ \A f \in DOMAIN dto : dto[f] \in Values
BY DEF Dtos

\* What a save makes of a field: what was sent, or what was there.
LEMMA MergedIs ==
    ASSUME NEW dto \in Dtos, NEW existing \in {Absent, None} \cup Blobs(kind)
    PROVE  /\ C!Merged(kind, dto, existing) \in [C!Keys(kind) -> Values]
           /\ \A f \in C!Asks(kind) : \A x \in C!StoredAs(kind, f) :
                C!Merged(kind, dto, existing)[x] = IF f \in DOMAIN dto THEN dto[f] ELSE C!Decode(kind, existing)[x]
<1> DEFINE From(x) == CHOOSE f \in DOMAIN dto : x \in C!StoredAs(kind, f)
<1>1. \A x : (\E f \in DOMAIN dto : x \in C!StoredAs(kind, f)) => From(x) \in DOMAIN dto /\ x \in C!StoredAs(kind, From(x))
  BY Zenon
<1>2. C!Merged(kind, dto, existing) =
        [x \in C!Keys(kind) |-> IF \E f \in DOMAIN dto : x \in C!StoredAs(kind, f)
                                THEN dto[From(x)] ELSE C!Decode(kind, existing)[x]]
  BY Zenon DEF C!Merged
<1> HIDE DEF From
<1>3. C!Merged(kind, dto, existing) \in [C!Keys(kind) -> Values]
  BY <1>1, <1>2, DtoIs, DecodeType
<1>4. ASSUME NEW f \in C!Asks(kind), NEW x \in C!StoredAs(kind, f)
      PROVE  C!Merged(kind, dto, existing)[x] = IF f \in DOMAIN dto THEN dto[f] ELSE C!Decode(kind, existing)[x]
  <2>1. x \in C!Keys(kind) /\ \A g \in C!Asks(kind) : x \in C!StoredAs(kind, g) => f = g
    BY PlacesAgree DEF PlacesFit
  <2>2. CASE f \in DOMAIN dto
    <3>1. From(x) \in DOMAIN dto /\ x \in C!StoredAs(kind, From(x))
      BY <1>1, <2>2
    <3>2. From(x) = f
      BY <2>1, <3>1, DtoIs
    <3> QED
      BY <1>2, <2>1, <2>2, <3>2
  <2>3. CASE f \notin DOMAIN dto
    <3>1. ~\E g \in DOMAIN dto : x \in C!StoredAs(kind, g)
      BY <2>1, <2>3, DtoIs
    <3> QED
      BY <1>2, <2>1, <2>3, <3>1
  <2> QED
    BY <2>2, <2>3
<1> QED
  BY <1>3, <1>4

\* What is written has passed the refusals, whatever it was merged with.
LEMMA BuiltWorks ==
    ASSUME kind # "manual", NEW dto \in Dtos, DOMAIN dto # {}, NEW existing \in {Absent, None} \cup Blobs(kind),
           existing \in {Absent, None} \/ Works(existing), C!Built(kind, dto, existing).ok
    PROVE  /\ C!Built(kind, dto, existing).blob \in Blobs(kind) /\ Works(C!Built(kind, dto, existing).blob)
           /\ C!Built(kind, dto, existing).blob.readable
           /\ \A x \in C!Keys(kind) :
                \/ C!Built(kind, dto, existing).blob.has[x] = C!Merged(kind, dto, existing)[x]
                \/ x = "useCatalogNames" /\ kind = "openrouter" /\ C!Merged(kind, dto, existing)[x] = C!Blank
<1> DEFINE has == C!Merged(kind, dto, existing)
           b == C!Built(kind, dto, existing).blob
           on == kind = "openrouter" /\ has["useCatalogNames"] = C!Blank
<1>1. C!Accepts(kind, has) /\ b = C!Encrypted(kind, has)
  BY DEF C!Built
<1>2. has \in [C!Keys(kind) -> Values]
  BY MergedIs
<1>3. b = [bare |-> kind \in C!BareKinds, readable |-> TRUE,
           has |-> IF on THEN [has EXCEPT !["useCatalogNames"] = "yes"] ELSE has]
  BY <1>1 DEF C!Encrypted
<1>4. \A f \in C!Asks(kind) : \A x, y \in C!StoredAs(kind, f) : has[x] = has[y]
  BY MergedIs, DecodeUniform
<1> HIDE DEF has, b
<1>5. /\ b.has \in [C!Keys(kind) -> Values] /\ b.readable
      /\ \A x \in C!Keys(kind) : b.has[x] = has[x] \/ (x = "useCatalogNames" /\ kind = "openrouter" /\ has[x] = C!Blank)
  BY <1>2, <1>3, ValuesAre
<1>6. b \in Blobs(kind)
  <2>1. (kind \in C!BareKinds) \in BOOLEAN
    OBVIOUS
  <2> QED
    BY <1>3, <1>5, <2>1 DEF Blobs
<1>7. \A x \in C!Needs(kind) : b.has[x] # C!Blank
  BY <1>1, <1>5, NeedsAreKeys DEF C!Accepts
<1>8. kind \in {"vdsina", "aeza"} => b.has["baseUrl"] # "bad"
  BY <1>1, <1>5, NeedsAreKeys DEF C!Accepts
<1>9. \A f \in C!Asks(kind) : \A x, y \in C!StoredAs(kind, f) : b.has[x] = b.has[y]
  <2>1. CASE kind = "openrouter"
    BY <2>1, PlacesAgree DEF PlacesFit
  <2>2. CASE kind # "openrouter"
    BY <1>4, <1>5, <2>2, PlacesAgree DEF PlacesFit
  <2> QED
    BY <2>1, <2>2
<1> QED
  BY <1>5, <1>6, <1>7, <1>8, <1>9 DEF Works, b, has

LEMMA StoredWorks ==
    ASSUME NEW s, NEW bare \in BOOLEAN, kind # "manual"
    PROVE  /\ C!Stored(kind, C!Needs(kind) \cup s, bare) \in Blobs(kind)
           /\ s \subseteq C!Spare(kind) => Works(C!Stored(kind, C!Needs(kind) \cup s, bare))
<1> DEFINE b == C!Stored(kind, C!Needs(kind) \cup s, bare)
<1>1. b = [bare |-> bare, readable |-> TRUE,
           has |-> [x \in C!Keys(kind) |-> IF x \in C!Needs(kind) \cup s THEN C!Old(x) ELSE C!Blank]]
  BY DEF C!Stored
<1>2. \A x : C!Old(x) # C!Blank /\ C!Old(x) # "bad" /\ C!Old(x) \in Values
  BY DEF C!Old, C!Blank, Values
<1> HIDE DEF b
<1>3. b \in Blobs(kind)
  BY <1>1, <1>2, ValuesAre DEF Blobs
<1>4. \A x \in C!Keys(kind) : b.has[x] = IF x \in C!Needs(kind) \cup s THEN C!Old(x) ELSE C!Blank
  BY <1>1
<1>5. \A x \in C!Needs(kind) : b.has[x] # C!Blank
  BY <1>2, <1>4, NeedsAreKeys
<1>6. kind \in {"vdsina", "aeza"} => b.has["baseUrl"] # "bad"
  BY <1>2, <1>4, NeedsAreKeys DEF C!Blank
<1>7. \A f \in C!Asks(kind) : \A x, y \in C!StoredAs(kind, f) : b.has[x] = b.has[y]
  <2>1. CASE kind = "yandex"
    BY <1>4, <2>1 DEF C!Asks, C!StoredAs, C!Needs, C!Keys, C!Old
  <2>2. CASE kind # "yandex"
    <3>1. \A f \in C!Asks(kind) : \A x, y \in C!StoredAs(kind, f) : x = y
      BY <2>2 DEF C!StoredAs
    <3> QED
      BY <3>1
  <2> QED
    BY <2>1, <2>2
<1> QED
  BY <1>3, <1>5, <1>6, <1>7 DEF Works, b

\* What the form learns of a blob.
LEMMA PresenceType ==
    ASSUME NEW b
    PROVE  C!SecretPresence(kind, b) \subseteq C!Asks(kind)
BY TablesAgree DEF C!SecretPresence, TablesFit

LEMMA RevealedIs ==
    ASSUME NEW b \in {Absent, None} \cup Blobs(kind), b \in {Absent, None} \/ Works(b)
    PROVE  /\ C!Revealed(kind, b) \in Dtos
           /\ \A f \in DOMAIN C!Revealed(kind, b) : \A x \in C!StoredAs(kind, f) :
                C!Revealed(kind, b)[f] = C!Decode(kind, b)[x]
<1> DEFINE R == C!Revealed(kind, b)
           Pick(f) == CHOOSE x \in C!Reveals(kind)[f] : TRUE
           there == {f \in DOMAIN C!Reveals(kind) : \A x \in C!Reveals(kind)[f] : C!Decode(kind, b)[x] # C!Blank}
<1>1. CASE kind = "manual" \/ b = None \/ b = Absent
  <2>1. R = [f \in {} |-> C!Blank]
    BY <1>1 DEF C!Revealed
  <2> QED
    BY <2>1 DEF Dtos
<1>2. CASE ~(kind = "manual" \/ b = None \/ b = Absent)
  <2>1. R = [f \in there |-> C!Decode(kind, b)[Pick(f)]]
    BY <1>2, Zenon DEF C!Revealed
  <2>2. TablesFit(kind) /\ PlacesFit(kind)
    BY <1>2, TablesAgree, PlacesAgree
  <2>3. \A f \in there : f \in C!Asks(kind) /\ C!Reveals(kind)[f] = C!StoredAs(kind, f) /\ C!StoredAs(kind, f) # {}
    BY <2>2 DEF TablesFit, PlacesFit
  <2>4. \A f \in there : Pick(f) \in C!StoredAs(kind, f)
    BY <2>3
  <2>5. \A f \in there : \A x \in C!StoredAs(kind, f) : C!Decode(kind, b)[Pick(f)] = C!Decode(kind, b)[x]
    BY <2>3, <2>4, DecodeUniform
  <2>6. \A f \in there : C!Decode(kind, b)[Pick(f)] \in Values
    BY <2>2, <2>3, <2>4, DecodeType DEF PlacesFit
  <2>7. there \subseteq C!Asks(kind)
    BY <2>3
  <2> HIDE DEF Pick, there
  <2>8. R \in [there -> Values] /\ DOMAIN R = there /\ \A f \in there : R[f] = C!Decode(kind, b)[Pick(f)]
    BY <2>1, <2>6
  <2> QED
    BY <2>5, <2>7, <2>8 DEF Dtos
<1> QED
  BY <1>1, <1>2

LEMMA CredentialsInit == C!Init => CredentialsInv
<1> SUFFICES ASSUME C!Init PROVE CredentialsInv
  OBVIOUS
<1>1. blob \in {Absent, None} \/ (blob \in Blobs(kind) /\ Works(blob))
  <2> SUFFICES ASSUME blob \notin {Absent, None} PROVE blob \in Blobs(kind) /\ Works(blob)
    OBVIOUS
  <2>1. kind # "manual"
    BY DEF C!Init
  <2>2. \/ \E s \in SUBSET C!Spare(kind) : blob = C!Stored(kind, C!Needs(kind) \cup s, kind \in C!BareKinds)
        \/ blob = C!Stored(kind, C!Needs(kind), TRUE)
    BY <2>1 DEF C!Init
  <2>3. C!Needs(kind) = C!Needs(kind) \cup {} /\ (kind \in C!BareKinds) \in BOOLEAN
    OBVIOUS
  <2> QED
    BY <2>1, <2>2, <2>3, StoredWorks
<1>2. form = None /\ kind \in Kinds /\ request = [c \in C!Clients |-> None] /\ "panel" \in C!Clients /\ "api" \in C!Clients
  BY DEF C!Init, C!Clients
<1> QED
  BY <1>1, <1>2 DEF CredentialsInv, CredentialsType, BlobsWork, FormMirrors, RequestMirrors

\* What a blob tells the form when it is opened.
LEMMA PrefilledFits ==
    ASSUME CredentialsType, NEW f \in C!Asks(kind)
    PROVE  /\ C!Prefilled(kind, blob) \in [C!Asks(kind) -> Values]
           /\ C!Prefilled(kind, blob)[f] # C!Blank => f \in C!Hints(kind)
           /\ C!Prefilled(kind, blob)[f] # C!Blank /\ Readable => Mirrors(f, C!Prefilled(kind, blob)[f])
<1> DEFINE D == C!Decode(kind, blob)
<1>1. PlacesFit(kind)
  BY PlacesAgree
<1>2. D \in [C!Keys(kind) -> Values]
  BY DecodeType DEF CredentialsType
<1>3. ASSUME NEW g \in C!Hints(kind) PROVE C!StoredAs(kind, g) = {g} /\ g \in C!Keys(kind) /\ D[g] \in Values
  BY <1>1, <1>2, <1>3 DEF PlacesFit
<1> HIDE DEF D
<1>4. C!Prefilled(kind, blob) = [g \in C!Asks(kind) |-> IF g = "useCatalogNames" /\ D[g] = C!Blank THEN "yes"
                                                        ELSE IF g \in C!Hints(kind) THEN D[g] ELSE C!Blank]
  BY DEF C!Prefilled, D
<1>5. C!Prefilled(kind, blob) \in [C!Asks(kind) -> Values]
  BY <1>3, <1>4, ValuesAre
<1>6. C!Prefilled(kind, blob)[f] # C!Blank => f \in C!Hints(kind)
  BY <1>1, <1>4 DEF PlacesFit
<1>7. ASSUME C!Prefilled(kind, blob)[f] # C!Blank, Readable PROVE Mirrors(f, C!Prefilled(kind, blob)[f])
  <2>1. f \in C!Hints(kind) /\ C!StoredAs(kind, f) = {f}
    BY <1>3, <1>6, <1>7
  <2>2. f = "useCatalogNames" => D[f] # C!Blank
    <3> SUFFICES ASSUME f = "useCatalogNames" PROVE D[f] # C!Blank
      OBVIOUS
    <3>1. kind = "openrouter"
      BY <2>1 DEF C!Hints
    <3>2. blob \in Blobs(kind) /\ blob \notin {Absent, None} /\ blob.readable
      BY <1>7 DEF CredentialsType, Readable
    <3> QED
      BY <3>1, <3>2, DecodeIs DEF D
  <2>3. C!Prefilled(kind, blob)[f] = D[f]
    BY <1>4, <2>1, <2>2
  <2> QED
    BY <2>1, <2>3 DEF Mirrors, D
<1> QED
  BY <1>5, <1>6, <1>7

\* A save under way that wrote, or was refused: what becomes of the blob.
LEMMA WrittenWorks ==
    ASSUME CredentialsType, BlobsWork, NEW c \in C!Clients, C!Update(c)
    PROVE  \/ blob' = blob /\ overtaken' = overtaken
           \/ /\ blob' \in Blobs(kind) /\ Works(blob') /\ overtaken' = overtaken \cup C!Others(c)
              /\ blob' = C!Built(kind, request[c].dto, request[c].existing).blob
              /\ kind # "manual" /\ DOMAIN request[c].dto # {}
              /\ C!Built(kind, request[c].dto, request[c].existing).ok
<1> DEFINE built == C!Built(kind, request[c].dto, request[c].existing)
           wrote == kind # "manual" /\ DOMAIN request[c].dto # {} /\ built.ok
<1>1. /\ blob' = IF wrote THEN built.blob ELSE blob
      /\ overtaken' = IF wrote THEN overtaken \cup C!Others(c) ELSE overtaken
  BY DEF C!Update
<1>2. request[c] \in Saving /\ (request[c].existing \in {Absent, None} \/ Works(request[c].existing))
  BY DEF C!Update, CredentialsType, BlobsWork
<1>3. CASE wrote
  <2>1. built.blob \in Blobs(kind) /\ Works(built.blob)
    BY <1>2, <1>3, BuiltWorks DEF Saving
  <2> QED
    BY <1>1, <1>3, <2>1
<1>4. CASE ~wrote
  BY <1>1, <1>4
<1> QED
  BY <1>3, <1>4

LEMMA CredentialsStep == CredentialsInv /\ [C!Next]_(C!vars) => CredentialsInv'
<1> SUFFICES ASSUME CredentialsInv, [C!Next]_(C!vars) PROVE CredentialsInv'
  OBVIOUS
<1> USE DEF C!Clients
<1>inv. CredentialsType /\ BlobsWork /\ FormMirrors /\ RequestMirrors
  BY DEF CredentialsInv
<1>type. /\ kind \in Kinds /\ blob \in {Absent, None} \cup Blobs(kind) /\ (blob \in {Absent, None} \/ Works(blob))
         /\ form \in {None} \cup Forms /\ request \in [{"panel", "api"} -> {None} \cup Saving]
  BY <1>inv DEF CredentialsType, BlobsWork
\* What a step of the form leaves to show.
<1>form. ASSUME UNCHANGED <<kind, blob, request, overtaken>>, form # None, NEW g \in Forms, form' = g, FormFits(g)
         PROVE  CredentialsInv'
  <2>1. request["panel"] = None
    BY <1>inv, <1>form DEF CredentialsType
  <2>2. FormMirrors'
    BY <1>form DEF FormMirrors, FormFits, Readable, Mirrors
  <2>3. CredentialsType'
    BY <1>inv, <1>form, <2>1 DEF CredentialsType, Forms, Saving, Dtos
  <2>4. BlobsWork' /\ RequestMirrors'
    BY <1>inv, <1>form, <2>1 DEF BlobsWork, Works, RequestMirrors
  <2> QED
    BY <2>2, <2>3, <2>4 DEF CredentialsInv
<1>fits. ASSUME form # None PROVE form \in Forms /\ FormFits(form)
  BY <1>inv, <1>fits DEF CredentialsType, FormMirrors
\* What a step of the server leaves to show.
<1>server. ASSUME kind' = kind, form' = form, blob' \in {Absent, None} \cup Blobs(kind),
                  blob' \in {Absent, None} \/ Works(blob'),
                  request' \in [{"panel", "api"} -> {None} \cup Saving], form = None \/ request'["panel"] = None,
                  \A c \in {"panel", "api"} : request'[c] # None =>
                      /\ request'[c].new => ~request'[c].read
                      /\ request'[c].existing \in {Absent, None} \/ Works(request'[c].existing),
                  FormMirrors', RequestMirrors'
           PROVE  CredentialsInv'
  <2>1. CredentialsType'
    BY <1>inv, <1>server DEF CredentialsType, Forms, Saving, Dtos
  <2>2. BlobsWork'
    BY <1>server DEF BlobsWork, Works
  <2> QED
    BY <1>server, <2>1, <2>2 DEF CredentialsInv
<1>reqs. ASSUME NEW c \in {"panel", "api"}, request[c] # None
         PROVE  /\ request[c] \in Saving /\ (request[c].new => ~request[c].read)
                /\ request[c].existing \in {Absent, None} \/ Works(request[c].existing)
  BY <1>inv, <1>reqs DEF CredentialsType, BlobsWork
<1>open. CASE C!OpenForm
  <2> DEFINE g == [new |-> blob = Absent, value |-> C!Prefilled(kind, blob), stored |-> C!SecretPresence(kind, blob),
                   seen |-> {}, told |-> None, shot |-> {}, typed |-> {}]
  <2>1. /\ form' = g /\ UNCHANGED <<kind, blob, request>> /\ request["panel"] = None
    BY <1>open DEF C!OpenForm
  <2>2. g \in Forms
    <3>1. C!Prefilled(kind, blob) \in [C!Asks(kind) -> Values]
      <4>1. CASE C!Asks(kind) = {}
        BY <4>1 DEF C!Prefilled
      <4>2. CASE C!Asks(kind) # {}
        BY <1>inv, <4>2, PrefilledFits
      <4> QED
        BY <4>1, <4>2
    <3>2. (blob = Absent) \in BOOLEAN /\ C!SecretPresence(kind, blob) \subseteq C!Asks(kind)
      BY PresenceType
    <3> QED
      BY <3>1, <3>2 DEF Forms
  <2>3. FormMirrors'
    <3>1. ASSUME NEW f \in C!Asks(kind), C!Prefilled(kind, blob)[f] # C!Blank
          PROVE  f \in C!Hints(kind) /\ (Readable => Mirrors(f, C!Prefilled(kind, blob)[f]))
      BY <1>inv, <3>1, PrefilledFits
    <3>2. /\ form'.value = C!Prefilled(kind, blob) /\ form'.told = None /\ form'.typed = {} /\ form'.shot = {}
          /\ kind' = kind /\ blob' = blob
      BY <2>1
    <3> QED
      BY <3>1, <3>2 DEF FormMirrors, FormFits, Readable, Mirrors
  <2> HIDE DEF g
  <2>4. CredentialsType'
    BY <1>inv, <2>1, <2>2 DEF CredentialsType, Forms, Saving, Dtos
  <2>5. BlobsWork' /\ RequestMirrors'
    BY <1>inv, <2>1 DEF BlobsWork, Works, RequestMirrors
  <2> QED
    BY <2>3, <2>4, <2>5 DEF CredentialsInv
<1>close. CASE C!CloseForm
  <2>1. UNCHANGED <<kind, blob, request, overtaken>> /\ form' = None
    BY <1>close DEF C!CloseForm
  <2>2. CredentialsType' /\ FormMirrors' /\ BlobsWork'
    BY <1>inv, <2>1 DEF CredentialsType, Saving, Dtos, FormMirrors, BlobsWork, Works
  <2>3. RequestMirrors'
    BY <1>inv, <2>1 DEF RequestMirrors, RequestFits, Readable, Mirrors
  <2> QED
    BY <2>2, <2>3 DEF CredentialsInv
<1>flags. CASE C!FlagsRefetched
  <2> DEFINE g == [form EXCEPT !.stored = C!SecretPresence(kind, blob)]
  <2>1. form # None /\ form' = g /\ UNCHANGED <<kind, blob, request, overtaken>>
    BY <1>flags DEF C!FlagsRefetched
  <2>2. C!SecretPresence(kind, blob) \subseteq C!Asks(kind)
    BY PresenceType
  <2>3. g \in Forms /\ g.value = form.value /\ g.typed = form.typed /\ g.shot = form.shot /\ g.told = form.told
    BY <1>fits, <2>1, <2>2 DEF Forms
  <2> HIDE DEF g
  <2>4. FormFits(g)
    BY <1>fits, <2>1, <2>3 DEF FormFits
  <2> QED
    BY <1>form, <2>1, <2>3, <2>4
<1>look. ASSUME NEW f \in C!Asks(kind), C!Look(f) PROVE CredentialsInv'
  <2> DEFINE g == [form EXCEPT !.seen = @ \cup {f}]
  <2>1. form # None /\ form' = g /\ UNCHANGED <<kind, blob, request, overtaken>>
    BY <1>look DEF C!Look
  <2>2. g \in Forms /\ g.value = form.value /\ g.typed = form.typed /\ g.shot = form.shot /\ g.told = form.told
    BY <1>fits, <2>1 DEF Forms
  <2> HIDE DEF g
  <2>3. FormFits(g)
    BY <1>fits, <2>1, <2>2 DEF FormFits
  <2> QED
    BY <1>form, <2>1, <2>2, <2>3
<1>typed. ASSUME NEW f \in C!Asks(kind), NEW v \in C!Typable(kind, f), C!TypeInto(f, v) PROVE CredentialsInv'
  <2> DEFINE g == [form EXCEPT !.value[f] = v, !.typed = @ \cup {f}]
  <2>1. form # None /\ form' = g /\ UNCHANGED <<kind, blob, request, overtaken>>
    BY <1>typed DEF C!TypeInto
  <2>2. v \in Values
    BY DEF C!Typable, Values
  <2>3. /\ g \in Forms /\ g.value = [form.value EXCEPT ![f] = v] /\ g.typed = form.typed \cup {f}
        /\ g.shot = form.shot /\ g.told = form.told
    BY <1>fits, <2>1, <2>2 DEF Forms
  <2>4. \A h \in C!Asks(kind) \ g.typed : h \in C!Asks(kind) \ form.typed /\ g.value[h] = form.value[h]
    BY <1>fits, <2>1, <2>3 DEF Forms
  <2> HIDE DEF g
  <2>5. FormFits(g)
    BY <1>fits, <2>1, <2>3, <2>4 DEF FormFits
  <2> QED
    BY <1>form, <2>1, <2>3, <2>5
<1>hide. ASSUME NEW f \in C!Asks(kind), C!Hide(f) PROVE CredentialsInv'
  <2> DEFINE g == [form EXCEPT !.seen = @ \ {f}, !.value[f] = C!Covered(f),
                               !.shot = IF C!Forgets(f) THEN @ \ {f} ELSE @]
  <2>1. form # None /\ form' = g /\ UNCHANGED <<kind, blob, request, overtaken>>
    BY <1>hide DEF C!Hide
  <2>2. /\ C!Covered(f) = IF C!Forgets(f) THEN C!Blank ELSE form.value[f]
        /\ C!Covered(f) \in Values
    BY <1>fits, <2>1, ValuesAre DEF C!Covered, Forms
  <2>3. /\ g \in Forms /\ g.value = [form.value EXCEPT ![f] = C!Covered(f)] /\ g.typed = form.typed
        /\ g.shot = (IF C!Forgets(f) THEN form.shot \ {f} ELSE form.shot) /\ g.told = form.told
    BY <1>fits, <2>1, <2>2 DEF Forms
  <2>4. \A h \in C!Asks(kind) : g.value[h] # C!Blank => g.value[h] = form.value[h] /\ (h \in form.shot => h \in g.shot)
    BY <1>fits, <2>1, <2>2, <2>3 DEF Forms
  <2> HIDE DEF g
  <2>5. FormFits(g)
    BY <1>fits, <2>1, <2>3, <2>4 DEF FormFits
  <2> QED
    BY <1>form, <2>1, <2>3, <2>5
<1>reveal. ASSUME NEW f \in C!Asks(kind), NEW ok \in BOOLEAN, C!Reveal(f, ok) PROVE CredentialsInv'
  <2> DEFINE told == IF form.told = None THEN C!Revealed(kind, blob) ELSE form.told
             g == [form EXCEPT !.told = told, !.seen = @ \cup {f}, !.shot = @ \cup {f}, !.value[f] = C!Told(told, f)]
             h == [form EXCEPT !.seen = @ \cup {f}]
  <2>1. /\ form # None /\ form' \in {g, h} /\ UNCHANGED <<kind, blob, request, overtaken>>
    BY <1>reveal DEF C!Reveal
  <2>2. CASE form' = h
    <3>1. h \in Forms /\ h.value = form.value /\ h.typed = form.typed /\ h.shot = form.shot /\ h.told = form.told
      BY <1>fits, <2>1 DEF Forms
    <3> HIDE DEF h
    <3>2. FormFits(h)
      BY <1>fits, <2>1, <3>1 DEF FormFits
    <3> QED
      BY <1>form, <2>1, <2>2, <3>1, <3>2
  <2>3. CASE form' = g
    <3>1. C!Revealed(kind, blob) \in Dtos
      BY <1>type, RevealedIs
    <3>2. told \in Dtos /\ (Readable /\ {"panel", "key"} \cap overtaken = {} => told = C!Revealed(kind, blob))
      BY <1>fits, <2>1, <3>1 DEF Forms, FormFits
    <3>3. C!Told(told, f) \in Values
      BY <3>2, DtoIs, ValuesAre DEF C!Told
    <3> HIDE DEF told
    <3>4. /\ g \in Forms /\ g.value = [form.value EXCEPT ![f] = C!Told(told, f)] /\ g.typed = form.typed
          /\ g.shot = form.shot \cup {f} /\ g.told = told
      BY <1>fits, <2>1, <3>2, <3>3 DEF Forms
    <3>5. /\ \A x \in C!Asks(kind) : x # f => g.value[x] = form.value[x]
          /\ g.value[f] = C!Told(told, f)
      BY <1>fits, <2>1, <3>4 DEF Forms
    <3>6. ASSUME Readable, {"panel", "key"} \cap overtaken = {}, C!Told(told, f) # C!Blank PROVE Mirrors(f, C!Told(told, f))
      <4>1. told = C!Revealed(kind, blob) /\ f \in DOMAIN told /\ C!Told(told, f) = told[f]
        BY <3>2, <3>6 DEF C!Told
      <4> QED
        BY <1>type, <4>1, RevealedIs DEF Mirrors
    <3> HIDE DEF g
    <3>7. FormFits(g)
      BY <1>fits, <2>1, <3>2, <3>4, <3>5, <3>6 DEF FormFits
    <3> QED
      BY <1>form, <2>1, <2>3, <3>4, <3>7
  <2> QED
    BY <2>1, <2>2, <2>3
<1>submit. CASE C!Submit
  <2> DEFINE q == [dto |-> C!Sent(form.value), new |-> form.new, read |-> FALSE, existing |-> None,
                   typed |-> form.typed, shown |-> C!Shown]
  <2>1. /\ form # None /\ form' = None /\ request["panel"] = None /\ request' = [request EXCEPT !["panel"] = q]
        /\ UNCHANGED <<kind, blob, overtaken>>
    BY <1>submit DEF C!Submit
  <2>2. form \in Forms /\ FormFits(form)
    BY <1>fits, <2>1
  <2>3. /\ C!Sent(form.value) \in Dtos
        /\ \A f \in DOMAIN C!Sent(form.value) :
              f \in C!Asks(kind) /\ C!Sent(form.value)[f] = form.value[f] /\ form.value[f] # C!Blank
    <3>1. DOMAIN form.value = C!Asks(kind) /\ \A f \in C!Asks(kind) : form.value[f] \in Values
      BY <2>2 DEF Forms
    <3> DEFINE D == {g \in DOMAIN form.value : form.value[g] # C!Blank}
    <3>2. C!Sent(form.value) = [f \in D |-> form.value[f]] /\ D \subseteq C!Asks(kind)
      BY <3>1 DEF C!Sent
    <3>3. C!Sent(form.value) \in [D -> Values]
      BY <3>1, <3>2
    <3> QED
      BY <3>1, <3>2, <3>3 DEF Dtos
  <2>4. C!Shown = C!Hints(kind) \cup form.shot /\ C!Shown \subseteq C!Asks(kind)
    BY <2>2, PlacesAgree DEF C!Shown, Forms, PlacesFit
  <2>5. q \in Saving
    BY <2>2, <2>3, <2>4 DEF Saving, Forms
  <2>6. \A f \in DOMAIN q.dto \ q.typed :
            f \in q.shown /\ (Readable /\ {"panel", "key"} \cap overtaken = {} => Mirrors(f, q.dto[f]))
    BY <2>2, <2>3, <2>4 DEF FormFits
  <2>7. q.read = FALSE /\ q.existing = None
    OBVIOUS
  <2>8. PICK r : r = q
    OBVIOUS
  <2> HIDE DEF q
  <2>9. request'["panel"] = r /\ request'["api"] = request["api"] /\ request' \in [{"panel", "api"} -> {None} \cup Saving]
    BY <1>type, <2>1, <2>5, <2>8
  <2>10. RequestMirrors'
    BY <1>inv, <2>1, <2>6, <2>8, <2>9 DEF RequestMirrors, RequestFits, Readable, Mirrors
  <2>11. CredentialsType' /\ FormMirrors'
    BY <1>inv, <2>1, <2>7, <2>8, <2>9 DEF CredentialsType, FormMirrors, Saving, Dtos
  <2>12. BlobsWork'
    BY <1>inv, <2>1, <2>7, <2>8, <2>9 DEF BlobsWork, Works
  <2> QED
    BY <2>10, <2>11, <2>12 DEF CredentialsInv
<1>patch. ASSUME NEW f \in C!Asks(kind), NEW v \in {"api", "bad", "no"}, C!Patch(f, v) PROVE CredentialsInv'
  <2> DEFINE q == [dto |-> [g \in {f} |-> v], new |-> FALSE, read |-> FALSE, existing |-> None, typed |-> {f}, shown |-> {}]
  <2>1. /\ request["api"] = None /\ request' = [request EXCEPT !["api"] = q] /\ overtaken' = overtaken \ {"api"}
        /\ UNCHANGED <<kind, blob, form>>
    BY <1>patch DEF C!Patch
  <2>2. q \in Saving
    <3>1. [g \in {f} |-> v] \in [{f} -> Values] /\ {f} \subseteq C!Asks(kind)
      BY DEF Values
    <3> QED
      BY <3>1 DEF Saving, Dtos
  <2>3. q.read = FALSE /\ q.existing = None /\ DOMAIN q.dto \subseteq q.typed
    OBVIOUS
  <2>4. PICK r : r = q
    OBVIOUS
  <2> HIDE DEF q
  <2>5. request'["api"] = r /\ request'["panel"] = request["panel"] /\ request' \in [{"panel", "api"} -> {None} \cup Saving]
    BY <1>type, <2>1, <2>2, <2>4
  <2>6. {"panel", "key"} \cap overtaken' = {"panel", "key"} \cap overtaken
    BY <2>1
  <2>7. FormMirrors' /\ RequestMirrors'
    BY <1>inv, <2>1, <2>3, <2>4, <2>5, <2>6 DEF FormMirrors, FormFits, RequestMirrors, RequestFits, Readable, Mirrors
  <2>8. CredentialsType' /\ BlobsWork'
    BY <1>inv, <2>1, <2>3, <2>4, <2>5 DEF CredentialsType, BlobsWork, Works, Forms, Saving, Dtos
  <2> QED
    BY <2>7, <2>8 DEF CredentialsInv
<1>find. ASSUME NEW c \in {"panel", "api"}, C!FindAccount(c) PROVE CredentialsInv'
  <2>1. /\ request[c] # None /\ ~request[c].new /\ request' = [request EXCEPT ![c].read = TRUE, ![c].existing = blob]
        /\ UNCHANGED <<kind, blob, form, overtaken>>
    BY <1>find DEF C!FindAccount
  <2>2. PICK r : r = [request[c] EXCEPT !.read = TRUE, !.existing = blob]
    OBVIOUS
  <2>3. request[c] \in Saving
    BY <1>reqs, <2>1
  <2>4. /\ r \in Saving /\ r.dto = request[c].dto /\ r.typed = request[c].typed /\ r.shown = request[c].shown
        /\ ~r.new /\ r.existing = blob
    BY <1>type, <2>1, <2>2, <2>3 DEF Saving
  <2>5. /\ request'[c] = r /\ \A d \in {"panel", "api"} \ {c} : request'[d] = request[d]
        /\ request' \in [{"panel", "api"} -> {None} \cup Saving]
    BY <1>type, <2>1, <2>2, <2>4
  <2>6. FormMirrors'
    BY <1>inv, <2>1 DEF FormMirrors, FormFits, Readable, Mirrors
  <2>7. RequestMirrors'
    <3>1. CASE c = "panel"
      BY <1>inv, <2>1, <2>4, <2>5, <3>1 DEF RequestMirrors, RequestFits, Readable, Mirrors
    <3>2. CASE c = "api"
      BY <1>inv, <2>1, <2>4, <2>5, <3>2 DEF RequestMirrors, RequestFits, Readable, Mirrors
    <3> QED
      BY <3>1, <3>2
  <2>8. form = None \/ request'["panel"] = None
    BY <1>inv, <2>1, <2>5 DEF CredentialsType
  <2>9. \A d \in {"panel", "api"} : request'[d] # None =>
            /\ request'[d].new => ~request'[d].read
            /\ request'[d].existing \in {Absent, None} \/ Works(request'[d].existing)
    BY <1>type, <1>reqs, <2>4, <2>5
  <2> QED
    BY <1>server, <1>type, <2>1, <2>5, <2>6, <2>7, <2>8, <2>9
<1>create. CASE C!Create
  <2> DEFINE built == C!Built(kind, request["panel"].dto, None)
  <2>1. /\ request["panel"] # None /\ blob' = (IF built.ok THEN built.blob ELSE blob)
        /\ request' = [request EXCEPT !["panel"] = None] /\ UNCHANGED <<kind, form, overtaken>>
    BY <1>create DEF C!Create
  <2>2. request["panel"] \in Saving /\ form = None
    BY <1>inv, <1>reqs, <2>1 DEF CredentialsType
  <2>3. blob' \in {Absent, None} \cup Blobs(kind) /\ (blob' \in {Absent, None} \/ Works(blob'))
    <3>1. CASE ~built.ok
      BY <1>type, <2>1, <3>1
    <3>2. CASE built.ok /\ (kind = "manual" \/ DOMAIN request["panel"].dto = {})
      BY <2>1, <3>2 DEF C!Built
    <3>3. CASE built.ok /\ kind # "manual" /\ DOMAIN request["panel"].dto # {}
      <4>1. built.blob \in Blobs(kind) /\ Works(built.blob)
        BY <2>2, <3>3, BuiltWorks DEF Saving
      <4> QED
        BY <2>1, <3>3, <4>1
    <3> QED
      BY <3>1, <3>2, <3>3
  <2>4. request'["panel"] = None /\ request'["api"] = request["api"] /\ request' \in [{"panel", "api"} -> {None} \cup Saving]
    BY <1>type, <2>1
  <2>5. FormMirrors' /\ RequestMirrors'
    BY <1>inv, <2>1, <2>2, <2>4 DEF FormMirrors, RequestMirrors
  <2>6. \A d \in {"panel", "api"} : request'[d] # None =>
            /\ request'[d].new => ~request'[d].read
            /\ request'[d].existing \in {Absent, None} \/ Works(request'[d].existing)
    BY <1>reqs, <2>4
  <2> QED
    BY <1>server, <2>1, <2>2, <2>3, <2>4, <2>5, <2>6
<1>update. ASSUME NEW c \in {"panel", "api"}, C!Update(c) PROVE CredentialsInv'
  <2>1. request[c] # None /\ request' = [request EXCEPT ![c] = None] /\ UNCHANGED <<kind, form>>
    BY <1>update DEF C!Update
  <2>2. \/ blob' = blob /\ overtaken' = overtaken
        \/ blob' \in Blobs(kind) /\ Works(blob') /\ overtaken' = overtaken \cup C!Others(c)
    BY <1>inv, <1>update, WrittenWorks
  <2>3. /\ request'[c] = None /\ \A d \in {"panel", "api"} \ {c} : request'[d] = request[d]
        /\ request' \in [{"panel", "api"} -> {None} \cup Saving]
    BY <1>type, <2>1
  \* The other client's open edit is passed by.
  <2>4. form # None \/ request'["panel"] # None =>
            (blob' = blob /\ overtaken' = overtaken) \/ "panel" \in overtaken'
    BY <1>inv, <2>1, <2>2, <2>3 DEF C!Others, CredentialsType
  <2>5. FormMirrors'
    BY <1>inv, <2>1, <2>4 DEF FormMirrors, FormFits, Readable, Mirrors
  <2>6. RequestMirrors'
    BY <1>inv, <2>1, <2>3, <2>4 DEF RequestMirrors, RequestFits, Readable, Mirrors
  <2>7. form = None \/ request'["panel"] = None
    BY <1>inv, <2>3 DEF CredentialsType
  <2>8. \A d \in {"panel", "api"} : request'[d] # None =>
            /\ request'[d].new => ~request'[d].read
            /\ request'[d].existing \in {Absent, None} \/ Works(request'[d].existing)
    BY <1>reqs, <2>3
  <2> QED
    BY <1>server, <1>type, <2>1, <2>2, <2>3, <2>5, <2>6, <2>7, <2>8
<1>rotate. CASE C!Rotate
  <2>1. /\ blob \in Blobs(kind) /\ Works(blob) /\ blob' = [blob EXCEPT !.readable = FALSE] /\ UNCHANGED <<kind, form>>
        /\ request' = [c \in {"panel", "api"} |-> None] /\ "key" \in overtaken'
    BY <1>rotate, <1>type DEF C!Rotate
  <2>2. blob' \in Blobs(kind) /\ blob'.has = blob.has
    BY <2>1 DEF Blobs
  <2>3. Works(blob')
    BY <2>1, <2>2 DEF Works
  <2>4. FormMirrors'
    BY <1>inv, <2>1 DEF FormMirrors, FormFits
  <2>5. RequestMirrors'
    BY <2>1 DEF RequestMirrors
  <2> QED
    BY <1>server, <2>1, <2>2, <2>3, <2>4, <2>5
<1>stutter. CASE UNCHANGED C!vars
  BY <1>inv, <1>stutter DEF C!vars, CredentialsInv, CredentialsType, BlobsWork, FormMirrors, RequestMirrors, FormFits,
     RequestFits, Readable, Mirrors, Works, Forms, Saving, Dtos
<1> QED
  BY <1>open, <1>close, <1>flags, <1>look, <1>typed, <1>hide, <1>reveal, <1>submit, <1>patch, <1>find, <1>create,
     <1>update, <1>rotate, <1>stutter DEF C!Next, C!Fields

\* Credentials: whatever partial edits, reveals, concurrent clients and rotations of
\* the key came before, stored credentials that can be read have all that the
\* connector of the kind needs, and the form's flags agree with what a reveal
\* returns - for every kind, the ones that no table names included.
THEOREM CredentialsTheorem == C!Spec => []StoredCredentialsWork
<1>1. CredentialsInv => StoredCredentialsWork
  <2> SUFFICES ASSUME CredentialsInv, blob \notin {Absent, None}, blob.readable
               PROVE  C!StoredCredentialsWork
    BY DEF StoredCredentialsWork, C!StoredCredentialsWork
  <2> DEFINE D == C!Decode(kind, blob)
  <2>1. Works(blob) /\ blob \in Blobs(kind)
    BY DEF CredentialsInv, CredentialsType, BlobsWork
  <2>2. \A x \in C!Needs(kind) : D[x] # C!Blank
    BY <2>1, DecodeIs, NeedsAreKeys DEF Works
  <2>3. kind # "manual" /\ (kind \in {"vdsina", "aeza"} => blob.has["baseUrl"] # "bad")
    BY <2>1 DEF Works
  <2>4. TablesFit(kind)
    BY <2>3, TablesAgree
  <2> HIDE DEF D
  <2>5. C!SecretPresence(kind, blob) = {f \in DOMAIN C!Flags(kind) : \A x \in C!Flags(kind)[f] : D[x] # C!Blank}
    BY <2>3 DEF C!SecretPresence, D
  <2>6. DOMAIN C!Revealed(kind, blob) = {f \in DOMAIN C!Reveals(kind) : \A x \in C!Reveals(kind)[f] : D[x] # C!Blank}
    BY <2>3 DEF C!Revealed, D
  <2>7. C!SecretPresence(kind, blob) = DOMAIN C!Revealed(kind, blob)
    <3>1. CASE C!Flags(kind) = C!Reveals(kind)
      BY <2>5, <2>6, <3>1
    <3>2. CASE C!Flags(kind) = [token |-> {}] /\ C!Reveals(kind) = [token |-> {"token"}] /\ C!Needs(kind) = {"token"}
      BY <2>2, <2>5, <2>6, <3>2
    <3> QED
      BY <2>4, <3>1, <3>2 DEF TablesFit
  <2>8. /\ C!SecretPresence(kind, blob) \subseteq C!Asks(kind)
        /\ C!Hints(kind) \cup (C!Asks(kind) \cap C!Secrets) = C!Asks(kind)
    BY <2>4, <2>5 DEF TablesFit
  <2> QED
    BY <2>2, <2>3, <2>7, <2>8 DEF C!StoredCredentialsWork, D
<1> QED
  BY <1>1, CredentialsInit, CredentialsStep, PTL DEF C!Spec

\* What a save leaves alone.
Kept(c) ==
    /\ request[c] # None /\ request[c].read /\ request'[c] = None
    /\ blob \notin {Absent, None} /\ blob.readable /\ blob'.readable
    /\ request[c].existing = blob /\ "key" \notin overtaken
    => \A f \in C!Asks(kind) \ request[c].typed : \A x \in C!StoredAs(kind, f) :
        ~(c \in overtaken /\ f \in request[c].shown) => C!Decode(kind, blob')[x] = C!Decode(kind, blob)[x]

LEMMA UpdateKeeps ==
    ASSUME CredentialsInv, NEW c \in C!Clients, C!Update(c), blob \notin {Absent, None}, blob.readable,
           request[c].existing = blob, "key" \notin overtaken,
           NEW f \in C!Asks(kind) \ request[c].typed, NEW x \in C!StoredAs(kind, f),
           ~(c \in overtaken /\ f \in request[c].shown)
    PROVE  C!Decode(kind, blob')[x] = C!Decode(kind, blob)[x]
<1> DEFINE dto == request[c].dto
           has == C!Merged(kind, dto, blob)
<1>1. /\ CredentialsType /\ BlobsWork /\ RequestMirrors /\ kind \in Kinds
      /\ request[c] # None /\ request[c] \in Saving /\ blob \in Blobs(kind)
  BY DEF CredentialsInv, CredentialsType, C!Update
<1>2. CASE blob' = blob
  BY <1>2
<1>3. CASE /\ blob' \in Blobs(kind) /\ blob' = C!Built(kind, dto, blob).blob
           /\ kind # "manual" /\ DOMAIN dto # {} /\ C!Built(kind, dto, blob).ok
  <2>1. dto \in Dtos /\ Works(blob) /\ x \in C!Keys(kind)
    BY <1>1, PlacesAgree DEF Saving, BlobsWork, PlacesFit
  <2>2. /\ blob'.readable
        /\ \A y \in C!Keys(kind) : \/ blob'.has[y] = has[y]
                                   \/ y = "useCatalogNames" /\ kind = "openrouter" /\ has[y] = C!Blank
    BY <1>1, <1>3, <2>1, BuiltWorks
  <2>3. has[x] = IF f \in DOMAIN dto THEN dto[f] ELSE C!Decode(kind, blob)[x]
    BY <1>1, <2>1, MergedIs
  <2>4. f \in DOMAIN dto => dto[f] = C!Decode(kind, blob)[x]
    <3> SUFFICES ASSUME f \in DOMAIN dto PROVE dto[f] = C!Decode(kind, blob)[x]
      OBVIOUS
    <3>1. c = "panel"
      BY <1>1 DEF RequestMirrors, C!Clients
    <3>2. f \in request[c].shown /\ (Readable /\ {"panel", "key"} \cap overtaken = {} => Mirrors(f, dto[f]))
      BY <1>1, <3>1 DEF RequestMirrors, RequestFits
    <3>3. {"panel", "key"} \cap overtaken = {}
      BY <3>1, <3>2
    <3> QED
      BY <3>2, <3>3 DEF Readable, Mirrors
  <2>5. has[x] = C!Decode(kind, blob)[x]
    BY <2>3, <2>4
  <2>6. blob' \notin {Absent, None}
    BY <1>1, <1>3, AbsentAssumption
  <2>7. PICK b : b = blob'
    OBVIOUS
  <2>8. kind = "openrouter" => C!Decode(kind, blob)["useCatalogNames"] # C!Blank
    BY <1>1, DecodeIs
  <2>9. b.has[x] = C!Decode(kind, blob)[x] /\ b.readable /\ b \in Blobs(kind) /\ b \notin {Absent, None}
    BY <1>3, <2>1, <2>2, <2>5, <2>6, <2>7, <2>8
  <2>10. C!Decode(kind, b) = IF kind = "openrouter" /\ b.has["useCatalogNames"] = C!Blank
                             THEN [b.has EXCEPT !["useCatalogNames"] = "yes"] ELSE b.has
    BY <2>9 DEF C!Decode
  <2>11. b.has \in [C!Keys(kind) -> Values]
    BY <2>9 DEF Blobs
  <2>12. C!Decode(kind, b)[x] = b.has[x]
    <3>1. CASE x = "useCatalogNames" /\ kind = "openrouter"
      BY <2>8, <2>9, <2>10, <3>1
    <3>2. CASE ~(x = "useCatalogNames" /\ kind = "openrouter")
      BY <2>1, <2>10, <2>11, <3>2
    <3> QED
      BY <3>1, <3>2
  <2> QED
    BY <2>7, <2>9, <2>12
<1> QED
  BY <1>1, <1>2, <1>3, WrittenWorks

\* Credentials: a save keeps what its author did not enter, through reveals, hidings
\* and refetched flags in the form, refused and concurrent saves, and new keys; only
\* a field the form showed may go back, when another write has passed the edit by.
THEOREM EditTheorem == C!Spec => EditKeepsRestUnlessOvertaken
<1>1. CredentialsInv /\ [C!Next]_(C!vars) => [\A c \in C!Clients : Kept(c)]_(C!vars)
  <2> SUFFICES ASSUME CredentialsInv, C!Next, NEW c \in C!Clients, request[c] # None, request[c].read, request'[c] = None,
                      blob \notin {Absent, None}, blob.readable, blob'.readable, request[c].existing = blob,
                      "key" \notin overtaken, NEW f \in C!Asks(kind) \ request[c].typed, NEW x \in C!StoredAs(kind, f),
                      ~(c \in overtaken /\ f \in request[c].shown)
               PROVE  C!Decode(kind, blob')[x] = C!Decode(kind, blob)[x]
    BY DEF Kept
  <2> USE DEF C!Clients
  <2>0. CredentialsType /\ request \in [{"panel", "api"} -> {None} \cup Saving]
    BY DEF CredentialsInv, CredentialsType
  <2>1. CASE UNCHANGED request
    BY <2>1
  <2>2. CASE UNCHANGED blob
    BY <2>2
  <2>3. CASE C!Create
    <3>1. request["panel"].new /\ request["panel"] # None /\ request' = [request EXCEPT !["panel"] = None]
      BY <2>3 DEF C!Create
    <3>2. ~request["panel"].read
      BY <2>0, <3>1 DEF CredentialsType
    <3> QED
      BY <2>0, <3>1, <3>2
  <2>4. CASE C!Rotate
    <3>1. blob \in Blobs(kind) /\ blob' = [blob EXCEPT !.readable = FALSE]
      BY <2>0, <2>4 DEF C!Rotate, CredentialsType
    <3>2. blob'.readable = FALSE
      BY <3>1 DEF Blobs
    <3> QED
      BY <3>2
  <2>5. ASSUME NEW d \in C!Clients, C!Update(d) PROVE C!Decode(kind, blob')[x] = C!Decode(kind, blob)[x]
    <3>1. request' = [request EXCEPT ![d] = None]
      BY <2>5 DEF C!Update
    <3>2. c = d
      BY <2>0, <3>1
    <3> QED
      BY <2>5, <3>2, UpdateKeeps
  <2>6. C!OpenForm \/ C!CloseForm \/ C!FlagsRefetched \/ C!Submit => UNCHANGED blob
    BY DEF C!OpenForm, C!CloseForm, C!FlagsRefetched, C!Submit
  <2>7. ASSUME NEW g, NEW v, NEW ok, C!Look(g) \/ C!Hide(g) \/ C!Reveal(g, ok) \/ C!TypeInto(g, v) \/ C!Patch(g, v)
        PROVE  UNCHANGED blob
    BY <2>7 DEF C!Look, C!Hide, C!Reveal, C!TypeInto, C!Patch
  <2>8. ASSUME NEW d \in C!Clients, C!FindAccount(d) PROVE UNCHANGED blob
    BY <2>8 DEF C!FindAccount
  <2> QED
    BY <2>2, <2>3, <2>4, <2>5, <2>6, <2>7, <2>8 DEF C!Next
<1>2. EditKeepsRestUnlessOvertaken <=> [][\A c \in C!Clients : Kept(c)]_(C!vars)
  BY DEF EditKeepsRestUnlessOvertaken, C!EditKeepsRestUnlessOvertaken, Kept
<1> QED
  BY <1>1, <1>2, CredentialsInit, CredentialsStep, PTL DEF C!Spec
=============================================================================
