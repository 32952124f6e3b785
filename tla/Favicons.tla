------------------------------ MODULE Favicons ------------------------------
(***************************************************************************)
(* The icon proxy (favicons/): icons cached in memory per provider or      *)
(* project, loads shared by everybody who asks meanwhile, and the edits    *)
(* that write a new link and then drop the cached icon.                    *)
(***************************************************************************)
EXTENDS Naturals, Sequences

CONSTANTS
    Entities,      \* providers and projects
    MaxEdits,      \* bound: edits of one entity's links
    MAX_ENTRIES    \* icons kept


VARIABLES
    link,     \* per entity, how often its links were edited; Gone once removed
    editing,  \* entities whose row is written and whose icon is not dropped yet
    cache,    \* oldest first: whose icon, of which links, found or not
    pending,  \* loads under way: Nothing, "reads", or the links they read
    overtaken \* entities whose icon was dropped while a load had older links

vars == <<link, editing, cache, pending, overtaken>>

Gone    == MaxEdits + 1
Nothing == "nothing"
Cached(e)  == \E i \in DOMAIN cache : cache[i].of = e /\ cache[i].fresh
\* The Map without the entry of e: the later ones move up.
Without(e) ==
    IF \A i \in DOMAIN cache : cache[i].of # e THEN cache
    ELSE LET i == CHOOSE j \in DOMAIN cache : cache[j].of = e
         IN  [j \in 1..(Len(cache) - 1) |-> IF j < i THEN cache[j] ELSE cache[j + 1]]

Init ==
    /\ link = [e \in Entities |-> 0]
    /\ editing = {}
    /\ cache = <<>>
    /\ pending = [e \in Entities |-> [at |-> Nothing]]
    /\ overtaken = {}

\* resolve: a cached icon or a load under way answers; else a load begins.
Resolve(e) ==
    /\ ~Cached(e) /\ pending[e].at = Nothing
    /\ pending' = [pending EXCEPT ![e] = [at |-> "reads"]]
    /\ UNCHANGED <<link, editing, cache, overtaken>>

\* load: the entity's row; an unknown one is not cached.
LoadSource(e) ==
    /\ pending[e].at = "reads"
    /\ pending' = [pending EXCEPT ![e] = IF link[e] = Gone THEN [at |-> Nothing]
                                         ELSE [at |-> "fetches", links |-> link[e]]]
    /\ UNCHANGED <<link, editing, cache, overtaken>>

\* store: the oldest entries make room.
Evict(c) == IF Len(c) < MAX_ENTRIES THEN c ELSE SubSeq(c, Len(c) - MAX_ENTRIES + 2, Len(c))
Stored(entry) == Append(Evict(Without(entry.of)), entry)

\* The first candidate that yields an image is kept for a day, no image for an hour.
Fetched(e) ==
    /\ pending[e].at = "fetches"
    /\ \E found \in BOOLEAN : cache' = Stored([of |-> e, links |-> pending[e].links, found |-> found, fresh |-> TRUE])
    /\ pending' = [pending EXCEPT ![e] = [at |-> Nothing]]
    /\ overtaken' = IF pending[e].links = link[e] THEN overtaken \ {e} ELSE overtaken
    /\ UNCHANGED <<link, editing>>

\* An entry's time is over: the next request loads again; it keeps its place until then.
Expire(e) ==
    /\ Cached(e)
    /\ cache' = [i \in DOMAIN cache |-> IF cache[i].of = e THEN [cache[i] EXCEPT !.fresh = FALSE] ELSE cache[i]]
    /\ UNCHANGED <<link, editing, pending, overtaken>>

\* ProvidersService.update, .merge and .remove, ProjectsService.update and
\* .remove, and a sync that found another icon: first the row is written ...
Write(e, version) ==
    /\ link[e] # Gone /\ e \notin editing
    /\ link' = [link EXCEPT ![e] = version]
    /\ editing' = editing \cup {e}
    /\ UNCHANGED <<cache, pending, overtaken>>
Edit(e)   == link[e] < MaxEdits /\ Write(e, link[e] + 1)
Delete(e) == Write(e, Gone)

\* Mutant: the icon is not dropped.
DropNothing(e) == cache
\* ... then, when the database has answered, the icon is dropped.
Dropped(e) == Without(e)

Invalidate(e) ==
    /\ e \in editing
    /\ cache' = Dropped(e)
    /\ editing' = editing \ {e}
    /\ overtaken' = IF pending[e].at = "fetches" /\ pending[e].links # link[e]
                    THEN overtaken \cup {e} ELSE overtaken \ {e}
    /\ UNCHANGED <<link, pending>>

Next == \E e \in Entities :
    Resolve(e) \/ LoadSource(e) \/ Fetched(e) \/ Expire(e) \/ Edit(e) \/ Delete(e) \/ Invalidate(e)

Spec == Init /\ [][Next]_vars

----------------------------------------------------------------------------
\* A cached icon, or the cached lack of one, is that of the links the entity has
\* now: an edit is seen as soon as it is answered, also by loads that began
\* before it, unless such a load had read the old links and stores them later.
\* The cache stays within its limit and has one entry per entity.
IconIsCurrentUnlessOvertaken ==
    /\ Len(cache) <= MAX_ENTRIES
    /\ \A i \in DOMAIN cache :
        LET e == cache[i].of
        IN  /\ Cached(e) /\ e \notin editing \cup overtaken => cache[i].links = link[e]
            /\ \A j \in DOMAIN cache : cache[j].of = e => i = j
=============================================================================
