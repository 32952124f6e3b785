----------------------------- MODULE OwnerView -----------------------------
(***************************************************************************)
(* What the owner sees and sets: the pages and their cached queries        *)
(* (Panel), the credentials of an account and their form (Credentials), the*)
(* icons (Favicons) and the cadence of the automatic sync (AutoSync), side *)
(* by side.  They share no variable.                                       *)
(***************************************************************************)
EXTENDS Panel

CONSTANTS Kinds, MaxWrites, MaxTyped, Absent,
          Entities, MaxEdits, MAX_ENTRIES,
          Accounts, Hours, MaxTimer, Rounds, Saves

VARIABLES kind, blob, form, request, overtaken, writes,
          link, editing, cache, pending, late,
          hours, interval, due, shown, save, raced, round, enabled

\* Intervals are hours; the icon cache holds at least one.
ASSUME HoursAssumption   == Hours \subseteq Nat /\ MaxTimer \in Nat
ASSUME EntriesAssumption == MAX_ENTRIES \in Nat \ {0} /\ MaxEdits \in Nat
\* NULL is no interval and no mutation.
ASSUME NullAssumption    == None \notin Hours /\ None \notin [of : Mutations, committed : BOOLEAN, version : Nat]

C == INSTANCE Credentials
F == INSTANCE Favicons WITH overtaken <- late
A == INSTANCE AutoSync

\* What is not there, and an account without credentials, are no credentials.
Values == {C!Blank, "old", "panel", "api", "bad", "yes", "no"}
Blobs(k) == [bare : BOOLEAN, readable : BOOLEAN, has : [C!Keys(k) -> Values]]
ASSUME AbsentAssumption == \A k \in Kinds : Absent \notin Blobs(k) /\ None \notin Blobs(k)

cVars == <<kind, blob, form, request, overtaken, writes>>
fVars == <<link, editing, cache, pending, late>>
aVars == <<hours, interval, due, shown, save, raced, round, enabled>>

\* The properties of the instances, under their own names.  Credentials: a save
\* keeps what its author did not enter, and what is stored works.
EditKeepsRestUnlessOvertaken == C!EditKeepsRestUnlessOvertaken
StoredCredentialsWork == C!StoredCredentialsWork
\* Favicons: a cached icon is that of the links there are now.
IconIsCurrentUnlessOvertaken == F!IconIsCurrentUnlessOvertaken
\* AutoSync: the timer runs at the stored cadence, and the panel shows when.
CadenceUnlessRaced == A!CadenceUnlessRaced
=============================================================================
