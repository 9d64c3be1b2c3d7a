------------------------------ MODULE TodoCache ------------------------------
(***************************************************************************)
(* How the owner's TODOs are read: through Redis, under keys that carry the *)
(* owner's cache_version as PostgreSQL holds it, beside the commands of    *)
(* TodoCommands.  Every call to PostgreSQL or Redis is an action.          *)
(***************************************************************************)
EXTENDS TodoCommands, FiniteSetsExt

CONSTANTS
  Reader,     \* requests that read, item by item or in a walk over the pages
  PageSize,
  NoVersion   \* no key, or Redis or the owner's row is unavailable

ASSUME CacheAssumption ==
  /\ PageSize \in Nat \ {0}
  /\ NoVersion \notin Nat

VARIABLES
  copy,      \* the version key in Redis
  entries,   \* the items and pages in Redis
  reader     \* the read each reader carries out, and how far it is

cacheVars == <<copy, entries, reader>>
vars == <<commandVars, cacheVars>>

\* What is asked for: one TODO, or the page behind a cursor.
Resource == [kind : {"item"}, at : Todo] \cup [kind : {"page"}, at : 0..MaxTodo]
\* What the database answered, and how far the commands were by then.
Image == [items : SUBSET Todo, more : BOOLEAN, asOf : Nat]
NoImage == [items |-> {}, more |-> FALSE, asOf |-> 0]
Entry == [resource : Resource, version : Nat, image : Image]
Place == {"idle", "resolve", "lookup", "load", "store", "done"}
Read == [at : Place, resource : Resource,
         version : Nat \cup {NoVersion}, \* of the key it will store under
         began : Nat,                    \* when the read began
         image : Image,
         must : SUBSET Todo,             \* live when the walk began
         got : SUBSET Todo]              \* what its earlier pages returned

CacheTypeOK ==
  /\ CommandsTypeOK
  /\ copy \in Nat \cup {NoVersion}
  /\ entries \subseteq Entry
  /\ reader \in [Reader -> Read]

CacheInit ==
  /\ CommandsInit
  /\ copy = cacheVersion /\ entries = {}
  /\ reader = [r \in Reader |->
       [at |-> "idle", resource |-> [kind |-> "page", at |-> 0],
        version |-> NoVersion, began |-> 0,
        image |-> NoImage, must |-> {}, got |-> {}]]

-----------------------------------------------------------------------------
(* The commands *)

\* invalidateOwner reads the version after the commit and sets it some time
\* later; an unavailable Redis is passed over.
Invalidate(c) ==
  /\ command[c].op = "invalidate"
  /\ copy' \in {copy} \cup command[c].from..cacheVersion
  /\ End(c)
  /\ UNCHANGED <<rowVars, lapsed, requests, answers, completed, entries,
                 reader>>

Commands ==
  \/ CommandsNext /\ UNCHANGED cacheVars
  \/ \E c \in Client : Invalidate(c)

-----------------------------------------------------------------------------
(* Reading *)

Ask(r, resource, must, got) ==
  /\ requests < MaxRequests
  /\ requests' = requests + 1
  /\ reader' = [reader EXCEPT ![r] =
       [at |-> "resolve", resource |-> resource, version |-> NoVersion,
        began |-> cacheVersion,
        image |-> NoImage, must |-> must, got |-> got]]
  /\ UNCHANGED <<rowVars, lapsed, command, answers, completed, copy, entries>>

\* A request for one TODO, or for the first page.  Nobody knows the id of a
\* TODO before it is created.
BeginRead(r) ==
  /\ reader[r].at \in {"idle", "done"}
  /\ \/ \E t \in Todo : /\ todo[t].phase # "absent"
                        /\ Ask(r, [kind |-> "item", at |-> t], {}, {})
     \/ Ask(r, [kind |-> "page", at |-> 0], {t \in Todo : Live(t)}, {})

\* The client sends the cursor of the page it was given: its last TODO.
NextPage(r) ==
  /\ reader[r].at = "done" /\ reader[r].image.more
  /\ Ask(r, [kind |-> "page", at |-> Max(reader[r].image.items)],
         reader[r].must, reader[r].got \cup reader[r].image.items)

\* Mutant: the version in Redis is trusted.
ResolveFromRedis(r) ==
  /\ reader[r].at = "resolve"
  /\ reader' = [reader EXCEPT ![r].at = "lookup", ![r].version = copy]
  /\ UNCHANGED <<commandVars, copy, entries>>

\* getCacheVersion: the version in PostgreSQL; without it, or without Redis,
\* the cache is passed by.
Resolve(r) ==
  /\ reader[r].at = "resolve"
  /\ \/ reader' = [reader EXCEPT ![r].at = "lookup",
                                 ![r].version = cacheVersion]
     \/ reader' = [reader EXCEPT ![r].at = "load"]
  /\ UNCHANGED <<commandVars, copy, entries>>

Result(r, image, at) ==
  reader' = [reader EXCEPT ![r].at = at, ![r].image = image]

\* The copy in Redis is set to the version, then the entry is read.  A Redis
\* that fails, or a value that does not parse, is passed by.
Lookup(r) ==
  /\ reader[r].at = "lookup"
  /\ copy' = reader[r].version
  /\ \/ \E e \in entries :
          /\ e.resource = reader[r].resource
          /\ e.version = reader[r].version
          /\ Result(r, e.image, "done")
     \/ /\ \A e \in entries : <<e.resource, e.version>>
                                # <<reader[r].resource, reader[r].version>>
        /\ reader' = [reader EXCEPT ![r].at = "load"]
     \/ reader' = [reader EXCEPT ![r].at = "load", ![r].version = NoVersion]
  /\ UNCHANGED <<commandVars, entries>>

\* The keyset of (created_at, id): the first live TODOs behind the cursor,
\* and whether there is one more.
After(cursor) == {t \in Todo : Live(t) /\ t > cursor}
FirstOf(S, n) == {t \in S : Cardinality({u \in S : u <= t}) <= n}

\* Mutant: the cursor counts the TODOs that were passed.
AnsweredByOffset(resource) ==
  LET passed == Cardinality({t \in Todo : t <= resource.at
                                            /\ todo[t].phase # "absent"})
      all == {t \in Todo : Live(t)}
      items == IF resource.kind = "item"
               THEN {t \in {resource.at} : Live(t)}
               ELSE FirstOf(all \ FirstOf(all, passed), PageSize)
  IN [items |-> items,
      more |-> resource.kind = "page"
                 /\ Cardinality(all) > passed + PageSize,
      asOf |-> cacheVersion]

\* findAccessibleById, listTodos: one snapshot.
Answered(resource) ==
  LET items == IF resource.kind = "item"
               THEN {t \in {resource.at} : Live(t)}
               ELSE FirstOf(After(resource.at), PageSize)
  IN [items |-> items,
      more |-> resource.kind = "page"
                 /\ Cardinality(After(resource.at)) > PageSize,
      asOf |-> cacheVersion]

\* A TODO that is not found is not stored.
Load(r) ==
  /\ reader[r].at = "load"
  /\ LET image == Answered(reader[r].resource)
     IN Result(r, image,
          IF reader[r].version = NoVersion
               \/ (reader[r].resource.kind = "item" /\ image.items = {})
          THEN "done" ELSE "store")
  /\ UNCHANGED <<commandVars, copy, entries>>

Keyed(resource, version) ==
  {e \in entries : e.resource = resource /\ e.version = version}

\* SET with a TTL, or a Redis that fails.
Store(r) ==
  /\ reader[r].at = "store"
  /\ entries' \in {entries,
       (entries \ Keyed(reader[r].resource, reader[r].version)) \cup
         {[resource |-> reader[r].resource, version |-> reader[r].version,
           image |-> reader[r].image]}}
  /\ reader' = [reader EXCEPT ![r].at = "done"]
  /\ UNCHANGED <<commandVars, copy>>

\* The TTL, or a restart of Redis.
Expire ==
  \/ \E e \in entries :
       /\ entries' = entries \ {e}
       /\ UNCHANGED <<commandVars, copy, reader>>
  \/ /\ copy' = NoVersion
     /\ UNCHANGED <<commandVars, entries, reader>>

ReadStep(r) ==
  BeginRead(r) \/ NextPage(r) \/ Resolve(r) \/ Lookup(r) \/ Load(r) \/ Store(r)

CacheNext == Commands \/ Expire \/ \E r \in Reader : ReadStep(r)

Spec == CacheInit /\ [][CacheNext]_vars

-----------------------------------------------------------------------------
(* Properties *)

Answering(r) == reader[r].at \in {"store", "done"}

\* No read is answered with the TODOs as they were before it began, whichever
\* fills and invalidations it overlaps (RedisTodoReadCache, the trigger on
\* todos).
FreshReads ==
  \A r \in Reader : Answering(r) => reader[r].image.asOf >= reader[r].began

\* A walk over the pages returns every TODO that was live throughout, and none
\* twice, although every page is read, or found in the cache, at a time of its
\* own (todoListCursor, listTodos).
WalkComplete ==
  \A r \in Reader : Answering(r) =>
    /\ reader[r].image.items \cap reader[r].got = {}
    /\ ~reader[r].image.more =>
         \A t \in reader[r].must :
           Live(t) => t \in reader[r].image.items \cup reader[r].got
=============================================================================
