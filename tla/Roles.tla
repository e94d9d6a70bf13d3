--------------------------------- MODULE Roles ---------------------------------
(***************************************************************************)
(* Roles: what menus a role has (role_resource), what roles a user has     *)
(* (user_role), the page on which an administrator checks the menus of a   *)
(* role one by one, and the authorisations that SSORealm computes from the *)
(* tables and a cache keeps.  Boxes are drawn from an answer that may be   *)
(* late; each click sends a request of its own; a request writes, and then *)
(* empties the cache key by key, while other threads compute and put.      *)
(***************************************************************************)
EXTENDS Integers, FiniteSets

CONSTANTS
  Users, Groups,  \* users and roles
  Menus,          \* child menus, the leaves of the tree of a role; none is deleted here
  FirstGranted,   \* the menus each role starts with
  FirstHeld,      \* the roles each user starts with
  None,
  Loaders,        \* threads that compute an authorisation
  Calls           \* bound: requests of pages under way

ConstantsOK == /\ FirstGranted \in [Groups -> SUBSET Menus]
               /\ FirstHeld \in [Users -> SUBSET Groups]
               /\ None \notin Users \cup Groups

VARIABLES
  granted,   \* role_resource
  held,      \* user_role
  tree,      \* the tree of the page: its role, the menus that are checked
  calls,     \* requests under way, of this page and of another one
  cache,     \* authorizationCache: the menus of a user, "none" without an entry
  loads,     \* where each thread is in doGetAuthorizationInfo
  \* History:
  given,     \* what a role has had, or was to be given
  overtaken, \* threads that read while the tables changed
  outdated   \* users whose entry was put by such a thread, or whose roles changed

roleVars == <<granted, held, tree, calls, cache, loads, given, overtaken, outdated>>

NoTree == [role |-> None, checked |-> {}]
NoCall == [kind |-> "none"]
Call(kind, role, boxes) == [kind |-> kind, role |-> role, at |-> "asked", boxes |-> boxes, keys |-> {}]
NoLoad == [user |-> None]
NoEntry == [at |-> "none"]
Entry(S) == [at |-> "cached", menus |-> S]

Init ==
  /\ granted = FirstGranted
  /\ held = FirstHeld
  /\ tree = NoTree
  /\ calls = [c \in Calls |-> NoCall]
  /\ cache = [u \in Users |-> NoEntry]
  /\ loads = [l \in Loaders |-> NoLoad]
  /\ given = FirstGranted
  /\ overtaken = {} /\ outdated = {}

Ask(call) == \E c \in Calls : calls[c] = NoCall /\ calls' = [calls EXCEPT ![c] = call]
At(c, kind, label) == calls[c] # NoCall /\ calls[c].kind \in kind /\ calls[c].at = label
Changes == {"insert", "delete"}

tables == <<granted, held>>
authorisations == <<cache, loads, overtaken, outdated>>
-----------------------------------------------------------------------------
\* The page.

OpenRole(r) == Ask(Call("tree", r, {})) /\ UNCHANGED <<tables, tree, authorisations, given>>

\* getRoleTree.
ReadTree(c) ==
  /\ At(c, {"tree"}, "asked")
  /\ calls' = [calls EXCEPT ![c].at = "answered", ![c].boxes = granted[calls[c].role]]
  /\ UNCHANGED <<tables, tree, authorisations, given>>

\* Mutant: a tree that is drawn again keeps its first callbacks.
BoundOnce(role) == IF tree.role = None THEN role ELSE tree.role
\* The callbacks of the boxes, which hold the role of the click.
Bound(role) == role

DrawTree(c) ==
  /\ At(c, {"tree"}, "answered")
  /\ tree' = [role |-> Bound(calls[c].role), checked |-> calls[c].boxes]
  /\ calls' = [calls EXCEPT ![c] = NoCall]
  /\ UNCHANGED <<tables, authorisations, given>>

\* onNodeChecked and onNodeUnchecked.
CheckBox(m) ==
  /\ tree.role # None /\ m \notin tree.checked
  /\ tree' = [tree EXCEPT !.checked = @ \cup {m}]
  /\ Ask(Call("insert", tree.role, {m}))
  /\ given' = [given EXCEPT ![tree.role] = @ \cup {m}]
  /\ UNCHANGED <<tables, authorisations>>

UncheckBox(m) ==
  /\ m \in tree.checked
  /\ tree' = [tree EXCEPT !.checked = @ \ {m}]
  /\ Ask(Call("delete", tree.role, {m}))
  /\ UNCHANGED <<tables, authorisations, given>>

\* A request that never gets to a statement, or an answer that is lost.
LoseCall(c) ==
  /\ calls[c] # NoCall /\ (calls[c].kind = "tree" \/ calls[c].at = "asked")
  /\ calls' = [calls EXCEPT ![c] = NoCall]
  /\ UNCHANGED <<tables, tree, authorisations, given>>

ReloadPage ==
  /\ tree' = NoTree
  /\ calls' = [c \in Calls |-> IF calls[c] # NoCall /\ calls[c].kind = "tree" THEN NoCall ELSE calls[c]]
  /\ UNCHANGED <<tables, authorisations, given>>

\* An administrator at another page, which is up to date.
OthersChange(r, m) ==
  /\ Ask(Call(IF m \in granted[r] THEN "delete" ELSE "insert", r, {m}))
  /\ given' = IF m \in granted[r] THEN given ELSE [given EXCEPT ![r] = @ \cup {m}]
  /\ UNCHANGED <<tables, tree, authorisations>>

Loading(u) == {l \in Loaders : loads[l] # NoLoad /\ loads[l].user = u}

\* The roles of a user, at the page of the users: the cache is left alone.
TransformUserRole(u, r) ==
  /\ held' = [held EXCEPT ![u] = IF r \in @ THEN @ \ {r} ELSE @ \cup {r}]
  /\ overtaken' = overtaken \cup Loading(u)
  /\ outdated' = IF cache[u] = NoEntry THEN outdated ELSE outdated \cup {u}
  /\ UNCHANGED <<granted, tree, calls, cache, loads, given>>
-----------------------------------------------------------------------------
\* transformRoleResource.

\* Mutant: only what adds empties the cache.
ClearsInsert(kind, rows) == kind = "insert"
Clears(kind, rows) == kind = "insert" \/ rows # {}

\* The statement.  role_resource has no unique key: an insert always adds a row.
Change(c) ==
  /\ At(c, Changes, "asked")
  /\ LET r == calls[c].role
         rows == calls[c].boxes \cap granted[r]
     IN /\ granted' = [granted EXCEPT
             ![r] = IF calls[c].kind = "insert" THEN @ \cup calls[c].boxes ELSE @ \ calls[c].boxes]
        /\ calls' = [calls EXCEPT ![c] =
             IF Clears(calls[c].kind, rows) THEN [@ EXCEPT !.at = "clear"] ELSE NoCall]
        /\ overtaken' = IF granted'[r] = granted[r] THEN overtaken
                        ELSE {l \in Loaders : loads[l] # NoLoad}
  /\ UNCHANGED <<held, tree, cache, loads, given, outdated>>

\* clearAllCached: the keys, and then one key after the other.
ListKeys(c) ==
  /\ At(c, Changes, "clear")
  /\ calls' = [calls EXCEPT ![c].at = "clearing", ![c].keys = {u \in Users : cache[u] # NoEntry}]
  /\ UNCHANGED <<tables, tree, authorisations, given>>

ClearKey(c, u) ==
  /\ At(c, Changes, "clearing")
  /\ u \in calls[c].keys
  /\ cache' = [cache EXCEPT ![u] = NoEntry]
  /\ outdated' = outdated \ {u}
  /\ calls' = [calls EXCEPT ![c].keys = @ \ {u}]
  /\ UNCHANGED <<tables, tree, loads, given, overtaken>>

Respond(c) ==
  /\ At(c, Changes, "clearing") /\ calls[c].keys = {}
  /\ calls' = [calls EXCEPT ![c] = NoCall]
  /\ UNCHANGED <<tables, tree, authorisations, given>>
-----------------------------------------------------------------------------
\* SSORealm: a request of a user whose authorisation is not in the cache.

\* getUserResources: the roles, then the menus of one role after the other.
LoadRoles(l, u) ==
  /\ loads[l] = NoLoad /\ cache[u] = NoEntry
  /\ loads' = [loads EXCEPT ![l] = [user |-> u, roles |-> held[u], menus |-> {}]]
  /\ UNCHANGED <<tables, tree, calls, cache, given, overtaken, outdated>>

LoadMenus(l, r) ==
  /\ loads[l] # NoLoad
  /\ r \in loads[l].roles
  /\ loads' = [loads EXCEPT ![l].roles = @ \ {r}, ![l].menus = @ \cup granted[r]]
  /\ UNCHANGED <<tables, tree, calls, cache, given, overtaken, outdated>>

Put(l) ==
  /\ loads[l] # NoLoad /\ loads[l].roles = {}
  /\ LET u == loads[l].user
     IN /\ cache' = [cache EXCEPT ![u] = Entry(loads[l].menus)]
        /\ outdated' = IF l \in overtaken THEN outdated \cup {u} ELSE outdated \ {u}
  /\ loads' = [loads EXCEPT ![l] = NoLoad]
  /\ overtaken' = overtaken \ {l}
  /\ UNCHANGED <<tables, tree, calls, given>>

\* timeToIdleSeconds, or a sign-out.
Expire(u) ==
  /\ cache[u] # NoEntry
  /\ cache' = [cache EXCEPT ![u] = NoEntry]
  /\ outdated' = outdated \ {u}
  /\ UNCHANGED <<tables, tree, calls, loads, given, overtaken>>

Next ==
  \/ ReloadPage
  \/ \E c \in Calls : \/ ReadTree(c) \/ DrawTree(c) \/ LoseCall(c)
                      \/ Change(c) \/ ListKeys(c) \/ Respond(c)
                      \/ \E u \in Users : ClearKey(c, u)
  \/ \E m \in Menus : CheckBox(m) \/ UncheckBox(m)
  \/ \E r \in Groups : OpenRole(r) \/ \E m \in Menus : OthersChange(r, m)
  \/ \E u \in Users : Expire(u) \/ \E r \in Groups : TransformUserRole(u, r)
  \/ \E l \in Loaders : \/ Put(l)
                        \/ \E u \in Users : LoadRoles(l, u)
                        \/ \E r \in Groups : LoadMenus(l, r)

Spec == Init /\ [][Next]_roleVars
-----------------------------------------------------------------------------
\* Every variable has its type.
TypeOK ==
  /\ granted \in [Groups -> SUBSET Menus]
  /\ held \in [Users -> SUBSET Groups]
  /\ tree \in [role : Groups \cup {None}, checked : SUBSET Menus]
  /\ calls \in [Calls -> {NoCall} \cup
       [kind : {"tree", "insert", "delete"}, role : Groups, boxes : SUBSET Menus,
        at : {"asked", "answered", "clear", "clearing"}, keys : SUBSET Users]]
  /\ cache \in [Users -> {NoEntry} \cup [at : {"cached"}, menus : SUBSET Menus]]
  /\ loads \in [Loaders -> {NoLoad} \cup
       [user : Users, roles : SUBSET Groups, menus : SUBSET Menus]]
  /\ given \in [Groups -> SUBSET Menus]
  /\ overtaken \subseteq Loaders
  /\ outdated \subseteq Users

\* The page asks to take a menu from a role only if that role has had it, or was to
\* get it: whatever the order of the answers, a box belongs to the role it was drawn
\* for, even after a click on another one.
TakesWhatWasGiven ==
  \A c \in Calls : At(c, {"delete"}, "asked") => calls[c].boxes \subseteq given[calls[c].role]

\* The cache agrees with the tables once no request has still to empty it, but for a
\* user whose roles have changed since, which empties nothing, and for an entry put
\* by a thread that had begun to read before a change.
Allowed(u) == UNION {granted[r] : r \in held[u]}
ToBeCleared(u) ==
  \E c \in Calls : At(c, Changes, "clear") \/ (At(c, Changes, "clearing") /\ u \in calls[c].keys)
CacheIsCurrent ==
  \A u \in Users \ outdated :
    cache[u] = NoEntry \/ ToBeCleared(u) \/ cache[u].menus = Allowed(u)
=============================================================================
