------------------------------ MODULE RolesProofs ------------------------------
(***************************************************************************)
(* Proofs for Roles.  Two arguments.  What a page shows of a role, and     *)
(* what it asks for it, is among what the role has been given: nothing is  *)
(* ever taken out of this history, so it holds of late answers as well.    *)
(* And a thread that computes an authorisation, and that no change has     *)
(* overtaken, holds the menus of the roles it has read and will find those *)
(* of the others as they are.                                              *)
(***************************************************************************)
EXTENDS Roles, TLAPS

RoleCall == [kind : {"tree", "insert", "delete"}, role : Groups, boxes : SUBSET Menus,
             at : {"asked", "answered", "clear", "clearing"}, keys : SUBSET Users]
RoleLoad == [user : Users, roles : SUBSET Groups, menus : SUBSET Menus]

CallsInv ==
  /\ calls \in [Calls -> {NoCall} \cup RoleCall]
  /\ \A c \in Calls : calls[c] # NoCall => calls[c].boxes \subseteq given[calls[c].role]
PageInv ==
  /\ given \in [Groups -> SUBSET Menus]
  /\ granted \in [Groups -> SUBSET Menus]
  /\ \A r \in Groups : granted[r] \subseteq given[r]
  /\ tree \in [role : Groups \cup {None}, checked : SUBSET Menus]
  /\ tree.role \in Groups => tree.checked \subseteq given[tree.role]
  /\ tree.role = None => tree.checked = {}

RealmType ==
  /\ held \in [Users -> SUBSET Groups]
  /\ cache \in [Users -> {NoEntry} \cup [at : {"cached"}, menus : SUBSET Menus]]
  /\ loads \in [Loaders -> {NoLoad} \cup RoleLoad]
  /\ overtaken \subseteq Loaders
  /\ outdated \subseteq Users

\* What a thread has read, and what it will find, is what the user is allowed.
HalfRead(l) == loads[l].menus \cup UNION {granted[r] : r \in loads[l].roles}
LoadInv ==
  \A l \in Loaders \ overtaken : loads[l] # NoLoad => HalfRead(l) = Allowed(loads[l].user)

CacheInv == RealmType /\ LoadInv /\ CacheIsCurrent
TInv == CallsInv /\ PageInv /\ CacheInv

\* The tables hold what they start with, and nothing is under way.
LEMMA InitTInv == ASSUME ConstantsOK PROVE Init => TInv
<1>1. Init => CallsInv
  BY DEF Init, CallsInv
<1>2. Init => PageInv
  BY DEF Init, PageInv, NoTree, ConstantsOK
<1>3. Init => CacheInv
  BY DEF Init, CacheInv, RealmType, LoadInv, CacheIsCurrent, ConstantsOK
<1> QED
  BY <1>1, <1>2, <1>3 DEF TInv

\* A request that is emptying the cache, or is about to.
Clearing(c) == At(c, Changes, "clear") \/ At(c, Changes, "clearing")

\* What the pages do leaves the cache as it is, and lets those that empty it go on.
LEMMA CacheIdles ==
  ASSUME CacheInv, UNCHANGED tables, UNCHANGED authorisations,
         \A c \in Calls : Clearing(c) => calls'[c] = calls[c]
  PROVE  CacheInv'
<1>1. RealmType'
  BY DEF CacheInv, RealmType, tables, authorisations
<1>2. LoadInv'
  BY DEF CacheInv, LoadInv, HalfRead, Allowed, tables, authorisations
<1>3. \A u \in Users : ToBeCleared(u) => ToBeCleared(u)'
  BY DEF ToBeCleared, Clearing, At
<1>4. CacheIsCurrent'
  BY <1>3 DEF CacheInv, CacheIsCurrent, Allowed, tables, authorisations
<1> QED
  BY <1>1, <1>2, <1>4 DEF CacheInv

\* The history of a role only grows.
GivenGrows == /\ given' \in [Groups -> SUBSET Menus]
              /\ \A r \in Groups : given[r] \subseteq given'[r]

\* A new request.
LEMMA AskKeeps ==
  ASSUME CallsInv, GivenGrows, NEW call \in RoleCall, call.at = "asked", Ask(call),
         call.boxes \subseteq given'[call.role]
  PROVE  CallsInv' /\ \A c \in Calls : Clearing(c) => calls'[c] = calls[c]
<1>1. PICK d \in Calls : calls[d] = NoCall /\ calls' = [calls EXCEPT ![d] = call]
  BY DEF Ask
<1>2. \A c \in Calls : calls[c] # NoCall => calls[c] \in RoleCall /\ calls[c].role \in Groups
  BY DEF CallsInv, RoleCall
<1> QED
  BY <1>1, <1>2 DEF CallsInv, GivenGrows, Clearing, At

\* A request ends, or goes on with boxes that the role has been given.
LEMMA CallSteps ==
  ASSUME CallsInv, UNCHANGED given, NEW c \in Calls, NEW new \in {NoCall} \cup RoleCall,
         calls' = [calls EXCEPT ![c] = new],
         new # NoCall => new.boxes \subseteq given[new.role]
  PROVE  CallsInv'
  BY DEF CallsInv

\* Nothing is under way that was not, and the history stays.
LEMMA GivenStays ==
  ASSUME PageInv, UNCHANGED <<given, granted, tree>>
  PROVE  PageInv'
  BY DEF PageInv

\* The page asks for the tree of a role and draws it.
LEMMA TreeSteps ==
  ASSUME ConstantsOK, TInv, NEW c \in Calls, ReadTree(c) \/ DrawTree(c) \/ LoseCall(c)
  PROVE  TInv'
<1>0. calls[c] \in RoleCall
  BY DEF ReadTree, DrawTree, LoseCall, At, TInv, CallsInv
<1>1. CASE ReadTree(c)
  <2> DEFINE new == [calls[c] EXCEPT !.at = "answered", !.boxes = granted[calls[c].role]]
  <2>1. new \in RoleCall /\ new.role = calls[c].role /\ new.boxes = granted[calls[c].role]
    BY <1>0 DEF RoleCall, TInv, PageInv
  <2>2. calls' = [calls EXCEPT ![c] = new]
    BY <1>1 DEF ReadTree, TInv, CallsInv
  <2>3. new.boxes \subseteq given[new.role]
    BY <1>0, <2>1 DEF TInv, PageInv, RoleCall
  <2> HIDE DEF new
  <2>4. CallsInv'
    BY <1>1, <2>1, <2>2, <2>3, CallSteps DEF ReadTree, TInv
  <2>5. \A d \in Calls : Clearing(d) => calls'[d] = calls[d]
    BY <1>1, <2>2 DEF ReadTree, Clearing, At, Changes, TInv, CallsInv
  <2> QED
    BY <1>1, <2>4, <2>5, CacheIdles, GivenStays DEF ReadTree, TInv, tables
<1>2. CASE DrawTree(c)
  <2>1. CallsInv'
    BY <1>2, CallSteps DEF DrawTree, TInv
  <2>2. \A d \in Calls : Clearing(d) => calls'[d] = calls[d]
    BY <1>2 DEF DrawTree, Clearing, At, Changes, TInv, CallsInv
  <2>3. PageInv'
    BY <1>0, <1>2 DEF DrawTree, Bound, TInv, CallsInv, PageInv, RoleCall, tables, ConstantsOK, At
  <2> QED
    BY <1>2, <2>1, <2>2, <2>3, CacheIdles DEF DrawTree, TInv
<1>3. CASE LoseCall(c)
  <2>1. CallsInv'
    BY <1>3, CallSteps DEF LoseCall, TInv
  <2>2. \A d \in Calls : Clearing(d) => calls'[d] = calls[d]
    BY <1>3 DEF LoseCall, Clearing, At, Changes, TInv, CallsInv
  <2> QED
    BY <1>3, <2>1, <2>2, CacheIdles, GivenStays DEF LoseCall, TInv, tables
<1> QED
  BY <1>1, <1>2, <1>3

\* What administrators click.
LEMMA ClickSteps ==
  ASSUME ConstantsOK, TInv,
         \/ \E r \in Groups : OpenRole(r) \/ \E m \in Menus : OthersChange(r, m)
         \/ \E m \in Menus : CheckBox(m) \/ UncheckBox(m)
  PROVE  TInv'
<1>1. ASSUME NEW r \in Groups, OpenRole(r) PROVE TInv'
  <2> DEFINE call == Call("tree", r, {})
  <2>1. call \in RoleCall /\ call.at = "asked" /\ call.boxes = {}
    BY DEF Call, RoleCall
  <2>2. Ask(call) /\ GivenGrows
    BY <1>1 DEF OpenRole, GivenGrows, TInv, PageInv
  <2> HIDE DEF call
  <2>3. CallsInv' /\ \A c \in Calls : Clearing(c) => calls'[c] = calls[c]
    BY <2>1, <2>2, AskKeeps DEF TInv
  <2> QED
    BY <1>1, <2>3, CacheIdles, GivenStays DEF OpenRole, TInv, tables
<1>2. ASSUME NEW m \in Menus, CheckBox(m) PROVE TInv'
  <2> DEFINE call == Call("insert", tree.role, {m})
  <2>1. tree.role \in Groups
    BY <1>2 DEF CheckBox, TInv, PageInv
  <2>2. call \in RoleCall /\ call.at = "asked" /\ call.boxes = {m} /\ call.role = tree.role
    BY <2>1 DEF Call, RoleCall
  <2>3. Ask(call) /\ GivenGrows /\ m \in given'[tree.role]
    BY <1>2, <2>1 DEF CheckBox, GivenGrows, TInv, PageInv
  <2> HIDE DEF call
  <2>4. CallsInv' /\ \A c \in Calls : Clearing(c) => calls'[c] = calls[c]
    BY <2>2, <2>3, AskKeeps DEF TInv
  <2>5. PageInv'
    BY <1>2, <2>1, <2>3 DEF CheckBox, TInv, PageInv, GivenGrows, tables
  <2> QED
    BY <1>2, <2>4, <2>5, CacheIdles DEF CheckBox, TInv
<1>3. ASSUME NEW m \in Menus, UncheckBox(m) PROVE TInv'
  <2> DEFINE call == Call("delete", tree.role, {m})
  <2>1. tree.role \in Groups /\ m \in given[tree.role]
    BY <1>3 DEF UncheckBox, TInv, PageInv
  <2>2. call \in RoleCall /\ call.at = "asked" /\ call.boxes = {m} /\ call.role = tree.role
    BY <2>1 DEF Call, RoleCall
  <2>3. Ask(call) /\ GivenGrows /\ m \in given'[tree.role]
    BY <1>3, <2>1 DEF UncheckBox, GivenGrows, TInv, PageInv
  <2> HIDE DEF call
  <2>4. CallsInv' /\ \A c \in Calls : Clearing(c) => calls'[c] = calls[c]
    BY <2>2, <2>3, AskKeeps DEF TInv
  <2>5. PageInv'
    BY <1>3, <2>1 DEF UncheckBox, TInv, PageInv, tables
  <2> QED
    BY <1>3, <2>4, <2>5, CacheIdles DEF UncheckBox, TInv
<1>4. ASSUME NEW r \in Groups, NEW m \in Menus, OthersChange(r, m) PROVE TInv'
  <2> DEFINE call == Call(IF m \in granted[r] THEN "delete" ELSE "insert", r, {m})
  <2>1. call \in RoleCall /\ call.at = "asked" /\ call.boxes = {m} /\ call.role = r
    BY DEF Call, RoleCall
  <2>2. Ask(call) /\ GivenGrows /\ m \in given'[r]
    BY <1>4 DEF OthersChange, GivenGrows, TInv, PageInv
  <2> HIDE DEF call
  <2>3. CallsInv' /\ \A c \in Calls : Clearing(c) => calls'[c] = calls[c]
    BY <2>1, <2>2, AskKeeps DEF TInv
  <2>4. PageInv'
    BY <1>4, <2>2 DEF OthersChange, TInv, PageInv, GivenGrows, tables
  <2> QED
    BY <1>4, <2>3, <2>4, CacheIdles DEF OthersChange, TInv
<1> QED
  BY <1>1, <1>2, <1>3, <1>4

\* The page is loaded anew.
LEMMA ReloadSteps ==
  ASSUME ConstantsOK, TInv, ReloadPage
  PROVE  TInv'
<1>1. CallsInv'
  BY DEF ReloadPage, TInv, CallsInv
<1>2. \A d \in Calls : Clearing(d) => calls'[d] = calls[d]
  BY DEF ReloadPage, Clearing, At, Changes
<1>3. PageInv'
  BY DEF ReloadPage, TInv, PageInv, NoTree, tables, ConstantsOK
<1> QED
  BY <1>1, <1>2, <1>3, CacheIdles DEF ReloadPage, TInv

\* The statement of a request that changes a role: if a row changes, the request goes
\* on to empty the cache, and every thread that reads is overtaken.
LEMMA ChangeSteps ==
  ASSUME ConstantsOK, TInv, NEW c \in Calls, Change(c)
  PROVE  TInv'
<1> DEFINE r == calls[c].role
           rows == calls[c].boxes \cap granted[r]
           changed == IF calls[c].kind = "insert" THEN granted[r] \cup calls[c].boxes
                      ELSE granted[r] \ calls[c].boxes
           goesOn == Clears(calls[c].kind, rows)
           new == IF goesOn THEN [calls[c] EXCEPT !.at = "clear"] ELSE NoCall
<1>1. /\ calls[c] \in RoleCall /\ r \in Groups /\ calls[c].boxes \subseteq given[r]
      /\ calls[c].boxes \subseteq Menus /\ calls[c].at = "asked" /\ calls[c].kind \in Changes
  BY DEF Change, At, TInv, CallsInv, RoleCall
<1>2. /\ granted' = [granted EXCEPT ![r] = changed]
      /\ calls' = [calls EXCEPT ![c] = new]
      /\ overtaken' = IF granted'[r] = granted[r] THEN overtaken
                      ELSE {l \in Loaders : loads[l] # NoLoad}
      /\ UNCHANGED <<held, tree, cache, loads, given, outdated>>
  BY <1>1 DEF Change, TInv, PageInv, CallsInv
<1>3. /\ new \in {NoCall} \cup RoleCall
      /\ goesOn => new # NoCall /\ new.role = r /\ new.boxes = calls[c].boxes
                   /\ new.kind = calls[c].kind /\ new.at = "clear"
  BY <1>1 DEF RoleCall, NoCall
<1>4. changed \subseteq given[r] /\ changed \subseteq Menus
  BY <1>1 DEF TInv, PageInv
<1>5. ~goesOn => changed = granted[r]
  BY <1>1 DEF Clears
<1> HIDE DEF r, rows, changed, goesOn, new
<1>6. CallsInv'
  <2>1. new # NoCall => new.boxes \subseteq given[new.role]
    BY <1>1, <1>3 DEF new
  <2> QED
    BY <1>2, <1>3, <2>1, CallSteps DEF TInv
<1>7. PageInv'
  BY <1>1, <1>2, <1>4 DEF TInv, PageInv
<1>8. CASE granted' = granted
  <2>1. RealmType' /\ LoadInv'
    BY <1>1, <1>2, <1>8 DEF TInv, CacheInv, RealmType, LoadInv, HalfRead, Allowed
  <2>2. \A u \in Users : ToBeCleared(u) => ToBeCleared(u)'
    BY <1>1, <1>2 DEF ToBeCleared, At, TInv, CallsInv
  <2>3. CacheIsCurrent'
    BY <1>2, <1>8, <2>2 DEF TInv, CacheInv, CacheIsCurrent, Allowed
  <2> QED
    BY <1>6, <1>7, <2>1, <2>3 DEF TInv, CacheInv
<1>9. CASE granted' # granted
  <2>1. granted'[r] # granted[r] /\ goesOn
    BY <1>1, <1>2, <1>5, <1>9 DEF TInv, PageInv
  <2>2. overtaken' = {l \in Loaders : loads[l] # NoLoad}
    BY <1>2, <2>1
  <2>3. RealmType' /\ LoadInv'
    BY <1>2, <2>2 DEF TInv, CacheInv, RealmType, LoadInv
  <2>4. \A u \in Users : ToBeCleared(u)'
    BY <1>1, <1>2, <1>3, <2>1 DEF ToBeCleared, At, TInv, CallsInv
  <2>5. CacheIsCurrent'
    BY <2>4 DEF CacheIsCurrent
  <2> QED
    BY <1>6, <1>7, <2>3, <2>5 DEF TInv, CacheInv
<1> QED
  BY <1>8, <1>9

\* A request empties the cache: all keys there are, one by one, and then it is done.
LEMMA ClearSteps ==
  ASSUME ConstantsOK, TInv, NEW c \in Calls,
         ListKeys(c) \/ Respond(c) \/ \E v \in Users : ClearKey(c, v)
  PROVE  TInv'
<1>0. /\ calls[c] \in RoleCall /\ calls[c].boxes \subseteq given[calls[c].role]
      /\ calls[c].keys \subseteq Users /\ calls[c].kind \in Changes
  BY DEF ListKeys, ClearKey, Respond, At, TInv, CallsInv, RoleCall
<1>1. CASE ListKeys(c)
  <2> DEFINE keys == {u \in Users : cache[u] # NoEntry}
             new == [calls[c] EXCEPT !.at = "clearing", !.keys = keys]
  <2>1. new \in RoleCall /\ new.role = calls[c].role /\ new.boxes = calls[c].boxes
        /\ new.kind = calls[c].kind /\ new.at = "clearing" /\ new.keys = keys /\ new # NoCall
    BY <1>0 DEF RoleCall, NoCall
  <2>2. calls' = [calls EXCEPT ![c] = new]
    BY <1>1 DEF ListKeys, TInv, CallsInv
  <2>3. keys = {u \in Users : cache[u] # NoEntry}
    OBVIOUS
  <2> HIDE DEF new, keys
  <2>4. CallsInv'
    BY <1>0, <1>1, <2>1, <2>2, CallSteps DEF ListKeys, TInv
  <2>5. \A u \in Users : ToBeCleared(u)' \/ cache[u] = NoEntry
    BY <1>0, <2>1, <2>2, <2>3 DEF ToBeCleared, At, TInv, CallsInv
  <2>6. CacheInv'
    BY <1>1, <2>5 DEF ListKeys, TInv, CacheInv, RealmType, LoadInv, HalfRead, CacheIsCurrent,
                      Allowed, tables, authorisations
  <2> QED
    BY <1>1, <2>4, <2>6, GivenStays DEF ListKeys, TInv, tables
<1>2. ASSUME NEW v \in Users, ClearKey(c, v) PROVE TInv'
  <2> DEFINE new == [calls[c] EXCEPT !.keys = calls[c].keys \ {v}]
  <2>1. new \in RoleCall /\ new.role = calls[c].role /\ new.boxes = calls[c].boxes
        /\ new.kind = calls[c].kind /\ new.at = calls[c].at /\ new.keys = calls[c].keys \ {v}
        /\ new # NoCall
    BY <1>0 DEF RoleCall, NoCall
  <2>2. calls' = [calls EXCEPT ![c] = new]
    BY <1>2 DEF ClearKey, TInv, CallsInv
  <2> HIDE DEF new
  <2>3. CallsInv'
    BY <1>0, <1>2, <2>1, <2>2, CallSteps DEF ClearKey, TInv
  <2>4. \A u \in Users \ {v} : ToBeCleared(u) => ToBeCleared(u)'
    BY <1>0, <1>2, <2>1, <2>2 DEF ToBeCleared, ClearKey, At, TInv, CallsInv
  <2>5. RealmType' /\ LoadInv'
    BY <1>2 DEF ClearKey, TInv, CacheInv, RealmType, LoadInv, HalfRead, Allowed, tables
  <2>6. CacheIsCurrent'
    BY <1>2, <2>4 DEF ClearKey, TInv, CacheInv, RealmType, CacheIsCurrent, Allowed, tables
  <2> QED
    BY <1>2, <2>3, <2>5, <2>6, GivenStays DEF ClearKey, TInv, CacheInv, tables
<1>3. CASE Respond(c)
  <2>1. CallsInv'
    BY <1>3, CallSteps DEF Respond, TInv
  <2>2. \A u \in Users : ToBeCleared(u) => ToBeCleared(u)'
    BY <1>0, <1>3 DEF ToBeCleared, Respond, At, TInv, CallsInv
  <2>3. CacheInv'
    BY <1>3, <2>2 DEF Respond, TInv, CacheInv, RealmType, LoadInv, HalfRead, CacheIsCurrent,
                      Allowed, tables, authorisations
  <2> QED
    BY <1>3, <2>1, <2>3, GivenStays DEF Respond, TInv, tables
<1> QED
  BY <1>1, <1>2, <1>3

RealmStep ==
  \/ \E l \in Loaders : \/ Put(l)
                        \/ \E u \in Users : LoadRoles(l, u)
                        \/ \E r \in Groups : LoadMenus(l, r)
  \/ \E u \in Users : Expire(u) \/ \E r \in Groups : TransformUserRole(u, r)

\* Threads that compute an authorisation, entries that expire, users whose roles change.
LEMMA RealmSteps ==
  ASSUME ConstantsOK, TInv, RealmStep
  PROVE  TInv'
<1>1. UNCHANGED <<granted, tree, calls, given>> /\ CallsInv' /\ PageInv'
  BY GivenStays DEF RealmStep, LoadRoles, LoadMenus, Put, Expire, TransformUserRole, tables, TInv, CallsInv
<1>2. \A v \in Users : ToBeCleared(v)' <=> ToBeCleared(v)
  BY <1>1 DEF ToBeCleared, At
<1>3. ASSUME NEW l \in Loaders, NEW u \in Users, LoadRoles(l, u) PROVE TInv'
  <2> DEFINE new == [user |-> u, roles |-> held[u], menus |-> {}]
  <2>1. new \in RoleLoad /\ loads' = [loads EXCEPT ![l] = new]
    BY <1>3 DEF LoadRoles, RoleLoad, TInv, CacheInv, RealmType
  <2>2. UNCHANGED <<held, granted, cache, overtaken, outdated>>
    BY <1>3 DEF LoadRoles, tables
  <2>3. new.menus \cup UNION {granted[q] : q \in new.roles} = Allowed(new.user)
    BY DEF Allowed
  <2> HIDE DEF new
  <2>4. RealmType' /\ LoadInv'
    BY <2>1, <2>2, <2>3 DEF TInv, CacheInv, RealmType, LoadInv, HalfRead, Allowed
  <2>5. CacheIsCurrent'
    BY <1>2, <2>2 DEF TInv, CacheInv, CacheIsCurrent, Allowed
  <2> QED
    BY <1>1, <2>4, <2>5 DEF TInv, CacheInv
<1>4. ASSUME NEW l \in Loaders, NEW r \in Groups, LoadMenus(l, r) PROVE TInv'
  <2> DEFINE new == [loads[l] EXCEPT !.roles = loads[l].roles \ {r},
                                     !.menus = loads[l].menus \cup granted[r]]
  <2>1. loads[l] \in RoleLoad /\ r \in loads[l].roles
    BY <1>4 DEF LoadMenus, TInv, CacheInv, RealmType
  <2>2. /\ new \in RoleLoad /\ new.user = loads[l].user
        /\ new.roles = loads[l].roles \ {r} /\ new.menus = loads[l].menus \cup granted[r]
    BY <2>1 DEF RoleLoad, TInv, PageInv
  <2>3. loads' = [loads EXCEPT ![l] = new] /\ UNCHANGED <<held, granted, cache, overtaken, outdated>>
    BY <1>4 DEF LoadMenus, tables, TInv, CacheInv, RealmType
  <2>4. new.menus \cup UNION {granted[q] : q \in new.roles} = HalfRead(l)
    BY <2>1, <2>2 DEF HalfRead
  <2> HIDE DEF new
  <2>5. RealmType' /\ LoadInv'
    <3>1. loads[l] # NoLoad
      BY <1>4 DEF LoadMenus
    <3> QED
      BY <2>2, <2>3, <2>4, <3>1 DEF TInv, CacheInv, RealmType, LoadInv, HalfRead, Allowed
  <2>6. CacheIsCurrent'
    BY <1>2, <2>3 DEF TInv, CacheInv, CacheIsCurrent, Allowed
  <2> QED
    BY <1>1, <2>5, <2>6 DEF TInv, CacheInv
<1>5. ASSUME NEW l \in Loaders, Put(l) PROVE TInv'
  <2>1. loads[l] \in RoleLoad /\ loads[l].roles = {}
    BY <1>5 DEF Put, TInv, CacheInv, RealmType
  <2> DEFINE v == loads[l].user
             entry == Entry(loads[l].menus)
  <2>2. v \in Users /\ entry \in [at : {"cached"}, menus : SUBSET Menus]
        /\ entry.menus = loads[l].menus
    BY <2>1 DEF RoleLoad, Entry
  <2>3. /\ cache' = [cache EXCEPT ![v] = entry]
        /\ outdated' = IF l \in overtaken THEN outdated \cup {v} ELSE outdated \ {v}
        /\ loads' = [loads EXCEPT ![l] = NoLoad] /\ overtaken' = overtaken \ {l}
        /\ UNCHANGED held
    BY <1>5 DEF Put, tables
  <2>4. l \notin overtaken => entry.menus = Allowed(v)
    <3>1. l \notin overtaken => HalfRead(l) = Allowed(v)
      BY <1>5 DEF Put, TInv, CacheInv, LoadInv
    <3>2. HalfRead(l) = loads[l].menus
      BY <2>1 DEF HalfRead
    <3> QED
      BY <2>2, <3>1, <3>2
  <2> HIDE DEF v, entry
  <2>5. RealmType' /\ LoadInv'
    BY <1>1, <2>2, <2>3 DEF TInv, CacheInv, RealmType, LoadInv, HalfRead, Allowed
  <2>6. CacheIsCurrent'
    BY <1>1, <1>2, <2>2, <2>3, <2>4 DEF TInv, CacheInv, RealmType, CacheIsCurrent, Allowed
  <2> QED
    BY <1>1, <2>5, <2>6 DEF TInv, CacheInv
<1>6. ASSUME NEW u \in Users, Expire(u) PROVE TInv'
  <2>1. RealmType' /\ LoadInv'
    BY <1>6 DEF Expire, TInv, CacheInv, RealmType, LoadInv, HalfRead, Allowed, tables
  <2>2. CacheIsCurrent'
    BY <1>2, <1>6 DEF Expire, TInv, CacheInv, RealmType, CacheIsCurrent, Allowed, tables
  <2> QED
    BY <1>1, <2>1, <2>2 DEF TInv, CacheInv
<1>7. ASSUME NEW u \in Users, NEW r \in Groups, TransformUserRole(u, r) PROVE TInv'
  <2>1. PICK roles \in SUBSET Groups : held' = [held EXCEPT ![u] = roles]
    <3> DEFINE roles == IF r \in held[u] THEN held[u] \ {r} ELSE held[u] \cup {r}
    <3>1. roles \in SUBSET Groups /\ held' = [held EXCEPT ![u] = roles]
      BY <1>7 DEF TransformUserRole, TInv, CacheInv, RealmType
    <3> QED  BY <3>1
  <2>2. RealmType'
    BY <1>7, <2>1 DEF TransformUserRole, Loading, TInv, CacheInv, RealmType
  <2>3. LoadInv'
    <3>1. \A l \in Loaders \ overtaken' : loads[l] # NoLoad =>
            l \notin overtaken /\ loads[l].user \in Users \ {u}
      BY <1>7 DEF TransformUserRole, Loading, TInv, CacheInv, RealmType, RoleLoad
    <3>2. \A v \in Users \ {u} : held'[v] = held[v]
      BY <2>1 DEF TInv, CacheInv, RealmType
    <3>3. UNCHANGED <<loads, granted>>
      BY <1>7 DEF TransformUserRole
    <3> QED
      BY <3>1, <3>2, <3>3 DEF TInv, CacheInv, LoadInv, HalfRead, Allowed
  <2>4. CacheIsCurrent'
    BY <1>2, <1>7, <2>1 DEF TransformUserRole, TInv, CacheInv, RealmType, CacheIsCurrent, Allowed
  <2> QED
    BY <1>1, <2>2, <2>3, <2>4 DEF TInv, CacheInv
<1> QED
  BY <1>3, <1>4, <1>5, <1>6, <1>7 DEF RealmStep

\* Every action keeps the invariant.
LEMMA NextTInv ==
  ASSUME ConstantsOK, TInv, [Next]_roleVars
  PROVE  TInv'
<1>1. CASE UNCHANGED roleVars
  <2>1. CallsInv' /\ PageInv'
    BY <1>1 DEF roleVars, TInv, CallsInv, PageInv
  <2> QED
    BY <1>1, <2>1, CacheIdles DEF roleVars, tables, authorisations, TInv
<1> QED
  BY <1>1, TreeSteps, ClickSteps, ReloadSteps, ChangeSteps, ClearSteps, RealmSteps DEF Next, RealmStep
-----------------------------------------------------------------------------
\* The invariant holds of every behaviour.
LEMMA Inductive == ASSUME ConstantsOK PROVE Spec => []TInv
  BY InitTInv, NextTInv, PTL DEF Spec

\* Every variable of Roles has its type.
THEOREM RolesTypeCorrect == ASSUME ConstantsOK PROVE Spec => []TypeOK
<1>1. TInv => TypeOK
  BY DEF TInv, CallsInv, PageInv, CacheInv, RealmType, TypeOK, RoleCall, RoleLoad
<1> QED
  BY <1>1, Inductive, PTL

\* The page takes from a role only what the role has had or was to get, however many
\* trees are asked for and in whatever order they come.
THEOREM TakesWhatWasGivenHolds == ASSUME ConstantsOK PROVE Spec => []TakesWhatWasGiven
<1>1. TInv => TakesWhatWasGiven
  BY DEF TInv, CallsInv, TakesWhatWasGiven, At
<1> QED
  BY <1>1, Inductive, PTL

\* The authorisation cache agrees with the tables, with any number of threads that
\* compute authorisations and of requests that empty it, but for the two ways in
\* which the code lets an entry be outdated.
THEOREM CacheIsCurrentHolds == ASSUME ConstantsOK PROVE Spec => []CacheIsCurrent
<1>1. TInv => CacheIsCurrent
  BY DEF TInv, CacheInv
<1> QED
  BY <1>1, Inductive, PTL
=============================================================================
