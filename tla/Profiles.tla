------------------------------ MODULE Profiles ------------------------------
(***************************************************************************)
(* Profiles, their wrapped store keys, the KeyCache of each store process  *)
(* and rekey_backend, from src/src/postgres/mod.rs (create_profile,        *)
(* remove_profile, rekey_backend, session, resolve_profile_key).  Several  *)
(* processes may hold a PostgresStore on one database; each has its own    *)
(* KeyCache, and every session holds the Arc<KeyCache> its store had when  *)
(* the session was made.  A store key is identified with its profile row;  *)
(* what matters of a store_key blob is the wrap key it is encrypted under, *)
(* or Raw when it is the plain key.  KeyCache and opening a store are not  *)
(* in src/ and are modelled from the specification.                        *)
(***************************************************************************)
EXTENDS Naturals, FiniteSets, FiniteSetsExt, Functions

CONSTANTS
    Procs,        \* processes holding a PostgresStore on the database
    Creators,     \* the processes whose callers use create_profile
    Sessions,     \* DbSession objects
    PNames,       \* profile names
    Default,      \* the default profile, created when the store was provisioned
    InitNames,    \* the profiles present when the model starts
    WrapKeys,     \* wrap keys callers may pass to rekey_backend or open
    InitWrap,     \* the wrap key the store was provisioned with
    Raw,          \* a store_key blob that is the unwrapped key
    MaxPid,       \* bound on profile ids handed out
    MaxCaches     \* bound on KeyCache instances built

ASSUME Default \in InitNames /\ InitNames \subseteq PNames /\ InitWrap \in WrapKeys
ASSUME Creators \subseteq Procs /\ Raw \notin WrapKeys

VARIABLES
    profiles,  \* committed rows of profiles: [id, name, blob]
    config,    \* committed config.wrap_key
    nextPid,   \* next id the profiles sequence hands out
    caches,    \* caches[c]: KeyCache instance c: its wrap key and entries
    ncache,    \* instances built so far
    cur,       \* cur[p]: the instance store p holds (0: store not open)
    rk,        \* rk[p]: the rekey_backend call of process p
    sess       \* sess[s]: a session, its store, profile and cache

vars == <<profiles, config, nextPid, caches, ncache, cur, rk, sess>>

Blobs   == WrapKeys \cup {Raw}
Row     == [id: 1..MaxPid, name: PNames, blob: Blobs]
Entry   == [name: PNames, pid: 1..MaxPid]
Cache   == [wrap: WrapKeys, ent: SUBSET Entry]
RkIdle  == [pc |-> "idle", w |-> InitWrap, todo |-> {}, done |-> {}, res |-> "ok"]
NoSess  == [st |-> "idle", p |-> CHOOSE p \in Procs : TRUE, n |-> Default,
            c |-> 0, pid |-> 0, err |-> FALSE]

IdsOf(rows)  == {r.id : r \in rows}
RowOf(n)     == {r \in profiles : r.name = n}
\* Row ids a rekey transaction of another process has updated and locks.
LockedBy(q)  == rk[q].done
Locked       == UNION {LockedBy(q) : q \in Procs}
Open(p)      == cur[p] # 0
\* Instances the rekeys in progress of processes other than p will build.
Reserved(p)  == Cardinality({q \in Procs \ {p} : rk[q].pc = "update"})

(***************************************************************************)
(* KeyCache (spec 4.3): get_profile looks a name up; add_profile inserts;  *)
(* load_key unwraps a blob with the cache's wrap key, Encryption on any    *)
(* other blob.                                                             *)
(***************************************************************************)
GetProfile(c, n) == {e \in caches[c].ent : e.name = n}
LoadKeyOk(c, blob) == blob = caches[c].wrap
AddProfile(c, n, pid) ==
    caches' = [caches EXCEPT ![c].ent = @ \cup {[name |-> n, pid |-> pid]}]
\* KeyCache::new(wrap_key): a fresh instance, its index.
NewCache(w, ent) ==
    /\ caches' = [caches EXCEPT ![ncache + 1] = [wrap |-> w, ent |-> ent]]
    /\ ncache' = ncache + 1

\* The provisioned database: each initial profile wrapped under InitWrap;
\* each process has opened its store, its cache holding the default profile.
Init ==
    /\ profiles \in {{[id |-> f[n], name |-> n, blob |-> InitWrap] : n \in InitNames} :
                      f \in Bijection(InitNames, 1..Cardinality(InitNames))}
    /\ config = InitWrap
    /\ nextPid = Cardinality(InitNames) + 1
    /\ caches = [c \in 1..MaxCaches |->
                   [wrap |-> InitWrap,
                    ent |-> {[name |-> Default, pid |-> r.id] : r \in RowOf(Default)}]]
    /\ ncache = Cardinality(Procs)
    /\ cur \in Bijection(Procs, 1..Cardinality(Procs))
    /\ rk = [p \in Procs |-> RkIdle]
    /\ sess = [s \in Sessions |-> NoSess]

(***************************************************************************)
(* create_profile: StoreKey::new, then INSERT INTO profiles ... ON CONFLICT *)
(* DO NOTHING RETURNING id with store_key = key.to_string(), the key       *)
(* itself; on a returned id, add_profile to the store's cache.  A process  *)
(* runs no backend method while its rekey_backend (&mut self) runs.        *)
(***************************************************************************)
CreateProfile(p, n) ==
    /\ p \in Creators /\ Open(p) /\ rk[p].pc = "idle"
    /\ nextPid <= MaxPid
    /\ RowOf(n) = {}
    /\ profiles' = profiles \cup {[id |-> nextPid, name |-> n, blob |-> Raw]}
    /\ AddProfile(cur[p], n, nextPid)
    /\ nextPid' = nextPid + 1
    /\ UNCHANGED <<config, ncache, cur, rk, sess>>

(***************************************************************************)
(* remove_profile: DELETE FROM profiles WHERE name = $1 in autocommit; it  *)
(* waits while a rekey transaction holds the row.  No cache is touched.    *)
(***************************************************************************)
RemoveProfile(p, n) ==
    /\ Open(p) /\ rk[p].pc = "idle"
    /\ RowOf(n) # {}
    /\ IdsOf(RowOf(n)) \cap Locked = {}
    /\ profiles' = profiles \ RowOf(n)
    /\ UNCHANGED <<config, nextPid, caches, ncache, cur, rk, sess>>

(***************************************************************************)
(* rekey_backend(method): resolve the new wrap key w, BEGIN, SELECT id,    *)
(* store_key FROM profiles, load_key every blob with the store's cache     *)
(* (an Encryption error ends the call, the transaction rolled back) and    *)
(* re-encode it under w into the BTreeMap upd_keys.                        *)
(***************************************************************************)
RekeyScan(p, w) ==
    /\ Open(p) /\ rk[p].pc = "idle"
    /\ ncache + Reserved(p) < MaxCaches
    /\ rk' = [rk EXCEPT ![p] =
                IF \A r \in profiles : LoadKeyOk(cur[p], r.blob)
                THEN [RkIdle EXCEPT !.pc = "update", !.w = w, !.todo = IdsOf(profiles)]
                ELSE [RkIdle EXCEPT !.res = "Encryption"]]
    /\ UNCHANGED <<profiles, config, nextPid, caches, ncache, cur, sess>>
\* The pid of the next UPDATE: upd_keys is a BTreeMap, iterated by pid.
UpdOrder(p) == {Min(rk[p].todo)}

(***************************************************************************)
(* rekey_backend: UPDATE profiles SET store_key WHERE id, one pid at a     *)
(* time in upd_keys order, waiting for a row another transaction holds;    *)
(* rows_affected != 1 (the row was removed meanwhile) returns a Backend    *)
(* error and the dropped transaction rolls back.                           *)
(***************************************************************************)
RekeyUpdate(p) ==
    /\ rk[p].pc = "update" /\ rk[p].todo # {}
    /\ \E pid \in UpdOrder(p) :
         /\ \A q \in Procs \ {p} : pid \notin LockedBy(q)
         /\ rk' = [rk EXCEPT ![p] =
                     IF pid \in IdsOf(profiles)
                     THEN [@ EXCEPT !.todo = @ \ {pid}, !.done = @ \cup {pid}]
                     ELSE [RkIdle EXCEPT !.res = "Backend"]]
    /\ UNCHANGED <<profiles, config, nextPid, caches, ncache, cur, sess>>

\* Mutation: the UPDATE of config.wrap_key is left out.
SkipWrapRef(p) == UNCHANGED config

\* UPDATE config SET value = the new wrap key's URI WHERE name = 'wrap_key'.
SetWrapRef(p) == config' = rk[p].w

(***************************************************************************)
(* rekey_backend: UPDATE config, COMMIT, then self.key_cache =             *)
(* Arc::new(KeyCache::new(wrap_key)): a fresh, empty cache for the store;  *)
(* sessions made before keep the old one.                                  *)
(***************************************************************************)
RekeyCommit(p) ==
    /\ rk[p].pc = "update" /\ rk[p].todo = {}
    /\ profiles' = {IF r.id \in rk[p].done THEN [r EXCEPT !.blob = rk[p].w] ELSE r :
                      r \in profiles}
    /\ SetWrapRef(p)
    /\ NewCache(rk[p].w, {})
    /\ cur' = [cur EXCEPT ![p] = ncache + 1]
    /\ rk' = [rk EXCEPT ![p] = RkIdle]
    /\ UNCHANGED <<nextPid, sess>>

(***************************************************************************)
(* Backend::session: a DbSession holding the store's current cache.       *)
(***************************************************************************)
OpenSession(s, p, n) ==
    /\ sess[s].st = "idle" /\ Open(p) /\ rk[p].pc = "idle"
    /\ sess' = [sess EXCEPT ![s] = [NoSess EXCEPT !.st = "pending", !.p = p,
                                                  !.n = n, !.c = cur[p]]]
    /\ UNCHANGED <<profiles, config, nextPid, caches, ncache, cur, rk>>

(***************************************************************************)
(* acquire_key -> make_active -> resolve_profile_key.  A hit in the        *)
(* session's cache gives (pid, key).  On a miss the code runs "SELECT id,  *)
(* store_key FROM profiles WHERE name=?1": ?1 is not a PostgreSQL          *)
(* parameter (those are $1), so the statement is rejected and the call     *)
(* fails with a Backend error; the session stays pending, and the next    *)
(* call tries again (the store may have cached the profile meanwhile).    *)
(***************************************************************************)
ResolveHit(s) ==
    /\ sess[s].st = "pending"
    /\ \E e \in GetProfile(sess[s].c, sess[s].n) :
         sess' = [sess EXCEPT ![s].st = "active", ![s].pid = e.pid, ![s].err = FALSE]
    /\ UNCHANGED <<profiles, config, nextPid, caches, ncache, cur, rk>>

ResolveMiss(s) ==
    /\ sess[s].st = "pending"
    /\ GetProfile(sess[s].c, sess[s].n) = {}
    /\ sess' = [sess EXCEPT ![s].err = TRUE]
    /\ UNCHANGED <<profiles, config, nextPid, caches, ncache, cur, rk>>

\* close / drop of the session.
CloseSession(s) ==
    /\ sess[s].st # "idle"
    /\ sess' = [sess EXCEPT ![s] = NoSess]
    /\ UNCHANGED <<profiles, config, nextPid, caches, ncache, cur, rk>>

\* PostgresStore::new: the store takes the KeyCache it is given, behind a
\* new Arc, and holds that instance from then on.
StoreNew(p, c) == cur' = [cur EXCEPT ![p] = c]

(***************************************************************************)
(* Process p stops (a crash mid-rekey rolls its transaction back) and      *)
(* opens the store again with wrap key w: opening unwraps the default      *)
(* profile's key with w and fails (Encryption) unless it is wrapped so.    *)
(***************************************************************************)
Restart(p, w) ==
    /\ ncache + Reserved(p) < MaxCaches
    /\ rk' = [rk EXCEPT ![p] = RkIdle]
    /\ sess' = [s \in Sessions |-> IF sess[s].p = p THEN NoSess ELSE sess[s]]
    /\ IF \E r \in RowOf(Default) : r.blob = w
       THEN /\ NewCache(w, {[name |-> Default, pid |-> r.id] : r \in RowOf(Default)})
            /\ StoreNew(p, ncache + 1)
       ELSE /\ cur' = [cur EXCEPT ![p] = 0]
            /\ UNCHANGED <<caches, ncache>>
    /\ UNCHANGED <<profiles, config, nextPid>>

Next ==
    \/ \E p \in Procs :
         \/ \E n \in PNames : CreateProfile(p, n) \/ RemoveProfile(p, n)
         \/ \E w \in WrapKeys : RekeyScan(p, w) \/ Restart(p, w)
         \/ RekeyUpdate(p) \/ RekeyCommit(p)
    \/ \E s \in Sessions :
         \/ \E p \in Procs, n \in PNames : OpenSession(s, p, n)
         \/ ResolveHit(s) \/ ResolveMiss(s) \/ CloseSession(s)

Spec == Init /\ [][Next]_vars

(***************************************************************************)
(* Properties                                                              *)
(***************************************************************************)
TypeOK ==
    /\ profiles \subseteq Row /\ config \in WrapKeys
    /\ nextPid \in 1..(MaxPid + 1) /\ ncache \in 1..MaxCaches
    /\ \A c \in 1..MaxCaches : caches[c] \in Cache
    /\ cur \in [Procs -> 0..ncache]
    /\ \A p \in Procs : rk[p].pc \in {"idle", "update"}
                        /\ rk[p].todo \cup rk[p].done \subseteq 1..MaxPid
    /\ \A s \in Sessions : sess[s].st \in {"idle", "pending", "active"}

\* Rekey is all or nothing across processes: however rekeys of several
\* processes, profile removals and restarts interleave, every wrapped
\* store_key that is committed is wrapped under the committed
\* config.wrap_key, so opening with the current wrap key unwraps them all.
WrapConsistent ==
    \A r \in profiles : r.blob # Raw => r.blob = config

\* Spec 3: profiles.store_key is always encrypted under the current wrap
\* key, including the key create_profile stores.
KeysWrapped ==
    \A r \in profiles : r.blob = config

\* Spec 4.6: a cache miss loads the key from profiles; resolving a profile
\* that exists only fails when the profile is absent.
ExistingProfileResolves ==
    [][\A s \in Sessions :
         sess[s].st = "pending" /\ ~sess[s].err /\ sess'[s].err
         => RowOf(sess[s].n) = {}]_vars
==============================================================================
