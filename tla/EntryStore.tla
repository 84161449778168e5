------------------------------ MODULE EntryStore ------------------------------
(***************************************************************************)
(* What the QueryBackend methods of a session promise, stated without a    *)
(* database: the entries of a profile are a map from (category, name) to  *)
(* an entry, and each call takes effect at one instant between its         *)
(* invocation and its return, with the result that instant determines.     *)
(* The results are those src/src/postgres/mod.rs gives a serial caller:    *)
(* an expired entry still occupies its name (Insert -> Duplicate) until    *)
(* it is removed, and Replace of an absent entry is NotFound.  A call may   *)
(* also fail with a database error and change nothing.  A scan (and      *)
(* fetch_all) returns the live entries matching its filter at one instant, *)
(* however they are paged, but a scan may end in an error after it took  *)
(* effect, before its last page; a call abandoned before it takes effect  *)
(* changes nothing.                                                        *)
(***************************************************************************)
EXTENDS Naturals, FiniteSets

CONSTANTS Sessions, Writers, Names, Values, Tags, MaxNow, NoExpiry, None

VARIABLES
    kv,     \* kv[n]: the entry stored under n, or None
    now,    \* the clock that decides expiry
    calls   \* calls[s]: the call of session s and where it stands

Expiries == {NoExpiry} \cup 1..MaxNow
Filters  == {None} \cup Tags

Res(code, data) == [code |-> code, data |-> data]
LiveEntry(e)   == e # None /\ (e.exp = NoExpiry \/ e.exp > now)
Hit(e, f)      == e # None /\ (f = None \/ f \in e.tags)

\* A call with its arguments (those a given kind does not take are None).
Call(k, n, v, e, tg, f) ==
    [kind |-> k, n |-> n, v |-> v, e |-> e, tg |-> tg, f |-> f,
     st |-> "pending", res |-> Res("ok", None)]
Idle == [Call("count", None, None, NoExpiry, {}, None) EXCEPT !.st = "idle"]

Calls(s) ==
    {Call(k, None, None, NoExpiry, {}, f) : k \in {"count", "fetchAll", "scan"},
                                          f \in Filters}
    \cup {Call("fetch", n, None, NoExpiry, {}, None) : n \in Names}
    \cup IF s \notin Writers THEN {}
        ELSE {Call(k, n, v, e, tg, None) : k \in {"insert", "replace"}, n \in Names,
                                         v \in Values, e \in Expiries, tg \in SUBSET Tags}
             \cup {Call("remove", n, None, NoExpiry, {}, None) : n \in Names}
             \cup {Call("removeAll", None, None, NoExpiry, {}, f) : f \in Filters}

Init ==
    /\ kv = [n \in Names |-> None]
    /\ now = 0
    /\ calls = [s \in Sessions |-> Idle]

Invoke(s) ==
    /\ calls[s].st \in {"idle", "done"}
    /\ \E c \in Calls(s) : calls' = [calls EXCEPT ![s] = c]
    /\ UNCHANGED <<kv, now>>

\* The call returns res; of its arguments only kind and name are kept.
Return(s, res) ==
    calls' = [calls EXCEPT ![s] = [Idle EXCEPT !.kind = calls[s].kind,
                                   !.n = calls[s].n, !.st = "done", !.res = res]]

\* The entry an Insert or Replace call stores.
New(s) == [value |-> calls[s].v, exp |-> calls[s].e, tags |-> calls[s].tg]

\* The call takes effect.
Apply(s) ==
    LET n == calls[s].n IN
    /\ calls[s].st = "pending"
    /\ CASE calls[s].kind = "count" ->
              /\ Return(s, Res("ok", Cardinality({m \in Names :
                                LiveEntry(kv[m]) /\ Hit(kv[m], calls[s].f)})))
              /\ UNCHANGED kv
         [] calls[s].kind = "fetch" ->
              /\ Return(s, Res("ok", IF LiveEntry(kv[n])
                                    THEN [value |-> kv[n].value, tags |-> kv[n].tags]
                                    ELSE None))
              /\ UNCHANGED kv
         [] calls[s].kind \in {"fetchAll", "scan"} ->
              /\ Return(s, Res("ok", {[name |-> m, value |-> kv[m].value,
                                       tags |-> kv[m].tags] :
                                      m \in {x \in Names : LiveEntry(kv[x])
                                                         /\ Hit(kv[x], calls[s].f)}}))
              /\ UNCHANGED kv
         [] calls[s].kind = "insert" ->
              IF kv[n] # None
              THEN Return(s, Res("Duplicate", None)) /\ UNCHANGED kv
              ELSE kv' = [kv EXCEPT ![n] = New(s)] /\ Return(s, Res("ok", None))
         [] calls[s].kind = "replace" ->
              IF kv[n] = None
              THEN Return(s, Res("NotFound", None)) /\ UNCHANGED kv
              ELSE kv' = [kv EXCEPT ![n] = New(s)] /\ Return(s, Res("ok", None))
         [] calls[s].kind = "remove" ->
              IF kv[n] = None
              THEN Return(s, Res("NotFound", None)) /\ UNCHANGED kv
              ELSE kv' = [kv EXCEPT ![n] = None] /\ Return(s, Res("ok", None))
         [] calls[s].kind = "removeAll" ->
              LET gone == {m \in Names : Hit(kv[m], calls[s].f)} IN
              /\ kv' = [m \in Names |-> IF m \in gone THEN None ELSE kv[m]]
              /\ Return(s, Res("ok", Cardinality(gone)))
    /\ UNCHANGED now

\* The database fails the call; nothing changes.
Fail(s) ==
    /\ calls[s].st = "pending"
    /\ Return(s, Res("Backend", None))
    /\ UNCHANGED <<kv, now>>

\* A scan that took effect ends in an error before its last page: the
\* consumer gets the error after the pages it read.
Break(s) ==
    /\ calls[s].st = "done" /\ calls[s].kind = "scan"
    /\ calls[s].res.code = "ok"
    /\ Return(s, Res("Backend", None))
    /\ UNCHANGED <<kv, now>>

\* The session is closed: the finished call is forgotten.
Forget(s) ==
    /\ calls[s].st \in {"done", "idle"}
    /\ calls' = [calls EXCEPT ![s] = Idle]
    /\ UNCHANGED <<kv, now>>

\* A pending call is abandoned (its future or its Scan dropped).
Cancel(s) ==
    /\ calls[s].st = "pending"
    /\ calls' = [calls EXCEPT ![s] = Idle]
    /\ UNCHANGED <<kv, now>>

Tick ==
    /\ now < MaxNow
    /\ now' = now + 1
    /\ UNCHANGED <<kv, calls>>

Next == Tick \/ \E s \in Sessions : Invoke(s) \/ Apply(s) \/ Fail(s) \/ Forget(s)
                                    \/ Cancel(s) \/ Break(s)

Spec == Init /\ [][Next]_<<kv, now, calls>>
==============================================================================
