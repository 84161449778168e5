---------------------------- MODULE Placeholders ----------------------------
(***************************************************************************)
(* Bind-parameter placeholders: replace_arg_placeholders (db_utils, not in *)
(* src/, modelled from spec 4.5), PostgresStore::placeholder and          *)
(* PostgresStore::limit_query (src/src/postgres/mod.rs).  A query string   *)
(* is taken as its tokens: literal SQL text (Lit, or the keywords LIMIT   *)
(* and OFFSET: LimitKw, OffsetKw), the abstract placeholder $$ (DD), and a *)
(* numbered placeholder $N, the number N.  placeholder(i) renders $i: the  *)
(* token i.                                                                *)
(***************************************************************************)
EXTENDS Naturals, Sequences, SequencesExt

CONSTANTS
    DD,          \* the abstract placeholder $$
    Lit,         \* a piece of literal SQL text
    LimitKw,     \* the text " LIMIT "
    OffsetKw,    \* the text " OFFSET "
    None,        \* Option::None
    MaxLen,      \* bound on the length of a base query, in tokens
    MaxArgs,     \* bound on the parameters bound before limit_query
    ArgValues,   \* values of bound parameters
    Offsets,     \* values offset may take (None among them)
    Limits       \* values limit may take (None among them)

Text    == {Lit, LimitKw, OffsetKw}
IsNum(t) == t \notin Text \cup {DD}

\* replace_arg_placeholders(s, start): walking the tokens with the next
\* index, a $$ becomes placeholder(index), a $N becomes placeholder(N +
\* start - 1), and either advances the index; text is copied.
RECURSIVE ReplaceFrom(_, _, _)
ReplaceFrom(toks, start, index) ==
    IF toks = <<>> THEN <<>>
    ELSE LET t == Head(toks)
             r == CASE t = DD    -> index
                    [] IsNum(t)  -> t + start - 1
                    [] OTHER     -> t
             next == IF t = DD \/ IsNum(t) THEN index + 1 ELSE index
         IN  <<r>> \o ReplaceFrom(Tail(toks), start, next)

ReplaceArgPlaceholders(toks, start) == ReplaceFrom(toks, start, start)

\* Mutation: last_idx is args.len(), one short.
LastIdxShort(nargs) == nargs

\* let last_idx = (args.len() + 1) as i64
LastIdx(nargs) == nargs + 1

\* limit_query(query, args, offset, limit): when either is given, push
\* limit and offset.unwrap_or(0) and append " LIMIT $$ OFFSET $$" with its
\* placeholders numbered from last_idx.  The result: <<query, args>>.
LimitQuery(query, args, offset, limit) ==
    IF offset # None \/ limit # None
    THEN <<query \o ReplaceArgPlaceholders(<<LimitKw, DD, OffsetKw, DD>>,
                                           LastIdx(Len(args))),
           args \o <<limit, IF offset = None THEN 0 ELSE offset>>>>
    ELSE <<query, args>>

VARIABLES
    q,       \* the query limit_query was given, with its placeholders numbered
    args,    \* the parameters bound so far
    off,     \* offset argument
    lim,     \* limit argument
    out      \* what limit_query returned: <<query, args>>

vars == <<q, args, off, lim, out>>

\* Base queries whose placeholders are numbered $1..$Len(args), as the
\* filter compiler and the base queries of section 6 produce them.
BaseQueries(n) ==
    {s \in BoundedSeq({Lit} \cup 1..n, MaxLen) :
        \A j \in 1..n : \E i \in DOMAIN s : s[i] = j}

\* One call of limit_query with arguments chosen from the bounded sets.
Call ==
    \E n \in 0..MaxArgs, o \in Offsets, l \in Limits :
      \E a \in [1..n -> ArgValues] :
        \E s \in BaseQueries(n) :
             /\ q' = s /\ args' = a /\ off' = o /\ lim' = l
             /\ out' = LimitQuery(s, a, o, l)

InitLimit == /\ q = <<>> /\ args = <<>> /\ off = None /\ lim = None
             /\ out = LimitQuery(<<>>, <<>>, None, None)

Init == InitLimit

Next == Call

Spec == Init /\ [][Next]_vars
(***************************************************************************)
(* Properties                                                              *)
(***************************************************************************)
TypeOK ==
    /\ q \in Seq(Text \cup Nat) /\ args \in Seq(ArgValues \cup Offsets \cup Limits)
    /\ off \in Offsets /\ lim \in Limits

\* The query limit_query returns binds exactly its parameters: every
\* placeholder names a pushed parameter, every parameter is named, the one
\* after LIMIT is the limit and the one after OFFSET is offset or 0.
LimitBindsMatch ==
    LET oq == out[1]
        oa == out[2]
        after(kw) == {oq[i + 1] : i \in {j \in 1..(Len(oq) - 1) : oq[j] = kw}}
    IN  /\ \A i \in DOMAIN oq : IsNum(oq[i]) => oq[i] \in 1..Len(oa)
        /\ \A j \in 1..Len(oa) : \E i \in DOMAIN oq : oq[i] = j
        /\ \A k \in after(LimitKw)  : oa[k] = lim
        /\ \A k \in after(OffsetKw) : oa[k] = IF off = None THEN 0 ELSE off
==============================================================================
