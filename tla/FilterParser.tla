---------------------------- MODULE FilterParser ----------------------------
(***************************************************************************)
(* A filter becomes a WHERE clause and its binds, and the stages of a      *)
(* pipeline become a chain of queries, each over the one before:           *)
(*   Backend/src/utils/oracle-mongo-wrapper/parsers/filterParser.js        *)
(*   Backend/src/utils/oracle-mongo-wrapper/pipeline/aggregatePipeline.js  *)
(*                                                                         *)
(* A clause is a sequence of tokens, read the way Oracle reads it: NOT     *)
(* binds tighter than AND, AND than OR, and a comparison with NULL is      *)
(* unknown.  An operator is an atom here, so the ones that differ only in  *)
(* what they compare ($like, $regex, ...) are left out, and so are         *)
(* subqueries.  A row has two columns; of the stages, only a filter takes  *)
(* rows away, and none changes one.                                        *)
(***************************************************************************)
EXTENDS Naturals, SequencesExt

CONSTANTS
  InMax   \* ORACLE_IN_LIST_MAX, at least 1

Null    == 0
Columns == {"a", "b"}
Rows    == [Columns -> {Null, 1, 2}]

\* The truth values: AND is the least, OR the greatest.
No         == 0
Unknown    == 1
Yes        == 2
Negated(v) == 2 - v
Truth(p)   == IF p THEN Yes ELSE No

\* An entry of a filter: a column with its operators, or a logical operator
\* with its filters.  A filter has its entries in the order of the keys.
Field(col, ops)  == [key |-> col, ops |-> ops, subs |-> <<>>]
Logic(key, subs) == [key |-> key, ops |-> <<>>, subs |-> subs]
Op(op, vals)     == [op |-> op, vals |-> vals]

\* A stage of a pipeline; the $having that follows a $group moves into it.
Stage(kind, filter) == [kind |-> kind, filter |-> filter]

-----------------------------------------------------------------------------
(* parseFilter.  What is parsed keeps the tokens of each part, the binds   *)
(* so far and the counter from which bind names come.                      *)

Join(parts, word) ==
  IF parts = <<>> THEN <<>>
  ELSE FoldLeft(LAMBDA all, part : all \o <<<<word>>>> \o part, Head(parts), Tail(parts))

Parens(toks) == <<<<"(">>>> \o toks \o <<<<")">>>>

\* Parses items one after the other, each with the counter the last one left.
Each(Parse(_, _), items, n) ==
  FoldLeft(LAMBDA acc, item :
             LET one == Parse(item, acc.n)
             IN  [parts |-> Append(acc.parts, one.toks),
                  binds |-> one.binds @@ acc.binds, n |-> one.n],
           [parts |-> <<>>, binds |-> <<>>, n |-> n], items)

\* $in and $nin: lists of at most InMax binds.
Chunks(names) ==
  [i \in 1..((Len(names) + InMax - 1) \div InMax) |->
     SubSeq(names, (i - 1) * InMax + 1, Min({i * InMax, Len(names)}))]

\* Deviation: both kinds of lists are joined by OR.
ListWordOr(op) == "OR"

\* x IN p OR x IN q, but x NOT IN p AND x NOT IN q.
ListWord(op) == IF op = "$in" THEN "OR" ELSE "AND"

Lists(col, op, names) ==
  LET parts == [i \in DOMAIN Chunks(names) |-> <<<<op, col, Chunks(names)[i]>>>>]
  IN  CASE names = <<>>   -> <<<<IF op = "$in" THEN "1=0" ELSE "1=1">>>>
        [] Len(parts) = 1 -> parts[1]
        [] OTHER          -> Parens(Join(parts, ListWord(op)))

\* One operator of a column: a fresh name for each value.
ParseOp(col, o, n) ==
  LET names == [i \in DOMAIN o.vals |-> <<col, n + i - 1>>]
  IN  [toks  |-> IF o.op \in {"$in", "$nin"} THEN Lists(col, o.op, names)
                 ELSE <<<<o.op, col, names>>>>,
       binds |-> [name \in Range(names) |-> o.vals[name[2] - n + 1]],
       n     |-> n + Len(o.vals)]

ParseField(e, n) ==
  LET all == Each(LAMBDA o, m : ParseOp(e.key, o, m), e.ops, n)
  IN  [toks  |-> IF Len(all.parts) > 1 THEN Parens(Join(all.parts, "AND")) ELSE all.parts[1],
       binds |-> all.binds, n |-> all.n]

\* Deviation: NOT in front of what stands without parentheses.
BareLogic(key, parts) ==
  CASE key = "$and" -> Parens(Join(parts, "AND"))
    [] key = "$or"  -> Parens(Join(parts, "OR"))
    [] OTHER        -> <<<<"NOT">>>> \o Join(parts, "OR")

\* $nor is NOT (p OR q); $not has one part.
LogicToks(key, parts) ==
  CASE key = "$and" -> Parens(Join(parts, "AND"))
    [] key = "$or"  -> Parens(Join(parts, "OR"))
    [] OTHER        -> <<<<"NOT">>>> \o Parens(Join(parts, "OR"))

\* Deviation: a nested call makes a counter of its own.
OwnCounter(n) == 0

\* A nested call shares the counter of the call it is in.
Shared(n) == n

RECURSIVE ParseFilter(_, _)

ParseEntry(e, n) ==
  IF e.key \in Columns THEN ParseField(e, n)
  ELSE LET all == Each(LAMBDA sub, m : ParseFilter(sub, Shared(m)), e.subs, n)
       IN  [toks |-> LogicToks(e.key, all.parts), binds |-> all.binds, n |-> all.n]

ParseFilter(filter, n) ==
  LET all == Each(ParseEntry, filter, n)
  IN  [toks |-> Join(all.parts, "AND"), binds |-> all.binds, n |-> all.n]

-----------------------------------------------------------------------------
(* How Oracle reads a clause: a frame for each open parenthesis, with the  *)
(* value of the alternatives before, of the conjuncts so far, and whether  *)
(* a NOT is pending.                                                       *)

\* The value of a condition with the values of its binds.
Compare(op, v, vals) ==
  CASE op = "1=0"         -> No
    [] op = "1=1"         -> Yes
    [] op = "IS NULL"     -> Truth(v = Null)
    [] op = "IS NOT NULL" -> Truth(v # Null)
    [] v = Null \/ Null \in Range(vals) -> Unknown
    [] op = "$eq"         -> Truth(v = vals[1])
    [] op = "$ne"         -> Truth(v # vals[1])
    [] op = "$gte"        -> Truth(v >= vals[1])
    [] op = "$between"    -> Truth(vals[1] <= v /\ v <= vals[2])
    [] op = "$notBetween" -> Truth(v < vals[1] \/ vals[2] < v)
    [] op = "$in"         -> Truth(v \in Range(vals))
    [] op = "$nin"        -> Truth(v \notin Range(vals))

Atom(tok, row, binds) ==
  IF Len(tok) = 1 THEN Compare(tok[1], Null, <<>>)
  ELSE Compare(tok[1], row[tok[2]], [i \in DOMAIN tok[3] |-> binds[tok[3][i]]])

Frame   == [alt |-> No, conj |-> Yes, not |-> FALSE]
Ends(f) == Max({f.alt, f.conj})
Takes(f, v) == [f EXCEPT !.conj = Min({@, IF f.not THEN Negated(v) ELSE v}), !.not = FALSE]

\* A value goes to the frame it stands in; want: an operand is to come.
Feed(stack, v) == [frames |-> Append(Front(stack), Takes(Last(stack), v)), want |-> FALSE, bad |-> FALSE]
Bad(s)         == [s EXCEPT !.bad = TRUE]

Reads(s, tok, row, binds) ==
  LET top == Last(s.frames)
      Top(f, want) == [s EXCEPT !.frames = Append(Front(@), f), !.want = want]
  IN  CASE s.bad        -> s
        [] tok[1] = "(" -> IF s.want THEN [s EXCEPT !.frames = Append(@, Frame)] ELSE Bad(s)
        [] tok[1] = ")" -> IF s.want \/ Len(s.frames) = 1 THEN Bad(s)
                           ELSE Feed(Front(s.frames), Ends(top))
        [] tok[1] = "NOT" -> IF s.want THEN Top([top EXCEPT !.not = ~@], TRUE) ELSE Bad(s)
        [] tok[1] = "AND" -> IF s.want THEN Bad(s) ELSE Top(top, TRUE)
        [] tok[1] = "OR"  -> IF s.want THEN Bad(s)
                             ELSE Top([Frame EXCEPT !.alt = Ends(top)], TRUE)
        [] OTHER -> IF s.want THEN Feed(s.frames, Atom(tok, row, binds)) ELSE Bad(s)

Value(toks, row, binds) ==
  LET s == FoldLeft(LAMBDA acc, tok : Reads(acc, tok, row, binds),
                    [frames |-> <<Frame>>, want |-> TRUE, bad |-> FALSE], toks)
  IN  IF s.bad \/ s.want \/ Len(s.frames) # 1 THEN "syntax error" ELSE Ends(s.frames[1])

\* The clause takes the row; no clause takes every row.
Selects(toks, row, binds) == toks = <<>> \/ Value(toks, row, binds) = Yes

-----------------------------------------------------------------------------
(* buildAggregateSQL: one action for each kind of stage of its loop.       *)

VARIABLES
  asked,   \* the pipeline the caller passes
  stages,  \* the stages still to build
  ctes,    \* per query of the chain: its tokens
  binds,   \* allBinds
  count,   \* the counter of the call
  phase    \* "asked", "build" or "done"

vars == <<asked, stages, ctes, binds, count, phase>>

Follows(kind, built) == built # <<>> /\ Last(built).kind = kind

\* $having goes into the $group right before it.
Attached(pipeline) ==
  FoldLeft(LAMBDA built, s :
             IF s.kind = "$having" /\ Follows("$group", built)
             THEN Append(Front(built), Stage("$group", s.filter)) ELSE Append(built, s),
           <<>>, pipeline)

\* Deviation: the later $match takes the place of the earlier.
Replaced(p, q) == q

Both(p, q) == <<Logic("$and", <<p, q>>)>>

\* Adjacent $match stages become one.
Merged(pipeline) ==
  FoldLeft(LAMBDA built, s :
             IF s.kind = "$match" /\ Follows("$match", built)
             THEN Append(Front(built), Stage("$match", Both(Last(built).filter, s.filter)))
             ELSE Append(built, s),
           <<>>, pipeline)

Prepare ==
  /\ phase = "asked"
  /\ phase' = "build"
  /\ stages' = Merged(Attached(asked))
  /\ UNCHANGED <<asked, ctes, binds, count>>

Builds(kind) == phase = "build" /\ stages # <<>> /\ Head(stages).kind = kind

Query(toks, more) ==
  /\ ctes' = Append(ctes, toks)
  /\ binds' = more @@ binds
  /\ stages' = Tail(stages)
  /\ UNCHANGED <<asked, phase>>

\* parseFilter makes a counter of its own for each $match.
Match == Builds("$match") /\ LET one == ParseFilter(Head(stages).filter, 0) IN
  /\ Query(one.toks, one.binds)
  /\ UNCHANGED count

\* _buildGroup: each comparison of its $having takes a name of the counter.
Group == Builds("$group") /\
  LET Having(e, n) == [toks  |-> <<<<e.ops[1].op, e.key, <<<<"having", n>>>>>>>>,
                       binds |-> [name \in {<<"having", n>>} |-> e.ops[1].vals[1]], n |-> n + 1]
      all == Each(Having, Head(stages).filter, count)
  IN  Query(Join(all.parts, "AND"), all.binds) /\ count' = all.n

\* $project, $addFields, $bucket: a literal of theirs is bound.
Shape == Builds("$addFields") /\
  /\ Query(<<>>, [name \in {<<"expr", count>>} |-> 1])
  /\ count' = count + 1

\* $facet: the query of each of its pipelines, here one of a $match.
Facet == Builds("$facet") /\
  /\ Query(ParseFilter(Head(stages).filter, 0).toks, <<>>)
  /\ UNCHANGED count

\* An unknown stage is skipped, and so is a $having elsewhere.
Skip == Builds("$having") /\
  /\ stages' = Tail(stages)
  /\ UNCHANGED <<asked, ctes, binds, count, phase>>

Done ==
  /\ phase = "build" /\ stages = <<>>
  /\ phase' = "done"
  /\ UNCHANGED <<asked, stages, ctes, binds, count>>

-----------------------------------------------------------------------------
(* The pipelines asked for: one $match with any filter of up to three      *)
(* levels, or several stages with small filters.                           *)

OnA == {Op("$eq", <<1>>), Op("$ne", <<2>>), Op("$gte", <<2>>), Op("IS NULL", <<>>),
        Op("$in", <<>>), Op("$nin", <<>>), Op("$in", <<1, 2, 1>>), Op("$nin", <<1, 1, 2>>),
        Op("$between", <<1, 2>>), Op("$notBetween", <<2, 2>>)}

Simple == {<<Field("a", <<o>>)>> : o \in OnA}
Pairs  == {<<Field("a", <<o, Op("$nin", <<2>>)>>)>> : o \in OnA}
     \cup {<<Field("a", <<o>>), Field("b", <<Op("$eq", <<2>>)>>)>> : o \in OnA}
     \cup {<<Field("b", <<Op("$eq", <<2>>)>>), Field("a", <<o>>)>> : o \in OnA}

\* Logical operators over the filters of ps, and then of qs.
Over(ps, qs) == {<<Logic(key, <<p, q>>)>> : key \in {"$and", "$or", "$nor"}, p \in ps, q \in qs}
           \cup {<<Logic("$not", <<p>>)>> : p \in ps}

Few     == {<<Field("b", <<Op("$eq", <<2>>)>>)>>,
            <<Field("a", <<Op("$eq", <<1>>)>>), Field("b", <<Op("$ne", <<2>>)>>)>>}
Filters == Simple \cup Pairs \cup Over(Simple \cup Pairs, Few)
      \cup Over(Over(Few, Few), Few) \cup Over(Few, Over(Few, Few))
      \cup {p \o q : p \in Few, q \in Over(Few, Few)}

SmallStages ==
  {Stage("$match", <<Field(c, <<Op("$eq", <<v>>)>>)>>) : c \in Columns, v \in {1, 2}}
  \cup {Stage("$match", <<Logic("$or", <<<<Field("a", <<Op("$eq", <<1>>)>>)>>, <<Field("b", <<Op("IS NULL", <<>>)>>)>>>>)>>),
        Stage("$match", <<>>), Stage("$group", <<>>), Stage("$addFields", <<>>),
        Stage("$having", <<Field("a", <<Op("$gte", <<2>>)>>)>>),
        Stage("$facet", <<Field("a", <<Op("$eq", <<2>>)>>)>>)}

Pipelines == {<<Stage("$match", f)>> : f \in Filters} \cup UNION {[1..k -> SmallStages] : k \in 1..3}

Init ==
  /\ asked \in Pipelines
  /\ stages = <<>> /\ ctes = <<>> /\ binds = <<>> /\ count = 0
  /\ phase = "asked"

Next == Prepare \/ Match \/ Group \/ Shape \/ Facet \/ Skip \/ Done

Spec == Init /\ [][Next]_vars

-----------------------------------------------------------------------------
(* Properties.                                                             *)

\* What an operator and what a filter say of a row.
Holds(o, v) == IF o.vals = <<>> /\ o.op \in {"$in", "$nin"} THEN Truth(o.op = "$nin")
               ELSE Compare(o.op, v, o.vals)

RECURSIVE Meaning(_, _)
Meaning(filter, row) ==
  LET Says(e) ==
        IF e.key \in Columns THEN Min({Holds(o, row[e.key]) : o \in Range(e.ops)})
        ELSE LET subs == {Meaning(sub, row) : sub \in Range(e.subs)}
             IN  CASE e.key = "$and" -> Min(subs)
                   [] e.key = "$or"  -> Max(subs)
                   [] OTHER          -> Negated(Max(subs))
  IN  Min({Yes} \cup {Says(e) : e \in Range(filter)})

\* Every stage is where it is read: $having after its $group, no $facet.
WellPlaced == \A i \in DOMAIN asked :
  /\ asked[i].kind = "$having" => i > 1 /\ asked[i - 1].kind = "$group"
  /\ asked[i].kind # "$facet"

\* The pipelines that buildAggregateSQL gets right: once adjacent ones are
\* merged one $match at most, and no empty one merged.
Usual ==
  /\ WellPlaced
  /\ Len(SelectSeq(Merged(Attached(asked)), LAMBDA s : s.kind = "$match")) <= 1
  /\ \A i \in DOMAIN asked : asked[i] = Stage("$match", <<>>) =>
       \A j \in {i - 1, i + 1} \cap DOMAIN asked : asked[j].kind # "$match"

\* The query takes the rows that every filter of the pipeline takes: each
\* operator, each nesting and each list keeps its meaning under SQL's precedence
\* and its NULLs, and each name is bound to the value it stands for
\* (filterParser.js:220, semantics are identical; 537, reuse for recursive calls;
\* aggregatePipeline.js:123, merge adjacent $match stages).
QueryMeansPipeline == phase = "done" /\ Usual => \A row \in Rows :
  (\A i \in DOMAIN ctes : Selects(ctes[i], row, binds))
    <=> \A i \in DOMAIN asked : Meaning(asked[i].filter, row) = Yes

\* No value of a $match is overwritten under its name by a later stage: a call
\* has a counter "for unique bind variable names" (aggregatePipeline.js:77).
MatchesKeepTheirBinds == phase = "done" /\ WellPlaced =>
  \A s \in Range(Merged(Attached(asked))) : s.kind = "$match" =>
    LET own == ParseFilter(s.filter, 0).binds
    IN  \A name \in DOMAIN own : binds[name] = own[name]
=============================================================================
