------------------------------ MODULE SqlQuery ------------------------------
(* The query builder of sql_query.h for a model class: a chain of calls on   *)
(* objects that each hold a piece of statement text and hand it, with a      *)
(* suffix, to their members; the ends that run it; the answer of the server. *)
(*                                                                           *)
(* A text is a sequence of tokens: words, punctuation and single blanks.     *)
(* Words that the code always writes together are one token ("IS NULL").     *)
(* An object is named by its path from the SELECT object: calling a member   *)
(* again reaches the same object, and a method such as where() of a WhereCPO *)
(* makes a new one at the same place.                                        *)
EXTENDS Integers, FiniteSets, SequencesExt

CONSTANTS
    MaxCalls,   \* bound: calls of one chain, select() and from() included
    Conds,      \* the columns of conditions, one for each call: a sequence
    Selected,   \* what select() and pug() may name: sequences of columns
    Plain,      \* what groupBy() and the orderings may name: sequences of columns
    Tables,     \* what from() may name: a subset of {Table, FullTable}
    Own,        \* the params' own columns, in the order of their vector
    MaxRows,    \* bound: rows that the conditions of a statement select
    MaxEnded    \* bound: ends are run on chains of at most so many calls

VARIABLES
    soft,       \* MODEL::UseSoftDelete()
    obj,        \* the builder objects that were written, by path
    used,       \* paths of the objects that were called, and of clones
    cur,        \* the object that was called last
    calls,      \* calls made so far
    result      \* what the end did, or NoResult

vars == <<soft, obj, used, cur, calls, result>>

Table == "t"         \* from("t")
FullTable == "db.t"  \* from("db", "t")
Guard == "deleted_at"
NoResult == [op |-> "none"]

ASSUME QueryAssumption ==
    /\ MaxCalls \in Nat
    /\ Len(Conds) >= MaxCalls
    /\ MaxRows \in Nat /\ MaxEnded \in Nat
    /\ Tables \subseteq {Table, FullTable}
    /\ \A columns \in Plain \cup Selected : columns # <<>>

-----------------------------------------------------------------------------
(* The text operations of Query.                                             *)

EndsWith(text, part) == IsSuffix(part, text)

Chop(text, part) ==
    IF EndsWith(text, part) THEN SubSeq(text, 1, Len(text) - Len(part)) ELSE text

ChopIfEnded(text, check, part) ==
    IF EndsWith(text, check) THEN Chop(text, part) ELSE text

AppendIfNotEnded(text, check, part) ==
    IF EndsWith(text, check) THEN text ELSE text \o part

SpaceIfNotEnded(text) == AppendIfNotEnded(text, <<" ">>, <<" ">>)

Trimmed(text) ==
    LET words == {i \in DOMAIN text : text[i] # " "}
    IN  IF words = {} THEN <<>> ELSE SubSeq(text, Min(words), Max(words))

TrimmedSpace(text) == Trimmed(text) \o <<" ">>

Contained(text, word) == \E i \in DOMAIN text : text[i] = word

\* Comma-separated: each element is followed by a comma, the last one chopped.
Listed(text, elements) ==
    Chop(text \o FlattenSeq([i \in DOMAIN elements |-> <<" ", elements[i], ",">>]),
         <<",">>)

-----------------------------------------------------------------------------
(* The struct of each object: the members its operator() resets, with what   *)
(* it appends to their text, and the methods that build another object.      *)
(* A member that is not listed exists but is never reset: its text is empty. *)

And == <<" ", "AND", " ">>
AndWhere == <<" ", "AND", " ", "WHERE">>
OrWhereMark == <<" ", "OR", " ", "WHERE">>
Mark == [whereIn |-> "WHEREIN", whereNotIn |-> "WHERENOTIN",
         whereBetween |-> "WHEREBETWEEN", whereNotBetween |-> "WHERENOTBETWEEN",
         whereNull |-> "WHERENULL", whereNotNull |-> "WHERENOTNULL"]

Same(members) == [m \in members |-> <<>>]
Orderings == {"orderBy", "latest", "oldest"}
Closing == {"limit", "groupBy"} \cup Orderings

\* with: the members that are reset; loose: those that are not; calls: methods.
Struct(with, loose, methods) == [with |-> with, loose |-> loose, methods |-> methods]

OffsetStruct == Struct(Same({}), {}, {})
LimitStruct == Struct(Same({"offset"}), {}, {})
HavingStruct == Struct(Same({"limit"}), {}, {})
GroupByStruct == Struct(Same({"having", "limit"}), {}, {})
OrderByImplStruct == Struct(Same({"limit"}), {}, {})
OrderByStruct == Struct(Same({"asc", "desc", "limit"}), {}, {})
LatestStruct == Struct(Same({"asc", "desc", "limit"}), {}, {})
OldestStruct == Struct(Same({"asc", "desc", "limit"}), {}, {})

OrWhereStruct == Struct(Same(Closing), {}, {"where", "orWhere"} \cup DOMAIN Mark)
WhereStruct ==
    Struct(("orWhere" :> OrWhereMark) @@ Same(Closing), {}, {"where"} \cup DOMAIN Mark)
WhereInStruct == Struct(Same(Closing), {"where", "orWhere"}, DOMAIN Mark)
WhereNotInStruct ==
    Struct(Same({"limit", "orderBy"}), {"where", "orWhere"},
           DOMAIN Mark \ {"whereNull", "whereNotNull"})
WhereBetweenStruct == Struct(Same(Closing), {"where", "orWhere"}, DOMAIN Mark)
WhereNotBetweenStruct == Struct(Same(Closing), {"where", "orWhere"}, DOMAIN Mark)
WhereNullStruct ==
    Struct(("where" :> AndWhere) @@ ("orWhere" :> OrWhereMark) @@ Same(Closing), {},
           DOMAIN Mark \ {"whereIn"})
WhereNotNullStruct ==
    Struct(Same(Closing \cup {"where"}), {"orWhere"}, DOMAIN Mark \ {"whereIn"})
JoinStruct == Struct(Same(Closing \cup {"where"}), {"orWhere"}, {})
FromStruct ==
    Struct([m \in {"where"} \cup DOMAIN Mark |-> IF soft THEN <<"AND", " ">> ELSE <<>>]
               @@ Same(Closing \cup {"join"}), {}, {})
SelectStruct == Struct(Same({"from"}), {}, {"select"})
SelectAllStruct == Struct(Same({"from"}), {}, {})
PugStruct == Struct(Same({}), {}, {})

StructOf(kind) ==
    CASE kind = "select" -> SelectStruct   [] kind = "all" -> SelectAllStruct
      [] kind = "from" -> FromStruct       [] kind = "join" -> JoinStruct
      [] kind = "where" -> WhereStruct     [] kind = "orWhere" -> OrWhereStruct
      [] kind = "whereIn" -> WhereInStruct [] kind = "whereNotIn" -> WhereNotInStruct
      [] kind = "whereBetween" -> WhereBetweenStruct
      [] kind = "whereNotBetween" -> WhereNotBetweenStruct
      [] kind = "whereNull" -> WhereNullStruct
      [] kind = "whereNotNull" -> WhereNotNullStruct
      [] kind = "groupBy" -> GroupByStruct [] kind = "having" -> HavingStruct
      [] kind = "orderBy" -> OrderByStruct [] kind \in {"asc", "desc"} -> OrderByImplStruct
      [] kind = "latest" -> LatestStruct   [] kind = "oldest" -> OldestStruct
      [] kind = "limit" -> LimitStruct     [] kind = "offset" -> OffsetStruct
      [] kind = "pug" -> PugStruct

-----------------------------------------------------------------------------
(* Calls.  A statement under construction is its text; asked, the conditions *)
(* the caller has written as <<connective, column>>; trap, set when the chain *)
(* made a call that the code does not turn into a statement; and lost, set   *)
(* when a member without text was called.                                    *)
(*                                                                           *)
(* An object has its own draft, written at time set, and the draft that its  *)
(* ends and its members got when it was called, at time called (0: never).   *)
(* So the text of a member is its own if it was written after that, and      *)
(* otherwise what the call gave it: resets need no state of their own.       *)

Draft(text, asked, trap, lost) ==
    [text |-> text, asked |-> asked, trap |-> trap, lost |-> lost]
NoDraft == Draft(<<>>, <<>>, FALSE, FALSE)

Builder == "whereBuilder"   \* path element of the clone that whereBuilder() gives
KindOf(p) == IF Last(p) = Builder THEN "where" ELSE Last(p)
IsMethod(p, m) == m \in StructOf(KindOf(p)).methods

\* A method of the kind of its object works on that object; where() and
\* orWhere() always make a new one.
InPlace(p, m) == IsMethod(p, m) /\ m = KindOf(p) /\ m \in DOMAIN Mark
Target(p, m) == IF InPlace(p, m) THEN p ELSE Append(p, m)

\* What a method appends to the text before it calls the other operator().
\* (whereBetween() of a WhereBetweenCPO leaves out the last blank; trimmed()
\* makes that the same.)
Joined(p, m) ==
    LET text == obj[p].draft.text
    IN  CASE m = "where" /\ KindOf(p) = "where" ->
                AppendIfNotEnded(text, <<"WHERE", " ">>, AndWhere)
          [] m = "where" /\ KindOf(p) # "where" -> text \o AndWhere
          [] m = "orWhere" -> text \o OrWhereMark
          [] m = "select" -> text
          [] OTHER -> text \o And \o <<Mark[m], " ">>

\* The member was never reset, so that the chain before it is lost.
IsLoose(p, m) ==
    /\ ~IsMethod(p, m) /\ Append(p, m) \notin DOMAIN obj
    /\ m \in StructOf(KindOf(p)).loose \/ obj[p].called = 0

\* The member was written after its object was called last.
IsWritten(p, m) ==
    LET q == Append(p, m)
    IN  ~IsMethod(p, m) /\ q \in DOMAIN obj /\
        (m \in StructOf(KindOf(p)).loose \/ obj[q].set > obj[p].called)

\* The draft an operator() starts from.
Before(p, m) ==
    IF IsMethod(p, m) THEN [obj[p].draft EXCEPT !.text = Joined(p, m)]
    ELSE IF IsLoose(p, m) THEN [obj[p].draft EXCEPT !.text = <<>>]
    ELSE IF IsWritten(p, m) THEN obj[Append(p, m)].draft
    ELSE [obj[p].ends EXCEPT !.text = @ \o StructOf(KindOf(p)).with[m]]

\* Objects whose member or method m can be called: those already called.
Callable(m) ==
    {p \in used : LET s == StructOf(KindOf(p))
                  IN  m \in DOMAIN s.with \cup s.loose \cup s.methods}

\* Calls that the code accepts and does not turn into a statement: a member
\* that was never reset; a member called twice (an ordering adds a column,
\* having() adds nothing); where of a WhereNotNullCPO, which is reset without
\* " AND WHERE"; a join after the soft-delete condition; and anything but
\* where() on a text that whereBuilder() has ended with WHERE.
Misused(p, m) ==
    LET open == EndsWith(Before(p, m).text, <<"WHERE", " ">>)
        opened == EndsWith(obj[p].draft.text, <<"WHERE", " ">>)
    IN  \/ IsLoose(p, m)
        \/ IsWritten(p, m) /\ m \notin {"orderBy", "asc", "desc", "having"} /\ ~open
        \/ m = "where" /\ KindOf(p) = "whereNotNull"
        \/ m = "join" /\ soft
        \/ IsMethod(p, m) /\ m # "where" /\ opened

\* Operator m reached from object p has made text t out of Before(p, m).text.
\* Where the target is a new object, what was made from the one it replaces in
\* obj is no longer followed.
Call(p, m, t, asked, trap) ==
    LET q == Target(p, m)
        before == Before(p, m)
        draft == Draft(t, before.asked \o asked, before.trap \/ trap \/ Misused(p, m),
                       before.lost \/ IsLoose(p, m))
        dropped == {r \in DOMAIN obj :
                       IsMethod(p, m) /\ ~InPlace(p, m) /\ IsStrictPrefix(q, r)}
    IN  /\ calls' = calls + 1
        /\ cur' = q
        /\ used' = (used \ dropped) \cup {q}
        /\ obj' = (q :> [draft |-> draft, ends |-> draft, set |-> calls', called |-> calls'])
                      @@ [r \in DOMAIN obj \ dropped |-> obj[r]]
        /\ UNCHANGED <<soft, result>>

Cond == Conds[calls + 1]

-----------------------------------------------------------------------------
(* Starting a chain: SqlBuilder::select() and all(), then from().            *)

Init ==
    /\ soft \in BOOLEAN
    /\ obj = <<>>
    /\ used = {}
    /\ cur = <<>>
    /\ calls = 0
    /\ result = NoResult

Started(kind, text) ==
    /\ calls = 0
    /\ calls' = 1
    /\ used' = {<<kind>>}
    /\ cur' = <<kind>>
    /\ LET draft == Draft(text, <<>>, FALSE, FALSE)
       IN  obj' = <<kind>> :> [draft |-> draft, ends |-> draft, set |-> 1, called |-> 1]
    /\ UNCHANGED <<soft, result>>

SelectText(before, columns) ==
    LET t == Trimmed(before)
    IN  Listed(t \o (IF t = <<>> THEN <<"SELECT">> ELSE <<",">>), columns) \o <<" ">>

All == Started("all", <<"SELECT", " ", "*", " ">>)
Select ==
    \/ \E columns \in Selected : Started("select", SelectText(<<>>, columns))
    \/ \E p \in Callable("select"), columns \in Selected :
           Call(p, "select", SelectText(Joined(p, "select"), columns), <<>>, FALSE)

\* pug("t", "v"): the whole statement in one call.
Pug == \E columns \in Selected, table \in Tables :
    Started("pug", <<" ", "SELECT", " ", columns[1], " ", "FROM", " ", table>>)

\* Mutant: the condition on deleted_at is forgotten.
FromUnguarded ==
    \E p \in Callable("from"), table \in Tables :
        Call(p, "from",
             SpaceIfNotEnded(Before(p, "from").text) \o <<"FROM", " ", table, " ">>,
             IF soft THEN <<<<"AND", Guard>>>> ELSE <<>>, FALSE)
From ==
    \E p \in Callable("from"), table \in Tables :
        LET guarded == IF soft THEN <<"WHERE", " ", Guard, " ", "IS NULL", " ">> ELSE <<>>
        IN  Call(p, "from",
                 SpaceIfNotEnded(Before(p, "from").text) \o <<"FROM", " ", table, " ">> \o guarded,
                 IF soft THEN <<<<"AND", Guard>>>> ELSE <<>>, FALSE)

\* where of the FromCPO is left with a text that where() must follow with a
\* connective; a direct call of the member would not add one.
WhereBuilder ==
    \E p \in {q \in used : Last(q) = "from"} :
        LET member == Append(p, "where")
            clone == Append(p, Builder)
            text == IF soft THEN ChopIfEnded(obj[p].draft.text, <<"AND", " ">>, <<>>)
                    ELSE AppendIfNotEnded(obj[p].draft.text, <<"WHERE", " ">>, <<"WHERE", " ">>)
            old == IF member \in DOMAIN obj THEN obj[member]
                   ELSE [ends |-> NoDraft, called |-> 0]
            where == [draft |-> [obj[p].draft EXCEPT !.text = text], ends |-> old.ends,
                      set |-> calls', called |-> old.called]
            Moved(r, from, to) == to \o SubSeq(r, Len(from) + 1, Len(r))
            copies == {Moved(r, member, clone) :
                          r \in {x \in DOMAIN obj : IsStrictPrefix(member, x)}}
        IN  /\ calls' = calls + 1
            /\ cur' = clone
            /\ used' = {r \in used : ~IsStrictPrefix(clone, r)} \cup {clone} \cup
                            {c \in copies : Moved(c, clone, member) \in used}
            /\ obj' = (clone :> where) @@ (member :> where)
                          @@ [c \in copies |-> obj[Moved(c, clone, member)]]
                          @@ [r \in {x \in DOMAIN obj : ~IsStrictPrefix(clone, x)} |-> obj[r]]
            /\ UNCHANGED <<soft, result>>

-----------------------------------------------------------------------------
(* Conditions.                                                               *)

\* Mutant: the connective that a method appended is not merged.
WhereTextUnmerged(before, column) ==
    AppendIfNotEnded(TrimmedSpace(before), <<"WHERE", " ">>, <<"WHERE", " ">>)
        \o <<column, "='v'">>
WhereText(before, column) ==
    ChopIfEnded(AppendIfNotEnded(TrimmedSpace(before), <<"WHERE", " ">>, <<"WHERE", " ">>),
                <<"AND", " ", "WHERE", " ">>, <<"WHERE", " ">>) \o <<column, "='v'">>

Where == \E p \in Callable("where") :
    Call(p, "where", WhereText(Before(p, "where").text, Cond), <<<<"AND", Cond>>>>, FALSE)

OrWhereText(before, column) ==
    ChopIfEnded(AppendIfNotEnded(TrimmedSpace(before), <<"WHERE", " ">>, <<"WHERE", " ">>),
                <<"OR", " ", "WHERE", " ">>, <<"WHERE", " ">>) \o <<column, "='v'">>

OrWhere == \E p \in Callable("orWhere") :
    Call(p, "orWhere", OrWhereText(Before(p, "orWhere").text, Cond), <<<<"OR", Cond>>>>, FALSE)

\* The part that the six other conditions have in common: the mark is chopped,
\* and WHERE is written unless the text ends in a connective.
Connected(before, mark) ==
    LET t == ChopIfEnded(TrimmedSpace(before), And \o <<mark, " ">>, <<mark, " ">>)
    IN  AppendIfNotEnded(t, And, <<"WHERE">>) \o <<" ">>

Condition(m, rest, trap) ==
    \E p \in Callable(m) :
        Call(p, m, Connected(Before(p, m).text, Mark[m]) \o <<Cond>> \o rest,
             <<<<"AND", Cond>>>>, trap)

InList(values) == Listed(<<"(">>, values) \o <<" ", ")">>

WhereIn == \E values \in {<<>>, <<"'v'", "'w'">>} :
    Condition("whereIn", <<" ", "IN", " ">> \o InList(values), values = <<>>)
WhereNotIn == \E values \in {<<>>, <<"'v'", "'w'">>} :
    Condition("whereNotIn", <<" ", "NOT IN", " ">> \o InList(values), values = <<>>)
WhereBetween == Condition("whereBetween", <<" ", "BETWEEN 'v' AND 'w'">>, FALSE)
WhereNotBetween == Condition("whereNotBetween", <<" ", "NOT BETWEEN 'v' AND 'w'">>, FALSE)
WhereNull == Condition("whereNull", <<" ", "IS NULL", " ">>, FALSE)
WhereNotNull == Condition("whereNotNull", <<" ", "IS NOT NULL", " ">>, FALSE)

-----------------------------------------------------------------------------
(* Joins, grouping, ordering, limits.                                        *)

Plainly(m, Text(_), trap) ==
    \E p \in Callable(m) : Call(p, m, Text(Before(p, m).text), <<>>, trap)

Join == Plainly("join", LAMBDA t : TrimmedSpace(t) \o
                            <<"JOIN", " ", "u", " ", "ON", " ", "t.k", " ", "=", " ", "u.k">>,
                FALSE)

GroupBy == \E columns \in Plain :
    Plainly("groupBy", LAMBDA t : Listed(TrimmedSpace(t) \o <<"GROUP BY">>, columns) \o <<" ">>,
            FALSE)

\* The condition is dropped: /*** implement here ***/.
Having == Plainly("having", LAMBDA t : t, FALSE)

OrderBy == \E columns \in Plain, order \in {"ASC", "DESC"} :
    LET Column(t, column) ==
            (IF Contained(t, "ORDER BY") THEN t \o <<",", " ">>
             ELSE SpaceIfNotEnded(t) \o <<"ORDER BY", " ">>) \o <<column, " ", order>>
    IN  Plainly("orderBy", LAMBDA t : FoldLeft(Column, t, columns), FALSE)

OrderByImplText(before, order) ==
    LET t == Chop(Chop(SpaceIfNotEnded(Trimmed(before)), <<"ASC", " ">>), <<"DESC", " ">>)
    IN  AppendIfNotEnded(t, <<order, " ">>, <<order, " ">>)

Asc == Plainly("asc", LAMBDA t : OrderByImplText(t, "ASC"), FALSE)
Desc == Plainly("desc", LAMBDA t : OrderByImplText(t, "DESC"), FALSE)

\* Every further column starts another ORDER BY.
Ordered(before, columns, order) ==
    FoldLeft(LAMBDA t, column :
                 SpaceIfNotEnded(t) \o <<"ORDER BY", " ", column, " ", order>>,
             before, columns)

Latest == \E columns \in Plain :
    Plainly("latest", LAMBDA t : Ordered(t, columns, "ASC"), Len(columns) > 1)
Oldest == \E columns \in Plain :
    Plainly("oldest", LAMBDA t : Ordered(t, columns, "DESC"), Len(columns) > 1)

Limit == Plainly("limit", LAMBDA t : SpaceIfNotEnded(t) \o <<"LIMIT", " ", "1">>, FALSE)
Offset == Plainly("offset", LAMBDA t : SpaceIfNotEnded(t) \o <<"OFFSET", " ", "1">>, FALSE)

-----------------------------------------------------------------------------
(* What the server accepts: an automaton over the words of a statement, for  *)
(* SELECT and UPDATE, and no two bare words without a blank between them.    *)

Columns == Range(Conds) \cup UNION {Range(c) : c \in Plain \cup Selected}

Class(word) ==
    CASE word \in Columns -> "column"
      [] word \in {Table, FullTable, "u"} -> "table"
      [] word \in {"t.k", "u.k"} -> "key"
      [] word \in {"'v'", "'w'"} -> "value"
      [] word \in Range(Own) -> "assignment"
      [] word \in {"AND", "OR"} -> "connective"
      [] word \in {"IN", "NOT IN"} -> "in"
      [] word \in {"='v'", "IS NULL", "IS NOT NULL", "BETWEEN 'v' AND 'w'",
                   "NOT BETWEEN 'v' AND 'w'"} -> "test"
      [] word \in {"ASC", "DESC"} -> "order"
      [] OTHER -> word

\* state, class of the next word, next state
Grammar == {
    <<"start", "SELECT", "columns">>, <<"columns", "*", "chosen">>,
    <<"columns", "COUNT(*)", "chosen">>, <<"columns", "column", "named">>,
    <<"named", ",", "another">>, <<"another", "column", "named">>,
    <<"named", "FROM", "from">>, <<"chosen", "FROM", "from">>, <<"from", "table", "table">>,
    <<"table", "JOIN", "join">>, <<"join", "table", "joined">>, <<"joined", "ON", "on">>,
    <<"on", "key", "left">>, <<"left", "=", "right">>, <<"right", "key", "table">>,
    <<"start", "UPDATE", "update">>, <<"update", "table", "updated">>,
    <<"updated", "SET", "set">>, <<"set", "assignment", "assigned">>,
    <<"assigned", ",", "set">>, <<"assigned", "WHERE", "where">>,
    <<"table", "WHERE", "where">>, <<"where", "column", "subject">>,
    <<"where", Guard, "subject">>, <<"subject", "test", "condition">>,
    <<"subject", "in", "in">>, <<"in", "(", "values">>, <<"values", "value", "value">>,
    <<"value", ",", "values">>, <<"value", ")", "condition">>,
    <<"condition", "connective", "where">>,
    <<"group", "column", "grouped">>, <<"grouped", ",", "group">>,
    <<"order", "column", "ordered">>, <<"ordered", "order", "directed">>,
    <<"directed", ",", "order">>, <<"ordered", ",", "order">>,
    <<"limit", "1", "limited">>, <<"limited", "OFFSET", "offset">>, <<"offset", "1", "offsetted">>}
    \cup {<<s, "GROUP BY", "group">> : s \in {"table", "condition"}}
    \cup {<<s, "ORDER BY", "order">> :
             s \in {"table", "condition", "grouped", "assigned"}}
    \cup {<<s, "LIMIT", "limit">> :
             s \in {"table", "condition", "grouped", "ordered", "directed", "assigned"}}

Accepting == {"table", "condition", "grouped", "ordered", "directed", "limited",
              "offsetted", "assigned"}

Step(state, word) ==
    LET class == Class(word)
        next == {g \in Grammar : g[1] = state /\ g[2] = class}
    IN  IF next = {} THEN "refused" ELSE (CHOOSE g \in next : TRUE)[3]

Words(text) == SelectSeq(text, LAMBDA w : w # " ")
Bare == {"SELECT", "FROM", "WHERE", "AND", "OR", "JOIN", "ON", "u.k", "IS NULL",
         "IS NOT NULL", "GROUP BY", "ORDER BY", "ASC", "DESC", "LIMIT", "OFFSET", "1", "SET"}
Glued(text) == \E i \in 1 .. Len(text) - 1 : text[i] \in Bare /\ text[i + 1] \in Bare

\* A single-table UPDATE has neither GROUP BY nor OFFSET.
Parses(text) ==
    /\ FoldLeft(Step, "start", Words(text)) \in Accepting
    /\ ~Glued(text)
    /\ Contained(text, "UPDATE") => ~Contained(text, "GROUP BY") /\ ~Contained(text, "OFFSET")

HasEnds == cur # <<>> /\ Last(cur) \notin {"all", "select"}

-----------------------------------------------------------------------------
(* The ends.  The server is down or finds the given number of rows (groups)  *)
(* for the conditions of a statement it accepts.                             *)


Shown(text, rows) ==
    IF Contained(text, "OFFSET") THEN (IF rows > 1 THEN 1 ELSE 0)
    ELSE IF Contained(text, "LIMIT") THEN Min({rows, 1}) ELSE rows

CountText(ends) ==
    LET t == Trimmed(ends)
        froms == {i \in DOMAIN t : t[i] = "FROM"}
    IN  IF t # <<>> /\ t[1] = "SELECT" /\ froms # {}
        THEN <<"SELECT", " ", "COUNT(*)", " ">> \o SubSeq(t, Min(froms), Len(t)) ELSE t

ExistsText(ends) == Trimmed(ends) \o <<"LIMIT", " ", "1">>

\* set: the own columns that are valid and not defaulted.
AssignmentsAlways(set) ==   \* mutant: a comma behind the last one, too
    FlattenSeq([i \in DOMAIN Own |->
        IF Own[i] \in set THEN <<Own[i], " ", ",", " ">> ELSE <<>>])
Assignments(set) ==
    FlattenSeq([i \in DOMAIN Own |->
        IF Own[i] \notin set THEN <<>>
        ELSE <<Own[i], " ">> \o (IF i = Len(Own) THEN <<>> ELSE <<",", " ">>)])

\* The conditions follow "FROM `db`.`t` "; without it mid() starts near the
\* table name's length, whatever is there: nothing, or the end of a word.
FromAt(ends) == {i \in DOMAIN ends : i + 3 \in DOMAIN ends /\
                    SubSeq(ends, i, i + 3) = <<"FROM", " ", FullTable, " ">>}
AfterFromNothing(ends) == {<<>>}   \* mutant: the conditions are not appended
AfterFrom(ends) ==
    IF FromAt(ends) = {} THEN {<<>>, <<"rest">>}
    ELSE {SubSeq(ends, Min(FromAt(ends)) + 4, Len(ends))}

UpdateTexts(ends, set) ==
    {<<"UPDATE", " ", FullTable, " ", "SET", " ">> \o Assignments(set) \o rest :
        rest \in AfterFrom(ends)}

\* An end reads only what its object was given when it was last called, so it
\* is run then, and a chain whose end has been run is not continued.
Ending == obj[cur].ends.text

End(op, text, up, rows, more) ==
    /\ result' = [op |-> op, text |-> text, up |-> up, rows |-> rows] @@ more
    /\ UNCHANGED <<soft, obj, used, cur, calls>>

Runs(text, up) == up /\ Parses(text)
Servers == {s \in [up : BOOLEAN, rows : 0 .. MaxRows] : s.up \/ s.rows = 0}

Get == \E s \in Servers :
    LET text == Ending
    IN  End("get", text, s.up, s.rows,
            [got |-> IF Runs(text, s.up) THEN Shown(text, s.rows) ELSE 0])

\* hit: retriveFromCache() gave a model; it is asked only with a connection.
Found(text, s, hit) ==
    text # <<>> /\ s.up /\ (hit \/ (Parses(text) /\ Shown(text, s.rows) > 0))

First == \E s \in Servers, hit \in BOOLEAN :
    LET text == Ending
    IN  (hit => s.up) /\ End("first", text, s.up, s.rows,
                             [hit |-> hit, found |-> Found(text, s, hit)])

\* isEmpty() of a model is true when it has data.
FirstOrFail == \E s \in Servers, hit \in BOOLEAN :
    LET found == Found(Ending, s, hit)
    IN  (hit => s.up) /\ End("firstOrFail", Ending, s.up, s.rows,
                             [hit |-> hit, found |-> found, thrown |-> found])

\* Only the first record is marked for deletion.
DeleteLater == \E s \in Servers, hit \in BOOLEAN :
    LET found == Found(Ending, s, hit)
    IN  (hit => s.up) /\ End("deleteLater", Ending, s.up, s.rows,
                             [hit |-> hit, deleted |-> IF found THEN 1 ELSE 0])

\* A grouped count answers the size of the first group.
Count == \E s \in Servers :
    LET text == CountText(Ending)
    IN  \E counted \in (IF ~Runs(text, s.up) \/ Contained(text, "OFFSET") THEN {0}
                        ELSE IF Contained(text, "GROUP BY") /\ s.rows > 0 THEN 1 .. MaxRows
                        ELSE {s.rows}) :
            End("count", text, s.up, s.rows, [counted |-> counted])

Exists == \E s \in Servers :
    LET text == ExistsText(Ending)
    IN  End("exists", text, s.up, s.rows,
            [is |-> Runs(text, s.up) /\ Shown(text, s.rows) > 0])

DoesNotExist == \E s \in Servers :
    LET text == ExistsText(Ending)
    IN  End("doesNotExist", text, s.up, s.rows,
            [is |-> ~(Runs(text, s.up) /\ Shown(text, s.rows) > 0)])

Update == \E s \in Servers, set \in SUBSET Range(Own) :
    \E text \in UpdateTexts(Ending, set) :
        End("update", text, s.up, s.rows,
            [set |-> set, changed |-> IF Runs(text, s.up) THEN Shown(text, s.rows) ELSE 0])

\* TRUNCATE names the table only: the conditions of the chain are not used.
Truncate == \E up \in BOOLEAN :
    End("truncate", <<"TRUNCATE TABLE", " ", FullTable>>, up, 0, [cleared |-> up])

\* where(params) and the query of firstOrCreate(params): whereBuilder() and one
\* where() per own column that is valid and not defaulted.  Without such a
\* column the ends and members of the clone have no text.
ParamsTextLast(columns) ==   \* mutant: builder keeps the last condition only
    IF columns = <<>> THEN <<>>
    ELSE WhereText(<<"SELECT", " ", "*", " ", "FROM", " ", FullTable, " ">> \o
                   (IF soft THEN <<"WHERE", " ", Guard, " ", "IS NULL">> \o AndWhere
                    ELSE <<"WHERE", " ">>), Last(columns))
ParamsText(columns) ==
    LET from == <<"SELECT", " ", "*", " ", "FROM", " ", FullTable, " ">>
        base == IF soft THEN from \o <<"WHERE", " ", Guard, " ", "IS NULL", " ">>
                ELSE AppendIfNotEnded(from, <<"WHERE", " ">>, <<"WHERE", " ">>)
        Add(t, column) == WhereText(AppendIfNotEnded(t, <<"WHERE", " ">>, AndWhere), column)
    IN  IF columns = <<>> THEN <<>> ELSE FoldLeft(Add, base, columns)

OfParams == \E n \in 0 .. Len(Own), op \in {"whereParams", "firstOrCreate"} :
    LET columns == SubSeq(Conds, 1, n)
        text == ParamsText(columns)
    IN  /\ calls = 0 /\ result = NoResult
        /\ result' = [op |-> op, columns |-> columns,
                      text |-> IF op = "whereParams" THEN text
                               ELSE SpaceIfNotEnded(text) \o <<"LIMIT", " ", "1">>]
        /\ UNCHANGED <<soft, obj, used, cur, calls>>

-----------------------------------------------------------------------------
Chain ==
    /\ result = NoResult /\ calls < MaxCalls
    /\ \/ All \/ Select \/ Pug \/ From \/ WhereBuilder \/ Join
       \/ Where \/ OrWhere \/ WhereIn \/ WhereNotIn \/ WhereBetween \/ WhereNotBetween
       \/ WhereNull \/ WhereNotNull
       \/ GroupBy \/ Having \/ OrderBy \/ Asc \/ Desc \/ Latest \/ Oldest \/ Limit \/ Offset

Ends ==
    /\ result = NoResult /\ HasEnds /\ calls <= MaxEnded
    /\ \/ Get \/ First \/ FirstOrFail \/ DeleteLater \/ Count \/ Exists \/ DoesNotExist
       \/ Update \/ Truncate

Next == Chain \/ Ends \/ OfParams

Spec == Init /\ [][Next]_vars

-----------------------------------------------------------------------------
(* Properties.                                                               *)

\* A chain that made none of the listed misuses gives a statement the server
\* accepts, whatever the order of its calls and whichever object of the chain
\* they go back to.
SoundChainsParse ==
    HasEnds /\ result = NoResult => LET e == obj[cur].ends
               IN  ~e.trap /\ e.text # <<>> => Parses(e.text)

\* The conditions of a statement, with what joins each to those before it.
Conditions(text) ==
    LET w == Words(text)
        at == SelectSeq([i \in DOMAIN w |-> i],
                        LAMBDA i : i > 1 /\ w[i - 1] \in {"WHERE", "AND", "OR"})
    IN  [k \in DOMAIN at |-> <<w[at[k] - 1], w[at[k]]>>]

Expected(asked) ==
    [k \in DOMAIN asked |-> IF k = 1 THEN <<"WHERE", asked[1][2]>> ELSE asked[k]]

\* Whatever calls a program makes, misused ones included: a statement that the
\* server accepts has exactly the conditions asked for, in that order and with
\* the connectives asked for, behind the condition on deleted_at when the model
\* uses soft deletion.  No wrong chain selects other rows: it is refused.
AcceptedMeansAsked ==
    HasEnds /\ result = NoResult => LET e == obj[cur].ends
               IN  Parses(e.text) => Conditions(e.text) = Expected(e.asked)

\* An UPDATE that the server accepts is restricted to what the chain asked for,
\* whatever was called, once from() has named the database and the table, and
\* named them once.  Otherwise, and behind a member that was never reset, the
\* conditions are cut off and it may be applied to every row.
UpdateKeepsConditions ==
    result.op = "update" /\ Parses(result.text) =>
        LET ends == obj[cur].ends
            from == {i \in DOMAIN ends.text : ends.text[i] = "FROM"}
        IN  \/ Conditions(result.text) = Expected(ends.asked)
            \/ ends.lost \/ FromAt(ends.text) = {} \/ Cardinality(from) > 1

\* Which ends of a sound chain the server accepts: exists() and doesNotExist()
\* only behind a quoted word and no other limit (their LIMIT is glued to the
\* text), update() only when the last own column is set and no clause is there
\* that UPDATE does not have.
EndFits ==
    LET t == Trimmed(obj[cur].ends.text)
    IN  CASE result.op \in {"exists", "doesNotExist"} ->
                t # <<>> /\ Last(t) \notin Bare
          [] result.op = "update" ->
                /\ Own # <<>> /\ Last(Own) \in result.set
                /\ \A w \in {"GROUP BY", "OFFSET", "JOIN"} : ~Contained(t, w)
          [] OTHER -> t # <<>>

EndsOfSoundChains ==
    /\ result.op \in {"get", "first", "count", "exists", "doesNotExist", "update"}
    /\ ~obj[cur].ends.trap
    /\ result.op = "update" => FromAt(obj[cur].ends.text) # {}
    => (Parses(result.text) <=> EndFits)

\* A query made of params asks for all of their columns, for the undeleted rows;
\* made of no column it is refused instead of selecting every row.
ParamsAskForAll ==
    result.op \in {"whereParams", "firstOrCreate"} =>
        IF result.columns = <<>> THEN ~Parses(result.text)
        ELSE /\ Parses(result.text)
             /\ Conditions(result.text) =
                    Expected((IF soft THEN <<<<"AND", Guard>>>> ELSE <<>>) \o
                             [k \in DOMAIN result.columns |-> <<"AND", result.columns[k]>>])
=============================================================================
