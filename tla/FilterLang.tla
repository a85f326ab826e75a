----------------------------- MODULE FilterLang -----------------------------
(***************************************************************************)
(* The filters of the lists: their syntax tree, the language a user types  *)
(* them in, and the SQL condition the server makes of them.                *)
(*                                                                         *)
(* A text is a sequence of tokens.  Free text is one of four words, one    *)
(* for each way of being spelled: a plain one, one that has to be quoted,  *)
(* the reserved word or, and one that begins with a reserved word.  A      *)
(* field with its list of values is one token: values are never taken for  *)
(* keywords.                                                               *)
(***************************************************************************)
EXTENDS Integers, Sequences

InNode(f, vs) == [type |-> "in", field |-> f, values |-> vs]
TextNode(v) == [type |-> "text", value |-> v]
AndNode(cs) == [type |-> "and", children |-> cs]
OrNode(cs) == [type |-> "or", children |-> cs]
NotNode(c) == [type |-> "not", child |-> c]
EmptyAnd == AndNode(<<>>)

IsEmpty(ast) ==
    CASE ast.type \in {"and", "or"} -> ast.children = <<>>
      [] ast.type = "in" -> ast.values = <<>>
      [] ast.type = "text" -> ast.value = ""
      [] OTHER -> FALSE

RECURSIVE Nodes(_)
Nodes(ast) == {ast} \cup
    CASE ast.type \in {"and", "or"} -> UNION {Nodes(ast.children[i]) : i \in DOMAIN ast.children}
      [] ast.type = "not" -> Nodes(ast.child)
      [] OTHER -> {}

(***************************************************************************)
(* Tokens and how text is written.                                         *)
(***************************************************************************)
Sign(k) == [k |-> k]
Keyword == {"AND", "OR", "NOT"}
Word(v) == [k |-> "text", v |-> v]
Field(f, vs) == [k |-> "in", f |-> f, vs |-> vs]

\* What a word without quotes is read as: keywords are recognised in either case.
Bare(v) == CASE v = "or" -> <<Sign("OR")>>
             [] v = "not-solved" -> <<Sign("NOT"), Sign("-"), Word("solved")>>
             [] OTHER -> <<Word(v)>>
NeedsQuote(v) == v \in {"two words", "-solved", ""}
QuoteText(v) == IF NeedsQuote(v) THEN <<Word(v)>> ELSE Bare(v)

PrecSwapped == [and |-> 1, or |-> 2, not |-> 3]
Prec == [or |-> 1, and |-> 2, not |-> 3]
InParens(s) == <<Sign("(")>> \o s \o <<Sign(")")>>

RECURSIVE SerializeNode(_, _), Joined(_, _, _)
Joined(cs, sep, prec) ==
    IF cs = <<>> THEN <<>>
    ELSE SerializeNode(Head(cs), prec)
         \o (IF Len(cs) = 1 THEN <<>> ELSE sep \o Joined(Tail(cs), sep, prec))
SerializeNode(ast, parent) ==
    CASE ast.type = "in" -> <<Field(ast.field, ast.values)>>
      [] ast.type = "text" -> QuoteText(ast.value)
      [] ast.type = "not" ->
            <<Sign(IF ast.child.type \in {"in", "text"} THEN "-" ELSE "NOT")>>
            \o SerializeNode(ast.child, Prec.not)
      [] OTHER ->
            LET body == Joined(ast.children, IF ast.type = "or" THEN <<Sign("OR")>> ELSE <<>>,
                               Prec[ast.type])
            IN  IF parent > Prec[ast.type] /\ body # <<>> THEN InParens(body) ELSE body
Serialize(ast) == SerializeNode(ast, 0)

(***************************************************************************)
(* The parser.  It goes on after an error, and it does not come back from  *)
(* a place where a term is read again and again without being consumed.    *)
(***************************************************************************)
At(s, k) == s # <<>> /\ Head(s).k = k
Parsed(ast, rest, err) == [ast |-> ast, rest |-> rest, err |-> err, hangs |-> FALSE]
Hangs == [ast |-> EmptyAnd, rest |-> <<>>, err |-> TRUE, hangs |-> TRUE]

ParseLeaf(s) ==
    CASE At(s, "in") -> Parsed(InNode(Head(s).f, Head(s).vs), Tail(s), FALSE)
      [] At(s, "text") -> Parsed(TextNode(Head(s).v), Tail(s), FALSE)
      [] s # <<>> /\ Head(s).k \in Keyword -> Parsed(TextNode(""), Tail(s), TRUE)
      [] OTHER -> Parsed(TextNode(""), s, TRUE)

OnlyAtTheEnd(s) == s = <<>>
EndsAnd(s) == s = <<>> \/ At(s, ")")
EndsAndThen(s) == EndsAnd(s) \/ At(s, "OR")

\* A term alone is not put into a group.
Collapse(children) == IF Len(children) = 1 THEN children[1] ELSE AndNode(children)

RECURSIVE ParseOr(_), ParseAnd(_), MoreAnd(_, _), MoreOr(_), ParseTerm(_)
ParseTerm(s) ==
    CASE At(s, "(") ->
            LET inner == ParseOr(Tail(s))
            IN  IF At(inner.rest, ")") THEN [inner EXCEPT !.rest = Tail(@)]
                ELSE [inner EXCEPT !.err = TRUE]
      [] At(s, "NOT") -> LET c == ParseTerm(Tail(s)) IN [c EXCEPT !.ast = NotNode(@)]
      [] At(s, "-") -> LET c == ParseLeaf(Tail(s)) IN [c EXCEPT !.ast = NotNode(@)]
      [] OTHER -> ParseLeaf(s)
MoreAnd(done, children) ==
    LET ands == IF At(done.rest, "AND") THEN Tail(done.rest) ELSE done.rest
        next == ParseTerm(ands)
    IN  CASE done.hangs -> Hangs
          [] EndsAndThen(done.rest) \/ EndsAnd(ands) ->
                [done EXCEPT !.ast = Collapse(children),
                             !.rest = IF EndsAndThen(@) THEN @ ELSE ands]
          [] next.rest = done.rest -> Hangs
          [] OTHER -> MoreAnd([next EXCEPT !.err = @ \/ done.err], Append(children, next.ast))
ParseAnd(s) == LET first == ParseTerm(s) IN MoreAnd(first, <<first.ast>>)
MoreOr(left) ==
    IF left.hangs \/ ~At(left.rest, "OR") THEN left
    ELSE LET right == ParseAnd(Tail(left.rest))
             sides == IF left.ast.type = "or" THEN left.ast.children ELSE <<left.ast>>
         IN  MoreOr([right EXCEPT !.ast = OrNode(Append(sides, @)), !.err = @ \/ left.err])
ParseOr(s) == MoreOr(ParseAnd(s))

Parse(s) == IF s = <<>> THEN Parsed(EmptyAnd, s, FALSE)
            ELSE LET r == ParseOr(s) IN [r EXCEPT !.err = @ \/ r.rest # <<>>]

(***************************************************************************)
(* The server's side.  A row gives each column a value; NULL is one of     *)
(* them.  Free text is looked for in two columns.                          *)
(***************************************************************************)
CONSTANTS Rows, NULL, TextColumns,
          FieldMap,     \* the values that each field of a list can be asked for
          Refused       \* the answer to a filter that is none

And3(vs) == CASE FALSE \in vs -> FALSE [] NULL \in vs -> NULL [] OTHER -> TRUE
Or3(vs) == CASE TRUE \in vs -> TRUE [] NULL \in vs -> NULL [] OTHER -> FALSE
Not3(v) == IF v = NULL THEN NULL ELSE ~v

\* FilterError: a field the list does not have, or a value its coercer does not know.
Takes(ast) == /\ ast.field \in DOMAIN FieldMap
              /\ \A i \in DOMAIN ast.values : ast.values[i] \in FieldMap[ast.field]
InSql(row, ast) == CASE ast.values = <<>> -> FALSE
                     [] row[ast.field] = NULL -> NULL
                     [] OTHER -> \E i \in DOMAIN ast.values : ast.values[i] = row[ast.field]
\* The words a column holds; every text contains the empty one.
Contains(words, v) == v = "" \/ v \in words
TextSql(row, v) == Or3({IF row[c] = NULL THEN NULL ELSE Contains(row[c], v) : c \in TextColumns})

RECURSIVE ToSql(_, _)
ToSql(ast, row) ==
    CASE ast.type = "in" -> InSql(row, ast)
      [] ast.type = "text" -> TextSql(row, ast.value)
      [] ast.type = "and" -> And3({ToSql(ast.children[i], row) : i \in DOMAIN ast.children})
      [] ast.type = "or" -> Or3({ToSql(ast.children[i], row) : i \in DOMAIN ast.children})
      [] OTHER -> Not3(ToSql(ast.child, row))

\* Every leaf is translated before the query is made, and one that is refused refuses
\* the list.  A list without a filter gets no condition at all.
IsRefused(ast) == \E n \in Nodes(ast) : n.type = "in" /\ ~Takes(n)
Listed(ast) == IF IsEmpty(ast) THEN Rows
               ELSE IF IsRefused(ast) THEN Refused
               ELSE {r \in Rows : ToSql(ast, r) = TRUE}
=============================================================================
