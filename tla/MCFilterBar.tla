---------------------------- MODULE MCFilterBar ----------------------------
EXTENDS FilterBar
MCTyped == {Sign(k) : k \in {"(", ")", "-", ",", "NOT", "OR"}}
           \cup {Word(v) : v \in {"solved", "or", "not-solved"}}
           \cup {Field("owner", <<"me">>), Field("owner", <<"nobody">>), Field("visibility", <<"public", "private">>)}
a == Word("solved")
b == Word("two words")
c == Field("owner", <<"me">>)
d == Word("-solved")
LP == Sign("(")
RP == Sign(")")
NOT == Sign("NOT")
OR == Sign("OR")
AND == Sign("AND")
MCPasted == {<<NOT, LP, a, c, RP>>, <<LP, a, OR, b, RP, c>>, <<a, OR, d, c>>, <<NOT, NOT, a>>,
             <<NOT, LP, NOT, LP, a, c, RP, OR, Sign("-"), d, RP>>, <<LP, a, c, RP, OR, LP, b, RP>>,
             <<a, LP, b, c, RP>>, <<LP, a, OR, b, RP, OR, c>>, <<a, AND, NOT, c>>, <<a, AND>>, <<a, OR, NOT, Field("colour", <<"red">>)>>,
             <<LP, a, OR, LP, b, c, RP>>, <<LP, a, Sign(","), b, RP>>, <<NOT, LP, Word(""), OR, a, RP>>,
             <<Field("owner", <<"me", "you">>), c, Field("visibility", <<"public">>)>>}
MCFieldMap == [owner |-> {"me", "you"}, visibility |-> {"public", "private"}]
MCTextColumns == {"filename", "name"}
Row(o, v, f, n) == [owner |-> o, visibility |-> v, filename |-> f, name |-> n]
MCRows == {Row("me", "private", {"solved"}, NULL), Row("me", "public", {"or"}, NULL),
           Row("you", "public", {"not-solved", "solved", "two words"}, {"solved"}), Row("you", "private", {"-solved", "solved"}, {"or"}),
           Row("me", "public", {}, {})}
MCCategories == {"owner", "visibility"}
=============================================================================
