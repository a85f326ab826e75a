----------------------------- MODULE FilterBar -----------------------------
(***************************************************************************)
(* The filter of a list page: the syntax tree the page filters by, the     *)
(* text in the search bar, and the q parameter of the page's URL that a    *)
(* reload, a bookmark or a shared link brings back.  The bar is taken away *)
(* while a list loads, and put back with the filter written out.           *)
(***************************************************************************)
EXTENDS FilterLang

CONSTANTS Typed,        \* the tokens a user types
          MaxTokens,    \* the longest text typed token by token
          Pasted,       \* longer texts that are pasted
          Categories    \* the fields offered by the pages of api keys and backends

VARIABLES filter,       \* what the page filters by
          url,          \* the text in the URL
          nav,          \* the URL that is on its way to be shown, if any
          shown,        \* the bar is on the page
          rawText, focused, lastCommittedFilter,
          hung          \* the page does not answer any more
vars == <<filter, url, nav, shown, rawText, focused, lastCommittedFilter, hung>>

Idle == [going |-> FALSE, to |-> <<>>]
UrlOf(ast) == IF IsEmpty(ast) THEN <<>> ELSE Serialize(ast)

Unmount == /\ shown' = FALSE /\ focused' = FALSE
           /\ rawText' = <<>> /\ lastCommittedFilter' = EmptyAnd

Init == /\ filter = EmptyAnd /\ url = <<>> /\ nav = Idle
        /\ shown = FALSE /\ focused = FALSE
        /\ rawText = <<>> /\ lastCommittedFilter = EmptyAnd
        /\ hung = FALSE

Focus == /\ shown /\ ~focused /\ ~hung
         /\ focused' = TRUE
         /\ UNCHANGED <<filter, url, nav, shown, rawText, lastCommittedFilter, hung>>

\* Every change of the text is parsed at once, for the message under the bar.
\* A minus belongs to the word after it, so two of them are not typed in a row.
HandleInput ==
    /\ shown /\ focused /\ ~hung
    /\ \/ rawText # <<>> /\ rawText' = <<>>
       \/ rawText = <<>> /\ rawText' \in Pasted
       \/ /\ Len(rawText) < MaxTokens
          /\ \E t \in Typed : /\ ~(rawText # <<>> /\ rawText[Len(rawText)] = Sign("-") /\ t = Sign("-"))
                              /\ rawText' = Append(rawText, t)
    /\ hung' = Parse(rawText').hangs
    /\ UNCHANGED <<filter, url, nav, shown, focused, lastCommittedFilter>>

HandleFilterChange(ast) == filter' = ast /\ nav' = [going |-> TRUE, to |-> UrlOf(ast)]

\* commit, where the text may be wrong and may say what the page already does.
Commit ==
    LET r == Parse(rawText)
    IN  IF r.err THEN UNCHANGED <<filter, nav, lastCommittedFilter>>
        ELSE /\ lastCommittedFilter' = r.ast
             /\ IF r.ast = filter THEN UNCHANGED <<filter, nav>> ELSE HandleFilterChange(r.ast)

OnlyBlurs == /\ shown /\ focused /\ ~hung
             /\ focused' = FALSE
             /\ UNCHANGED <<filter, url, nav, shown, rawText, lastCommittedFilter, hung>>
HandleBlur == /\ shown /\ focused /\ ~hung
              /\ focused' = FALSE
              /\ Commit
              /\ UNCHANGED <<url, shown, rawText, hung>>

ClearAll == /\ shown /\ ~hung
            /\ rawText # <<>> \/ ~IsEmpty(filter)
            /\ rawText' = <<>>
            /\ lastCommittedFilter' = EmptyAnd
            /\ HandleFilterChange(EmptyAnd)
            /\ UNCHANGED <<url, shown, focused, hung>>

\* The navigation ends and the list is loaded, without the bar.  A browser may
\* or may not tell an input that it loses the focus by being taken away.
UpdateURL == /\ nav.going /\ ~hung
             /\ url' = nav.to
             /\ \/ UNCHANGED filter /\ nav' = Idle
                \/ LET r == Parse(rawText)
                   IN  shown /\ focused /\ ~r.err /\ r.ast # filter /\ HandleFilterChange(r.ast)
             /\ Unmount
             /\ UNCHANGED hung

OnMount == /\ ~shown /\ ~hung
           /\ shown' = TRUE
           /\ rawText' = Serialize(filter)
           /\ lastCommittedFilter' = filter
           /\ hung' = Parse(rawText').hangs
           /\ UNCHANGED <<filter, url, nav, focused>>

\* What a page makes of the URL it is opened with.
FromUrl(q) == IF Parse(q).err THEN EmptyAnd ELSE Parse(q).ast
RestoreFromUrl == /\ filter' = FromUrl(url)
                  /\ nav' = Idle
                  /\ hung' = Parse(url).hangs
                  /\ Unmount
                  /\ UNCHANGED url

Next == \/ Focus \/ HandleInput \/ HandleBlur \/ ClearAll
        \/ UpdateURL \/ OnMount \/ RestoreFromUrl
Spec == Init /\ [][Next]_vars

(***************************************************************************)
(* The pages of api keys and backends filter what they have loaded, field  *)
(* by field.                                                               *)
(***************************************************************************)
FirstValues(ast) ==
    [f \in Categories |->
        IF ast.type # "and" THEN {}
        ELSE {c.values[1] : c \in {ast.children[j] : j \in {k \in DOMAIN ast.children :
                  ast.children[k].type = "in" /\ ast.children[k].field = f}}}]
FilterStateFromAst(ast) ==
    [f \in Categories |->
        IF ast.type # "and" THEN {}
        ELSE UNION {{c.values[i] : i \in DOMAIN c.values} :
                    c \in {ast.children[j] : j \in {k \in DOMAIN ast.children :
                           ast.children[k].type = "in" /\ ast.children[k].field = f}}}]
FilteredByState(state) ==
    {r \in Rows : \A f \in Categories : state[f] = {} \/ r[f] \in state[f]}

(***************************************************************************)
(* Properties.                                                             *)
(***************************************************************************)
\* Every filter a page can come to have is one the parser builds: groups have
\* at least two members, except the filter that filters nothing.
TypeOK == /\ focused => shown
          /\ filter = EmptyAnd \/
             \A n \in Nodes(filter) : n.type \in {"and", "or"} => Len(n.children) >= 2

\* Free text that begins with a reserved word is written without quotes.
ReadsBack(ast) == \A n \in Nodes(ast) : n.type = "text" => n.value \notin {"or", "not-solved"}

\* The filter in force is in normal form, and a reload, a bookmark or a link shows
\* the rows the page showed, unless it looks for a word that begins with a reserved one.
UrlKeepsFilter == TypeOK /\ (~nav.going /\ ReadsBack(filter) => Listed(FromUrl(url)) = Listed(filter))

\* The text in a bar nobody is typing in, if it is a filter at all, is the one
\* that is in force: it may be edited from there, or left again without effect.
BarShowsFilter ==
    shown /\ ~focused /\ ReadsBack(filter) /\ ~Parse(rawText).err
        => Listed(Parse(rawText).ast) = Listed(filter)

\* The only text that stops the page from answering has a comma outside the
\* values of a field.
HangsOnlyAtComma == hung => \E i \in DOMAIN rawText : rawText[i] = Sign(",")

\* The pages that filter by themselves list what the filter means on the server, if it is
\* a group of distinct fields with values that they can have.
StateIsTheFilter ==
    /\ filter.type = "and" /\ ~IsRefused(filter)
    /\ \A i \in DOMAIN filter.children : filter.children[i].type = "in"
    /\ \A i, j \in DOMAIN filter.children :
            filter.children[i].field = filter.children[j].field => i = j
    => FilteredByState(FilterStateFromAst(filter)) = Listed(filter)

=============================================================================
