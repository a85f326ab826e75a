SPECIFICATION Spec
CONSTANTS
    NULL = NULL
    Rows <- MCRows
    FieldMap <- MCFieldMap
    Refused = Refused
    TextColumns <- MCTextColumns
    Typed <- MCTyped
    MaxTokens = 2
    Pasted <- MCPasted
    Categories <- MCCategories
INVARIANTS UrlKeepsFilter BarShowsFilter HangsOnlyAtComma StateIsTheFilter
