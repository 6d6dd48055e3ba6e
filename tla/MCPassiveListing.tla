--------------------------- MODULE MCPassiveListing ---------------------------
EXTENDS PassiveListing, TLC

\* The bytes of a text.
Codes ==
  " " :> 32 @@ "%" :> 37 @@ "*" :> 42 @@ "-" :> 45 @@ "." :> 46 @@ "/" :> 47
  @@ "2" :> 50 @@ ":" :> 58 @@ "?" :> 63 @@ "a" :> 97 @@ "b" :> 98
  @@ "e" :> 101 @@ "l" :> 108
T(text) == [i \in 1..Len(text) |-> Codes[SubSeq(text, i, i)]]

\* Names that quoting, parsing and matching could take for something else.
MCDirs ==
  <<>> :> <<T("."), T("ab"), T("%2e"), T(".."), T("a b")>>
  @@ <<T("%2e")>> :> <<T("b:"), T(".."), T("...")>>
MCArguments ==
  {<<>>, T("a*b"), T("-l **b*"), T("*?."), T("%2e"), T("-a /%2e/b:"),
   T("../ab")}
=============================================================================
