------------------------------ MODULE MCService ------------------------------
EXTENDS Service, TLC
MCIndicators == {[name |-> "sma", all |-> FALSE], [name |-> "atr", all |-> TRUE]}
MCEndings == {<<s, s>> : s \in Symbols} \cup {<<"X:B", "B">>}
MCFiles == {<<3, 1, 3, 2>>, <<>>}
MCPortsIn == "IndicatorNode" :> {"price"} @@ "DataFilterNode" :> {"data"}
MCPortsOut == "IndicatorNode" :> {"value"} @@ "DataFilterNode" :> {"filtered"}
MCCategories == "IndicatorNode" :> "INDICATOR" @@ "DataFilterNode" :> "TRANSFORM"
MCNodes == [id : {"p", "q"}, type : {"IndicatorNode", "DataFilterNode", "Other", "", NoField}]
MCLink(from, to, out, in) == [from |-> from, to |-> to, out |-> out, in |-> in]
MCLinks ==
  {<<>>} \cup {<<MCLink("p", to, "", "")>> : to \in {"q", "r", "", NoField}}
  \cup {<<MCLink("r", "p", "", "")>>, <<MCLink("p", "q", "", ""), MCLink("q", "p", "", "")>>}
  \cup {<<MCLink("p", "q", "value", in)>> : in \in {"data", "price"}}
MCStrategyFiles ==
  [version : {"1.0", "", "x", NoField}, links : MCLinks,
   nodes : {<<>>} \cup {<<n>> : n \in MCNodes} \cup (MCNodes \X MCNodes)]
MCListings == {<<>>, <<"a", "b">>}
MCFrames == {[columns |-> <<"b">>, rows |-> 5], [columns |-> <<"b", "a">>, rows |-> 4]}
MCWindows == {[train |-> 2, test |-> 1, step |-> 1], [train |-> 2, test |-> 2, step |-> 0],
              [train |-> 1, test |-> 1, step |-> 1]}
Symmetry == Permutations(Sockets)
=============================================================================
