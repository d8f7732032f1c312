---------------------------- MODULE MemoryChecks ----------------------------
(***************************************************************************)
(* What survives a restart in SwarmMemory, over two writes of at most two  *)
(* facts of one agent.                                                     *)
(***************************************************************************)
EXTENDS SwarmMemory

LOCAL Odd == {"C:\\"}
LOCAL Reads == [s \in {"42", "quoted"} |-> IF s = "42" THEN Value("number", 42) ELSE Value("text", "C:\\")]

LOCAL Texts == {Value("text", s) : s \in {"a", "42", "quoted", "C:\\"}}
LOCAL Values == Texts \cup {Value("number", 42), Value("list", 1), Value("bool", "True"), Value("None", "None")}
LOCAL Faithful == {Value("text", "a"), Value("number", 42), Value("list", 1)}
LOCAL Pairs(S) == {<<k, v>> : k \in {"k", "l"}, v \in S}
LOCAL Rows(w) == [i \in DOMAIN w |-> <<"ag", w[i][1], w[i][2]>>]
LOCAL Writes(S) == {<<f>> : f \in Pairs(S)} \cup {<<f, g>> : f, g \in Pairs(S)}

\* An ontology that is not loaded, one that knows neither key, and one with two
\* classes of the name "k" that are declared equivalent.
LOCAL Ontology(order) ==
  [order |-> order, mentions |-> {},
   eq |-> [c \in {order[i] : i \in DOMAIN order} |-> IF c = <<"MCP", "k">> THEN <<<<"A2A", "kk">>>> ELSE <<>>]]
LOCAL Unloaded == Ontology(<<>>)
LOCAL Strange == Ontology(<<<<"BASE", "z">>>>)
LOCAL Equivalent == Ontology(<<<<"MCP", "k">>, <<"A2A", "kk">>>>)

LOCAL WriteAs(m, onto, protocol, w) == WriteFacts(m, onto, "ag", protocol, w, Odd)
LOCAL After(w, x) == WriteAs(WriteAs(NoMemory, Strange, "MCP", w), Strange, "MCP", x)
LOCAL Restarted(m) == LoadMemory(m, Reads, Odd)
LOCAL Has(m, k, v) == CheckExists(m, "ag", k, v)

\* Texts that are no JSON, numbers and lists are the same facts after a restart.
ASSUME FactsSurvive ==
  \A w, x \in Writes(Faithful) : Restarted(After(w, x)) = After(w, x)

\* A write that fails leaves facts that are known until the next restart, and
\* does not harm those of an earlier one.
ASSUME FailedWriteForgotten ==
  \A w \in Writes(Faithful), x \in Writes(Faithful \cup {Value("text", "C:\\")}) :
    LET m == After(w, x) IN
    /\ \A i \in Readable(Rows(x), Odd) : Has(m, x[i][1], x[i][2])
    /\ Readable(Rows(x), Odd) # DOMAIN x => Restarted(m) = After(w, <<>>)

\* A text that is a number becomes the number by a restart: it is not found as
\* what was written.
ASSUME TextBecomesNumber ==
  LET m == After(<<<<"k", Value("text", "42")>>>>, <<>>) IN
  /\ Has(m, "k", Value("text", "42")) /\ ~Has(Restarted(m), "k", Value("text", "42"))
  /\ ~Has(m, "k", Value("number", 42)) /\ Has(Restarted(m), "k", Value("number", 42))

\* A fact that is true or false answers every question about its key, until a
\* restart makes a text of it.
ASSUME TrueIsAnything ==
  LET m == After(<<<<"k", Value("bool", "True")>>>>, <<>>) IN
  \A v \in Values \ {Value("bool", "True"), Value("None", "None")} :
    Has(m, "k", v) /\ ~Has(Restarted(m), "k", v)

\* One text whose JSON Prolog cannot read keeps all later facts from being
\* loaded: only those before it are known after a restart.
ASSUME OneFactHidesLater ==
  \A w \in Writes(Faithful) :
    LET m == After(<<<<"k", Value("text", "quoted")>>>>, w) IN
    /\ \A i \in DOMAIN w : Has(m, w[i][1], w[i][2])
    /\ Restarted(m).live = {}

\* A key is asked for by its own name, and found only if the ontology is loaded
\* and knows no equivalent of it in another protocol; what a protocol writes
\* that the mapper does not know, such as the middleware's "INTERNAL", is filed
\* under an error message whatever the ontology.
ASSUME KeyFoundByName ==
  LET written(onto, protocol) == WriteAs(NoMemory, onto, protocol, <<<<"k", Value("text", "a")>>>>)
  IN /\ Has(written(Strange, "MCP"), "k", Value("text", "a"))
     /\ Has(written(Equivalent, "MCP"), "kk", Value("text", "a"))
     /\ ~Has(written(Equivalent, "MCP"), "k", Value("text", "a"))
     /\ ~Has(written(Unloaded, "MCP"), "k", Value("text", "a"))
     /\ \A onto \in {Unloaded, Strange, Equivalent} :
          Has(written(onto, "INTERNAL"), "the message", Value("text", "a"))
          /\ ~Has(written(onto, "INTERNAL"), "k", Value("text", "a"))
=============================================================================
