--------------------------- MODULE SemanticMapper ---------------------------
(***************************************************************************)
(* The semantic layer (app/semantic/mapper.py, bidirectional_normalizer.py,*)
(* and what app/reconciliation/engine.py decides about a field): names of  *)
(* fields go through an ontology of classes, each of a protocol's          *)
(* namespace or of BASE, some declared equivalent to others.               *)
(*                                                                         *)
(* onto is [order |-> the classes <<protocol, name>> in the order they are *)
(* found, eq |-> class -> sequence of the classes it is declared           *)
(* equivalent to, mentions |-> the pairs <<name, protocol>> where the name *)
(* of a concept contains the protocol's].  An ontology without classes is  *)
(* one that is not loaded.  The key of a flat dict is the path it had.     *)
(***************************************************************************)
EXTENDS Translator
LOCAL INSTANCE SequencesExt
LOCAL INSTANCE FiniteSetsExt

Protocols == {"A2A", "MCP", "ACP", "CLI", "HTTP"}

First(s, Test(_)) ==
  LET hits == {i \in DOMAIN s : Test(s[i])} IN IF hits = {} THEN Missing ELSE s[CHOOSE i \in hits : \A j \in hits : i <= j]

Loaded(onto) == onto.order # <<>>
ByIri(onto, protocol, name) == First(onto.order, LAMBDA c : c = <<protocol, name>>)
ByName(onto, name) == First(onto.order, LAMBDA c : c[2] = name)

\* world.search_one(iri) or world.search_one(name)
Search1(onto, protocol, name) ==
  LET exact == ByIri(onto, protocol, name) IN
  IF protocol \in Protocols \cup {"BASE"} /\ exact # Missing THEN exact ELSE ByName(onto, name)

\* resolve_equivalent: what the class is equivalent to, then what is declared
\* equivalent to it; the first of them in another protocol's namespace.
EquivalentsOf(onto, c) ==
  onto.eq[c] \o SelectSeq(onto.order, LAMBDA d : c \in ToSet(onto.eq[d]) /\ d \notin ToSet(onto.eq[c]))

ResolveEquivalent(onto, name, protocol) ==
  LET c == Search1(onto, protocol, name)
      all == IF c = Missing THEN <<>> ELSE EquivalentsOf(onto, c)
      hit == First(all, LAMBDA d : d[1] \notin {protocol, "BASE"})
  IN CASE ~Loaded(onto) -> [kind |-> "not loaded"]
       [] Loaded(onto) /\ protocol \notin Protocols \cup {"BASE"} -> [kind |-> "unknown protocol"]
       [] OTHER -> IF c = Missing THEN [kind |-> "not found"]
                   ELSE IF all = <<>> THEN [kind |-> "no equivalents"]
                   ELSE IF hit = Missing THEN [kind |-> "other namespaces", classes |-> ToSet(all)]
                   ELSE [kind |-> "found", protocol |-> hit[1], name |-> hit[2]]

\* The answer is a text, and an answer counts as the target's if the target's
\* name occurs in it: an error message that repeats the concept may.
SaysTarget(onto, answer, name, source, target) ==
  CASE answer.kind = "found" -> answer.protocol = target \/ <<answer.name, target>> \in onto.mentions
    [] answer.kind = "not loaded" -> FALSE
    [] answer.kind = "no equivalents" -> source = target \/ <<name, target>> \in onto.mentions
    [] answer.kind = "unknown protocol" -> source = target
    [] answer.kind = "other namespaces" ->       \* their IRIs, which begin with http
         target = "HTTP" \/ \E d \in answer.classes : (d[1] = target /\ target # "BASE") \/ <<d[2], target>> \in onto.mentions
    [] OTHER -> <<name, target>> \in onto.mentions

\* What follows the last colon of the answer
AfterColon(answer, name) ==
  CASE answer.kind = "found" -> answer.name [] answer.kind = "no equivalents" -> name [] OTHER -> "the message"

-----------------------------------------------------------------------------
(* _flatten_dict: the leaves with their paths; an empty dict disappears. *)

RECURSIVE Flatten(_, _)
Flatten(n, prefix) ==
  FoldLeft(LAMBDA acc, k : acc \o (IF IsDict(n.dict[k]) THEN Flatten(n.dict[k], Append(prefix, k))
                                   ELSE <<<<Append(prefix, k), n.dict[k]>>>>),
           <<>>, n.order)

\* d[k] = v
Put(d, k, v) == [x \in DOMAIN d \cup {k} |-> IF x = k THEN v ELSE d[x]]
NoFields == [x \in {} |-> 0]

\* DataSiloResolver: rules (flat key -> flat key) first, the ontology for the
\* last part of the key, or the key as it is.
TargetKey(onto, path, source, target, rules) ==
  LET name == Last(path)
      answer == ResolveEquivalent(onto, name, source)
  IN IF path \in DOMAIN rules THEN rules[path]
     ELSE IF SaysTarget(onto, answer, name, source, target) THEN <<AfterColon(answer, name)>> ELSE path

DataSiloResolver(onto, n, source, target, rules) ==
  FoldLeft(LAMBDA d, f : Put(d, TargetKey(onto, f[1], source, target, rules), f[2]), NoFields, Flatten(n, <<>>))

-----------------------------------------------------------------------------
(* BidirectionalNormalizer *)

\* resolve_to_ontology_concept: the first class it is equivalent to
ToConcept(onto, name, protocol) ==
  LET c == Search1(onto, protocol, name) IN
  IF c = Missing THEN name ELSE IF onto.eq[c] = <<>> THEN c[2] ELSE onto.eq[c][1][2]

\* resolve_from_ontology_concept: only what the concept is declared
\* equivalent to in the target's namespace
FromConcept(onto, concept, protocol) ==
  LET c == IF ByName(onto, concept) # Missing THEN ByName(onto, concept) ELSE ByIri(onto, protocol, concept)
      hit == First(onto.eq[c], LAMBDA d : d[1] = protocol)
  IN IF c = Missing \/ protocol \notin Protocols \cup {"BASE"} THEN concept
     ELSE IF hit = Missing THEN concept ELSE hit[2]

SimilarityThreshold == 60     \* similarity_threshold, in percent

\* normalize_to_ontology: a rule or the ontology; a name that stays as it was
\* may be close enough to a concept.  similar[name] is the best match of the
\* embedding and its score.
Concept(onto, path, protocol, similar, rules) ==
  LET name == Last(path)
      concept == IF path \in DOMAIN rules THEN rules[path] ELSE ToConcept(onto, name, protocol)
  IN IF concept = name /\ similar[name].score >= SimilarityThreshold THEN similar[name].best ELSE concept

NormalizeToOntology(onto, n, protocol, similar, rules) ==
  FoldLeft(LAMBDA d, f : Put(d, Concept(onto, f[1], protocol, similar, rules), f[2]), NoFields, Flatten(n, <<>>))

\* normalize_from_ontology over the concepts in the order given
NormalizeFromOntology(onto, concepts, d, protocol, rules) ==
  FoldLeft(LAMBDA out, c : Put(out, IF c \in DOMAIN rules THEN rules[c] ELSE FromConcept(onto, c, protocol), d[c]),
           NoFields, SelectSeq(concepts, LAMBDA c : c \in DOMAIN d))

\* ontology_to_cli: an argument the command knows is named, others are given
\* by position.
OntologyToCli(concepts, d, known, argMap) ==
  LET name(c) == IF c \in DOMAIN argMap THEN argMap[c] ELSE c
  IN [i \in DOMAIN concepts |-> [name |-> IF name(concepts[i]) \in known THEN name(concepts[i]) ELSE "", value |-> d[concepts[i]]]]
=============================================================================
