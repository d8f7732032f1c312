----------------------------- MODULE Translator -----------------------------
(***************************************************************************)
(* TranslatorEngine (app/core/translator.py): a message is brought to the  *)
(* version of its protocol the engine expects, by delta rules along a      *)
(* shortest path of versions, and then mapped to the target protocol.      *)
(*                                                                         *)
(* A message is a tree: a dict is [dict |-> keys -> nodes, order |-> its   *)
(* keys in insertion order], anything else is a leaf [leaf |-> value].  A  *)
(* path is a sequence of keys.  Upper case of protocol names, the "v" of   *)
(* versions and the ISO form of dates are left out.                        *)
(***************************************************************************)
EXTENDS Integers, Sequences, FiniteSets
LOCAL INSTANCE SequencesExt

Missing == [missing |-> TRUE]
Leaf(v) == [leaf |-> v]
IsDict(n) == "dict" \in DOMAIN n
EmptyDict == [dict |-> <<>>, order |-> <<>>]

HasKey(n, k) == IsDict(n) /\ k \in DOMAIN n.dict

\* d[k] = v: a new key comes last.
PutKey(d, k, v) ==
  [dict |-> [x \in DOMAIN d.dict \cup {k} |-> IF x = k THEN v ELSE d.dict[x]],
   order |-> IF k \in DOMAIN d.dict THEN d.order ELSE Append(d.order, k)]

\* d.pop(k, None)
PopKey(d, k) ==
  [dict |-> [x \in DOMAIN d.dict \ {k} |-> d.dict[x]], order |-> SelectSeq(d.order, LAMBDA x : x # k)]

-----------------------------------------------------------------------------
(* _get_by_path, _set_by_path, _delete_by_path *)

RECURSIVE GetByPath(_, _)
GetByPath(n, path) ==
  IF path = <<>> THEN n
  ELSE IF HasKey(n, Head(path)) THEN GetByPath(n.dict[Head(path)], Tail(path)) ELSE Missing

\* Whatever stands in the way of the path is replaced by a dict.
RECURSIVE SetByPath(_, _, _)
SetByPath(n, path, v) ==
  IF path = <<>> \/ ~IsDict(n) THEN n
  ELSE IF Len(path) = 1 THEN PutKey(n, path[1], v)
  ELSE LET k == path[1]
           inner == IF HasKey(n, k) /\ IsDict(n.dict[k]) THEN n.dict[k] ELSE EmptyDict
       IN PutKey(n, k, SetByPath(inner, Tail(path), v))

RECURSIVE DeleteByPath(_, _)
DeleteByPath(n, path) ==
  IF path = <<>> \/ ~HasKey(n, path[1]) THEN n
  ELSE IF Len(path) = 1 THEN PopKey(n, path[1])
  ELSE PutKey(n, path[1], DeleteByPath(n.dict[path[1]], Tail(path)))

-----------------------------------------------------------------------------
(* Version deltas.  rules: [rename: <<old, new>> paths, drop: paths, set:  *)
(* <<path, node>>], each a sequence.                                       *)

Rename(n, r) ==
  LET v == GetByPath(n, r[1]) IN
  IF v = Missing THEN n ELSE DeleteByPath(SetByPath(n, r[2], v), r[1])

ApplyDeltaRules(n, rules) ==
  LET renamed == FoldLeft(Rename, n, rules.rename)
      dropped == FoldLeft(DeleteByPath, renamed, rules.drop)
  IN FoldLeft(LAMBDA m, s : SetByPath(m, s[1], s[2]), dropped, rules.set)

VersionPaths == <<<<"protocol_version">>, <<"version">>, <<"schema_version">>,
                  <<"metadata", "version">>, <<"meta", "version">>>>

\* _extract_version: only the first path that exists counts; what is not None
\* there is a version.
Carried(n) == {i \in DOMAIN VersionPaths : GetByPath(n, VersionPaths[i]) # Missing}
VersionPath(n) == VersionPaths[CHOOSE i \in Carried(n) : \A j \in Carried(n) : i <= j]
Version(n) ==
  IF Carried(n) = {} \/ GetByPath(n, VersionPath(n)) = Leaf("None") THEN "None"
  ELSE GetByPath(n, VersionPath(n)).leaf

\* _find_version_path: breadth first over the deltas (a sequence of records
\* [from, to, rules], in the order they were loaded).
Neighbours(deltas, v) ==
  LET out == SelectSeq(deltas, LAMBDA d : d.from = v) IN [i \in DOMAIN out |-> out[i].to]

RECURSIVE Search(_, _, _, _)
Search(deltas, queue, parents, expected) ==
  IF queue = <<>> \/ Head(queue) = expected THEN parents
  ELSE LET new == SelectSeq(Neighbours(deltas, Head(queue)), LAMBDA v : v \notin DOMAIN parents) IN
       Search(deltas, Tail(queue) \o new,
              [v \in DOMAIN parents \cup ToSet(new) |-> IF v \in DOMAIN parents THEN parents[v] ELSE Head(queue)],
              expected)

RECURSIVE PathTo(_, _)
PathTo(parents, v) == IF parents[v] = "None" THEN <<v>> ELSE Append(PathTo(parents, parents[v]), v)

\* The versions on the way, or <<>>.
FindVersionPath(deltas, from, expected) ==
  LET parents == Search(deltas, <<from>>, [v \in {from} |-> "None"], expected) IN
  IF expected \in DOMAIN parents THEN PathTo(parents, expected) ELSE <<>>

RulesOf(deltas, from, to) ==
  (CHOOSE d \in ToSet(deltas) : d.from = from /\ d.to = to).rules

\* One delta; the version is written where it was found in the beginning.
Upgrade(deltas, n, where, from, to) == SetByPath(ApplyDeltaRules(n, RulesOf(deltas, from, to)), where, Leaf(to))

\* _apply_version_deltas_if_needed; Missing stands for the TranslationError.
ApplyVersionDeltas(deltas, n, expected) ==
  IF Version(n) \in {"None", expected} THEN n
  ELSE LET path == FindVersionPath(deltas, Version(n), expected) IN
       IF path = <<>> THEN Missing
       ELSE FoldLeft(LAMBDA m, i : Upgrade(deltas, m, VersionPath(n), path[i], path[i + 1]),
                     n, [i \in 1 .. Len(path) - 1 |-> i])

-----------------------------------------------------------------------------
(* The mappers *)

\* _translate_a2a_to_mcp, key by key.
A2AEntry(out, k, v) ==
  CASE k = "protocol" -> out
    [] k = "payload"  -> PutKey(out, "data_bundle", v)
    [] k = "data"     -> PutKey(out, "coord", IF HasKey(v, "task") THEN v.dict["task"] ELSE v)
    [] OTHER          -> PutKey(out, k, v)

A2AToMcp(n) == FoldLeft(LAMBDA out, k : A2AEntry(out, k, n.dict[k]), EmptyDict, n.order)

\* {**d, **e}
Update(d, e) == FoldLeft(LAMBDA out, k : PutKey(out, k, e.dict[k]), d, e.order)
TaskHead(task) == PutKey(PutKey(EmptyDict, "intent", Leaf(task.intent)), "capability_tag", Leaf(task.tag))
WithMetadata(n, m) == IF HasKey(n, "metadata") THEN PutKey(m, "metadata", n.dict["metadata"]) ELSE m

\* _translate_nl_to_mcp: task is the first one the resolver finds in the
\* command, [intent, tag, params], or Missing; its params, a dict, win over
\* what is set here.  An empty command is an absent one.
NlToMcp(n, task) ==
  LET command == IF HasKey(n, "command") THEN n.dict["command"] ELSE Leaf("None") IN
  IF ~HasKey(n, "command") /\ HasKey(n, "intent") THEN n
  ELSE IF task = Missing
  THEN PutKey(PutKey(PutKey(EmptyDict, "intent", Leaf("general_query")), "content", command), "coord", Leaf("research"))
  ELSE WithMetadata(n, Update(PutKey(TaskHead(task), "coord", Leaf("research")), task.params))

SupportedPairs == {<<"A2A", "MCP">>, <<"NL", "MCP">>}
Expects(protocol) == protocol = "A2A"     \* _expected_versions: only A2A has one

\* translate; Missing for ProtocolMismatchError and TranslationError.
Translate(deltas, n, source, target, expected, task) ==
  IF <<source, target>> \notin SupportedPairs THEN Missing
  ELSE LET m == IF Expects(source) THEN ApplyVersionDeltas(deltas, n, expected) ELSE n IN
       IF m = Missing THEN Missing ELSE IF source = "A2A" THEN A2AToMcp(m) ELSE NlToMcp(m, task)
=============================================================================
