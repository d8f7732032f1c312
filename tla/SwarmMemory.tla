---------------------------- MODULE SwarmMemory ----------------------------
(***************************************************************************)
(* SwarmMemory (bridge/memory.py): facts are inserted into SQLite as text  *)
(* and asserted to a Prolog reasoner, which answers; at a start the        *)
(* reasoner is filled from SQLite.                                         *)
(*                                                                         *)
(* A value is [kind, is]; a memory is [saved |-> the rows <<agent,         *)
(* concept, value>> in order, live |-> the reasoner's facts].  onto is an  *)
(* ontology of SemanticMapper.  reads[t] is the value that json.loads      *)
(* makes of the text t, for the texts that are JSON; odd are the texts     *)
(* that Prolog cannot read between quotes, such as one that ends in a      *)
(* backslash.  Escaped quotes and timestamps are left out.                 *)
(***************************************************************************)
EXTENDS Integers, Sequences
LOCAL Mapper == INSTANCE SemanticMapper

Value(kind, is) == [kind |-> kind, is |-> is]
NoMemory == [saved |-> <<>>, live |-> {}]

\* A value as a term: True, False and None are variables to Prolog.
Anything == Value("variable", "_")
Term(v) == IF v.kind \in {"bool", "None"} THEN Anything ELSE v
Unify(s, t) == s = Anything \/ t = Anything \/ s = t

\* assertz raises.
Unreadable(v, odd) == v.kind = "text" /\ v.is \in odd

\* What comes back from SQLite: str(True) is no JSON, so it is a text now.
Reread(v, reads) ==
  IF v.kind = "bool" THEN Value("text", v.is)
  ELSE IF v.kind = "text" /\ v.is \in DOMAIN reads THEN reads[v.is] ELSE v

\* The rows before the first that raises.
Readable(rows, odd) == {i \in DOMAIN rows : \A j \in 1 .. i : ~Unreadable(rows[j][3], odd)}
AssertAll(rows, odd) == {<<rows[i][1], rows[i][2], Term(rows[i][3])>> : i \in Readable(rows, odd)}

\* The predicate of a key: what follows the last colon of the mapper's answer,
\* which may be an error message; only "Concept ... not found." has no colon.
Predicate(onto, key, protocol) ==
  LET answer == Mapper!ResolveEquivalent(onto, key, protocol)
  IN IF answer.kind = "not found" THEN key ELSE Mapper!AfterColon(answer, key)

\* write of a sequence of <<key, value>>: one transaction of SQLite; what was
\* asserted before an exception stays.
WriteFacts(memory, onto, agent, protocol, fields, odd) ==
  LET rows == [i \in DOMAIN fields |-> <<agent, Predicate(onto, fields[i][1], protocol), fields[i][2]>>]
  IN [saved |-> IF Readable(rows, odd) = DOMAIN rows THEN memory.saved \o rows ELSE memory.saved,
      live  |-> memory.live \cup AssertAll(rows, odd)]

\* load_memory, after a restart: an exception ends the loading.
LoadMemory(memory, reads, odd) ==
  LET rows == [i \in DOMAIN memory.saved |-> [memory.saved[i] EXCEPT ![3] = Reread(@, reads)]]
  IN [memory EXCEPT !.live = AssertAll(rows, odd)]

CheckExists(memory, agent, key, v) ==
  \E fact \in memory.live : fact[1] = agent /\ fact[2] = key /\ Unify(fact[3], Term(v))
=============================================================================
