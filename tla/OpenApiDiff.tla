----------------------------- MODULE OpenApiDiff -----------------------------
(***************************************************************************)
(* The structural diff of two OpenAPI documents and its classification     *)
(* (sentinel/diff.py), as operators.                                       *)
(*                                                                         *)
(* A document is a tree of JSON values.  A key, and a path, is the         *)
(* sequence of the segments between its slashes: "/v1/pay" is              *)
(* <<"", "v1", "pay">>, and appending a key to a path with a slash is      *)
(* concatenation.  The classification looks for a slash and a token in the *)
(* path, which is to say for a segment that begins with the token.         *)
(***************************************************************************)
EXTENDS Naturals, SequencesExt

CONSTANTS
  Values,   \* JSON values, with all that is inside them
  Depth,    \* how deeply a value is nested
  Plain,    \* for a value, the one that stands for all that Python's == takes
            \* for the same: true and 1, [0] and [false]
  Lowered,  \* segments that have capitals, without them
  Longer    \* for a token, other segments that begin with it

Object(f) == [kind |-> "object", fields |-> f]
List(x) == [kind |-> "list", value |-> x]
Scalar(x) == [kind |-> "scalar", value |-> x]
None == Scalar("null")
IsObject(v) == v.kind = "object"

(* An object is its keys with their values, which are nested less deeply.  *)
ASSUME ValuesAssumption ==
  /\ Depth \in [Values -> Nat]
  /\ \A v \in Values : IsObject(v) =>
       /\ v = Object([k \in DOMAIN v.fields |-> v.fields[k]])
       /\ DOMAIN v.fields \subseteq Seq(STRING) \ {<<>>}
       /\ \A k \in DOMAIN v.fields :
            v.fields[k] \in Values /\ Depth[v.fields[k]] < Depth[v]
  /\ None \in Values
  /\ \A v \in Values : Plain[v].kind = v.kind

SpecChange(path, kind, before, after) ==
  [path |-> path, kind |-> kind, before |-> before, after |-> after]

(* Keys of one side only, then the keys of both; anything that is not an   *)
(* object on both sides is compared as a whole, by ==.  The path is put    *)
(* together on the way up.                                                 *)
Under(k, changes) == {[c EXCEPT !.path = k \o c.path] : c \in changes}
WalkTree[pair \in Values \X Values] ==
  LET before == pair[1]
      after == pair[2]
      kb == DOMAIN before.fields
      ka == DOMAIN after.fields
  IN  IF IsObject(before) /\ IsObject(after)
      THEN {SpecChange(k, "removed", before.fields[k], None) : k \in kb \ ka}
           \cup {SpecChange(k, "added", None, after.fields[k]) : k \in ka \ kb}
           \cup UNION {Under(k, WalkTree[<<before.fields[k], after.fields[k]>>])
                         : k \in kb \cap ka}
      ELSE IF Plain[before] # Plain[after] THEN {SpecChange(<<>>, "changed", before, after)} ELSE {}
WalkIgnoringAdded(before, after) ==
  {c \in WalkTree[<<before, after>>] : c.kind # "added"}
Walk(before, after) == WalkTree[<<before, after>>]

DiffOpenApi(before, after) == Walk(before, after)

-----------------------------------------------------------------------------
HttpMethods == {"get", "put", "post", "delete", "options", "head", "patch", "trace"}

Lower(s) == IF s \in DOMAIN Lowered THEN Lowered[s] ELSE s
IsMethod(segment) == Lower(segment) \in HttpMethods
ASSUME LoweredAssumption == \A s \in HttpMethods \cup {""} : Lower(s) = s

HasMethodKey(v) ==
  IsObject(v) /\ \E k \in DOMAIN v.fields : Len(k) = 1 /\ IsMethod(k[1])

NoEndpoint == <<>>
Root == <<"", "">>
Joined(segments) == IF segments \in {<<>>, <<"">>} THEN Root ELSE segments

(* _endpoint_from_path: the whole suffix if the value has a method as a    *)
(* key, or else what comes before the first segment that is a method.      *)
EndpointFromPath(path, value) ==
  IF Len(path) < 2 \/ path[1] # "paths" \/ path = <<"paths", "">> THEN NoEndpoint
  ELSE LET suffix == Tail(path)
           methods == {i \in 1 .. Len(suffix) : IsMethod(suffix[i])}
       IN  IF HasMethodKey(value) THEN suffix
           ELSE IF methods # {} THEN Joined(SubSeq(suffix, 1, Min(methods) - 1))
           ELSE NoEndpoint

EndpointOf(c) == EndpointFromPath(c.path, IF c.after # None THEN c.after ELSE c.before)

(* Which of the three flags a change sets.  The path has a slash before    *)
(* each of its segments: "/deprecated" occurs in it if a segment is        *)
(* "deprecated", or "deprecated-plans".                                    *)
Tokens == {"deprecated", "required", "requestBody", "schema"}
ASSUME LongerAssumption == DOMAIN Longer = Tokens
BeginsWith(segment, token) == segment = token \/ segment \in Longer[token]
Touches(path, token) == \E i \in 1 .. Len(path) : BeginsWith(path[i], token)
OfContract(path) ==
  \/ \E token \in Tokens \ {"deprecated"} : Touches(path, token)
  \/ \E i \in 1 .. Len(path) - 1 : path[i] = "parameters"
Deprecates(c) == Touches(c.path, "deprecated") /\ c.after = Scalar("true")
RestrictsContract(c) ==
  c.kind = "changed" /\ OfContract(c.path) /\ c.before # None /\ c.after # None
Breaks(c) == c.kind = "removed" \/ RestrictsContract(c)

(* classify_openapi_changes.  The severity follows from the type.          *)
TypeOfAdditionFirst(changes) ==
  IF \E c \in changes : c.kind = "added" THEN "new-feature"
  ELSE IF \E c \in changes : Breaks(c) THEN "breaking"
  ELSE IF \E c \in changes : Deprecates(c) THEN "deprecation"
  ELSE "non-breaking-fix"
TypeOf(changes) ==
  IF \E c \in changes : Breaks(c) THEN "breaking"
  ELSE IF \E c \in changes : Deprecates(c) THEN "deprecation"
  ELSE IF \E c \in changes : c.kind = "added" THEN "new-feature"
  ELSE "non-breaking-fix"

AffectedEndpoints(changes) == {EndpointOf(c) : c \in changes} \ {NoEndpoint}
AffectedFields(changes) ==
  {c.path : c \in {d \in changes : d.kind = "removed" /\ EndpointOf(d) = NoEndpoint}}

-----------------------------------------------------------------------------
(* What the documents themselves say, without the diff. *)

(* A node of a document: the keys that lead to it, the path they make,     *)
(* which does not tell the key "a/b" from the key "b" under the key "a",   *)
(* and its value up to Python's ==, or that it is an object.               *)
Node(at, path, value) == [at |-> at, path |-> path, value |-> value]
Shape(v) == IF IsObject(v) THEN Object(<<>>) ELSE Plain[v]
Below(k, nodes) == {Node(<<k>> \o n.at, k \o n.path, n.value) : n \in nodes}
Nodes[v \in Values] ==
  {Node(<<>>, <<>>, Shape(v))} \cup
    IF IsObject(v) THEN UNION {Below(k, Nodes[v.fields[k]]) : k \in DOMAIN v.fields}
    ELSE {}
Places(v) == {n.at : n \in Nodes[v]}
Alike(v, w) == Nodes[v] = Nodes[w]

(* What one document has and the other has not, and of that what lies      *)
(* under nothing else of it.                                               *)
Differing(before, after) ==
  (Nodes[before] \ Nodes[after]) \cup (Nodes[after] \ Nodes[before])
Topmost(nodes) == {n \in nodes : \A m \in nodes : ~IsStrictPrefix(m.at, n.at)}
KindAt(at, before, after) ==
  IF at \notin Places(after) THEN "removed"
  ELSE IF at \notin Places(before) THEN "added" ELSE "changed"

(* Everything that was there is still there, unchanged; and everything     *)
(* that was there is still there or under something that was replaced,     *)
(* which in the contract was replaced by null.                             *)
Extends(before, after) == Nodes[before] \subseteq Nodes[after]
Replaces(n) == ~IsObject(n.value) /\ (OfContract(n.path) => n.value = Shape(None))
Keeps(before, after) ==
  \A p \in Places(before) :
    p \in Places(after) \/ \E n \in Nodes[after] : IsPrefix(n.at, p) /\ Replaces(n)

(* An OpenAPI document: under paths, an object per endpoint, which begins  *)
(* with a slash.                                                           *)
WellFormed(doc) ==
  /\ \A k \in DOMAIN doc.fields : k[1] = "paths" => k = <<"paths">>
  /\ <<"paths">> \in DOMAIN doc.fields
  /\ LET paths == doc.fields[<<"paths">>]
     IN  /\ IsObject(paths)
         /\ \A e \in DOMAIN paths.fields :
              Len(e) > 1 /\ e[1] = "" /\ IsObject(paths.fields[e])

Field(v, k) == IF IsObject(v) /\ k \in DOMAIN v.fields THEN v.fields[k] ELSE None
Operation(doc, endpoint, method) ==
  Field(Field(Field(doc, <<"paths">>), endpoint), <<method>>)
=============================================================================
