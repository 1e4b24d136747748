------------------------------ MODULE FrameFilters ------------------------------
(***************************************************************************)
(* The filter presets of a project over raw frames: when a preset is valid, *)
(* what StaticFilterCompiler says of one preset and one frame in the        *)
(* editor's test, and what StaticCombinedActiveFilterSet, which Live and    *)
(* stored sessions use, makes of all presets together.                      *)
(*                                                                         *)
(* A tree is the sequence of its nodes, the root first and every node       *)
(* before its children; a node has                                          *)
(*    [type, operator, field, values, children]                             *)
(* and values are numbers as the presets' normalisation leaves them: ext and *)
(* std are 0 and 1, in the order of the two words, and so are no and yes; a *)
(* pattern is a value and its mask, a payload pattern such a pair for each  *)
(* byte.                                                                    *)
(***************************************************************************)
EXTENDS Integers, Sequences

CONSTANTS
    MaxDepth,       \* max_depth of a tree
    IdBits,         \* bits of an identifier: 29
    Bus             \* what the bus carries: a sequence of StaticCanFrameRecord

IdMax == 2 ^ IdBits - 1

ASSUME FrameFiltersAssumption ==
    /\ MaxDepth \in Nat /\ IdBits \in Nat \ {0}
    /\ \A i \in DOMAIN Bus : Bus[i].can_id \in 0 .. IdMax

-----------------------------------------------------------------------------
(* The elements of s that are in a set, in their order.                     *)
Kept(s, keep) ==
    LET kept[i \in 0 .. Len(s)] ==
            IF i = 0 THEN <<>>
            ELSE IF s[i] \in keep THEN Append(kept[i - 1], s[i]) ELSE kept[i - 1]
    IN kept[Len(s)]

-----------------------------------------------------------------------------
(* The presets of a project.                                                *)

Node == [type : {"group", "condition"}, operator : STRING, field : STRING,
         values : Seq(Int), children : Seq(Nat)]

IsTree(root) ==
    /\ root \in Seq(Node) /\ root # <<>>
    /\ \A n \in DOMAIN root : root[n].children \in Seq(n + 1 .. Len(root))

Preset == [mode : STRING, root : {root \in Seq(Node) : IsTree(root)},
           enabled : BOOLEAN, scope : SUBSET STRING]

Settings == [presets : Seq(Preset), combination : {"and", "or"}]

-----------------------------------------------------------------------------
(* Fields and operators.                                                    *)

Truths == {"frame_format", "rtr", "error_frame", "complete"}
StaticFields == {"channel", "rtr", "error_frame", "payload"}
RawFields == StaticFields \cup {"can_id", "frame_format", "dlc", "relative_time_us"}
MessageFields == {"pgn", "sid", "complete"}     \* some of ProtocolFilterField

Patterns == {"payload_exact", "payload_prefix", "payload_contains"}
Comparisons == {"eq", "ne", "gt", "ge", "lt", "le", "between", "outside", "in", "not_in"}

(* _is_v2_condition                                                         *)
IsStatic(node) == node.field \in StaticFields \/ node.operator \in Patterns \cup {"can_id_pattern"}

Required(operator) == IF operator \in {"between", "outside"} THEN 2 ELSE 1

(* _normalize_value and _validate_bounds                                    *)
InBounds(field, value) ==
    /\ value >= 0
    /\ field \in Truths => value <= 1
    /\ field = "can_id" => value <= IdMax
    /\ field = "dlc" => value <= 64
    /\ field = "pgn" => value <= 2 ^ 18 - 1
    /\ field = "sid" => value <= 255

(* PayloadPattern: full bytes, one to 64 of them.                           *)
IsPayloadPattern(values) ==
    /\ Len(values) % 2 = 0 /\ Len(values) \in 2 .. 128
    /\ \A i \in DOMAIN values : values[i] \in 0 .. 255

ValidStatic(node) ==
    /\ Len(node.values) >= Required(node.operator)
    /\ \/ node.operator = "can_id_pattern" /\ node.field = "can_id"
            /\ \A i \in 1 .. 2 : node.values[i] \in 0 .. IdMax
       \/ node.operator \in Patterns /\ node.field = "payload" /\ IsPayloadPattern(node.values)
       \/ node.operator \in Comparisons /\ node.field \in StaticFields \ {"payload"}
            /\ \A i \in DOMAIN node.values : InBounds(node.field, node.values[i])

ValidLegacy(node) ==
    /\ node.field \in (RawFields \ StaticFields) \cup MessageFields
    /\ node.operator \in Comparisons /\ Len(node.values) >= Required(node.operator)
    /\ \A i \in DOMAIN node.values : InBounds(node.field, node.values[i])

Depth(root) ==
    LET Parent(n) == CHOOSE p \in DOMAIN root : \E i \in DOMAIN root[p].children : root[p].children[i] = n
        depth[n \in DOMAIN root] == IF n = 1 THEN 0 ELSE depth[Parent(n)] + 1
    IN depth

(* validate finds nothing.                                                  *)
Valid(root) ==
    \A n \in DOMAIN root :
        LET node == root[n]
        IN  /\ Depth(root)[n] <= MaxDepth
            /\ \/ node.type = "group" /\ node.operator = "not" /\ Len(node.children) = 1
               \/ node.type = "group" /\ node.operator \in {"and", "or"} /\ node.children # <<>>
               \/ node.type = "condition" /\ (IF IsStatic(node) THEN ValidStatic(node) ELSE ValidLegacy(node))

-----------------------------------------------------------------------------
(* One condition on one frame.                                              *)

Bit(value, i) == (value \div 2 ^ i) % 2
Agree(value, mask, actual, width) ==
    \A i \in 0 .. width - 1 : Bit(mask, i) = 1 => Bit(actual, i) = Bit(value, i)

MatchesAt(values, payload, offset) ==
    \A i \in 1 .. Len(values) \div 2 :
        Agree(values[2 * i - 1], values[2 * i], payload[offset + i], 8)

MatchesPayload(operator, values, payload) ==
    LET spare == Len(payload) - Len(values) \div 2
    IN \/ operator = "payload_exact" /\ spare = 0 /\ MatchesAt(values, payload, 0)
       \/ operator = "payload_prefix" /\ spare >= 0 /\ MatchesAt(values, payload, 0)
       \/ operator = "payload_contains" /\ \E k \in 0 .. spare : MatchesAt(values, payload, k)

Compares(operator, actual, values) ==
    CASE operator = "eq" -> actual = values[1]
      [] operator = "ne" -> actual # values[1]
      [] operator = "gt" -> actual > values[1]
      [] operator = "ge" -> actual >= values[1]
      [] operator = "lt" -> actual < values[1]
      [] operator = "le" -> actual <= values[1]
      [] operator = "between" -> values[1] <= actual /\ actual <= values[2]
      [] operator = "outside" -> actual < values[1] \/ actual > values[2]
      [] operator = "in"      -> \E i \in DOMAIN values : values[i] = actual
      [] operator = "not_in"  -> \A i \in DOMAIN values : values[i] # actual

Holds(node, frame) ==
    LET actual == frame[node.field]
    IN \/ node.operator = "can_id_pattern" /\ Agree(node.values[1], node.values[2], actual, IdBits)
       \/ node.operator \in Patterns /\ MatchesPayload(node.operator, node.values, actual)
       \/ node.operator \in Comparisons /\ Compares(node.operator, actual, node.values)

(* A field of messages is not to be had in a frame.                         *)
Judges(node, frame) ==
    IF node.field \notin RawFields THEN "unavailable"
    ELSE IF Holds(node, frame) THEN "match" ELSE "no_match"

Opposite(state) ==
    IF state = "match" THEN "no_match" ELSE IF state = "no_match" THEN "match" ELSE state

(* The result of one child that decides a group.                            *)
Decisive(operator) == IF operator = "and" THEN "no_match" ELSE "match"

-----------------------------------------------------------------------------
(* The test in the editor: StaticFilterCompiler judges every child of a     *)
(* group and then combines the results.                                     *)

Preview(root, frame) ==
    LET judged[n \in DOMAIN root] ==
            LET node == root[n]
                results == {judged[node.children[i]] : i \in DOMAIN node.children}
                decisive == Decisive(node.operator)
            IN  IF node.type = "condition" THEN Judges(node, frame)
                ELSE IF node.operator = "not" THEN Opposite(judged[node.children[1]])
                ELSE IF decisive \in results THEN decisive
                ELSE IF "unavailable" \in results THEN "unavailable" ELSE Opposite(decisive)
    IN IF Valid(root) THEN judged[1] ELSE "unavailable"

-----------------------------------------------------------------------------
(* The views: the children of a group in turn, until one decides it.        *)

(* Slip: a child that cannot judge decides the group.                       *)
FirstUnavailable(operator, so_far, state) ==
    IF so_far = Opposite(Decisive(operator)) THEN state ELSE so_far

(* A round of the loop of _evaluate_group: a decided group stays so.        *)
TakeChild(operator, so_far, state) ==
    IF Decisive(operator) \in {so_far, state} THEN Decisive(operator)
    ELSE IF state = "unavailable" THEN state ELSE so_far

(* _evaluate_group                                                          *)
EvaluateGroup(operator, states) ==
    LET so_far[i \in 0 .. Len(states)] ==
            IF i = 0 THEN Opposite(Decisive(operator))
            ELSE TakeChild(operator, so_far[i - 1], states[i])
    IN IF operator = "not" THEN Opposite(states[1]) ELSE so_far[Len(states)]

(* _evaluate_raw                                                            *)
Evaluate(root, frame) ==
    LET state[n \in DOMAIN root] ==
            LET node == root[n]
            IN IF node.type = "condition" THEN Judges(node, frame)
               ELSE EvaluateGroup(node.operator,
                                  [i \in DOMAIN node.children |-> state[node.children[i]]])
    IN state[1]

(* The presets of a project for Live, in their order.                       *)
Used == {preset \in Preset : preset.enabled /\ "live" \in preset.scope}
ActiveSet(settings) ==
    [presets |-> Kept(settings.presets, Used), combination |-> settings.combination]

Undecided == [seen |-> 0, matched |-> 0, excluded |-> FALSE, stopped |-> FALSE]

(* One round of the loop of _decide: a preset that is not valid, or cannot  *)
(* judge the frame, counts for nothing.                                     *)
Consider(combination, so_far, preset, frame) ==
    LET state == Evaluate(preset.root, frame)
        matched == state = "match"
        including == preset.mode = "include"
        missed == including /\ ~matched
        counted == [so_far EXCEPT !.seen = IF including THEN @ + 1 ELSE @,
                                  !.matched = IF including /\ matched THEN @ + 1 ELSE @,
                                  !.excluded = @ \/ (preset.mode = "exclude" /\ matched)]
    IN IF so_far.stopped \/ ~Valid(preset.root) \/ state = "unavailable" THEN so_far
       ELSE [counted EXCEPT !.stopped = counted.excluded \/ (combination = "and" /\ missed)]

Decide(active, frame) ==
    LET n == Len(active.presets)
        so_far[i \in 0 .. n] ==
            IF i = 0 THEN Undecided
            ELSE Consider(active.combination, so_far[i - 1], active.presets[i], frame)
        result == so_far[n]
    IN /\ ~result.excluded
       /\ \/ result.seen = 0
          \/ active.combination = "or" /\ result.matched > 0
          \/ active.combination = "and" /\ result.matched = result.seen

(* affects_raw_visibility                                                   *)
Affects(active) ==
    \E i \in DOMAIN active.presets :
        /\ active.presets[i].mode \in {"include", "exclude"}
        /\ \E n \in DOMAIN active.presets[i].root :
              /\ active.presets[i].root[n].type = "condition"
              /\ active.presets[i].root[n].field \in RawFields

-----------------------------------------------------------------------------
(* What the editor promises: a frame is shown when no preset that excludes  *)
(* matches it in the test, and those that include and can judge it match it *)
(* as the project combines them, whatever the order of the presets.         *)
Wanted(settings, frame) ==
    LET tested == {[mode |-> p.mode, result |-> Preview(p.root, frame)] :
                      p \in {settings.presets[i] : i \in DOMAIN settings.presets} \cap Used}
        including == {t.result : t \in {u \in tested : u.mode = "include"}} \ {"unavailable"}
    IN /\ [mode |-> "exclude", result |-> "match"] \notin tested
       /\ \/ including = {}
          \/ settings.combination = "or" /\ "match" \in including
          \/ settings.combination = "and" /\ "no_match" \notin including
=============================================================================
