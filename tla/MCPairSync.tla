----------------------------- MODULE MCPairSync -----------------------------
(***************************************************************************)
(* PairSync for TLC: two fields, two values and Null each, every default   *)
(* policy alone, and per-field overrides that mix policies.                 *)
(***************************************************************************)
EXTENDS PairSync

CONSTANTS f1, f2

NoOverride == [f \in {} |-> "review"]

Plain == {[default |-> p, perField |-> NoOverride, skew |-> 1] : p \in Policies}

Mixed == {[default |-> d, perField |-> [f \in {f1} |-> p], skew |-> 1] :
             d \in {"field_level", "newest_wins"}, p \in Policies}

AllResolvers == Plain \union Mixed

FieldLevelOnly == {[default |-> "field_level", perField |-> NoOverride, skew |-> 1]}

NoDrops == {{}}

\* A response that lacks a field; see the README on known deviations.
OneDropped == {{}, {f1}}
=============================================================================
