---------------------------- MODULE SourceRepository ----------------------------
(***************************************************************************)
(* Which files of the working copy a scope selects: file_filters.yaml, the *)
(* inheritance of scopes, and the walks of GitSourceRepository.  Files are *)
(* numbered in the order of their paths.  A glob pattern is the set of the *)
(* paths it matches; scopes have the optional keys of the YAML file.       *)
(***************************************************************************)
EXTENDS CpgEvents

CONSTANTS
    Filters,      \* file_filters.yaml: a record per scope, any keys left out
    Reasons,      \* the reasons its rules give
    NoReason      \* an included file's exclusion_reason

ASSUME FilesAreOrdered == Files \subseteq Nat

(* A rule of a scope is a pattern and its reason, and no scope extends     *)
(* itself, directly or by way of others.                                   *)
ASSUME FiltersAssumption ==
    /\ IsFiniteSet(DOMAIN Filters)
    /\ \A name \in DOMAIN Filters :
         /\ "max_files" \in DOMAIN Filters[name] => Filters[name].max_files \in Nat
         /\ "exclude" \in DOMAIN Filters[name] =>
              Filters[name].exclude \in Seq([paths : SUBSET Files, reason : Reasons])
    /\ \E depth \in [DOMAIN Filters -> 0..Cardinality(DOMAIN Filters)] :
         \A name \in DOMAIN Filters : "extends" \in DOMAIN Filters[name] =>
            /\ Filters[name].extends \in DOMAIN Filters
            /\ depth[Filters[name].extends] < depth[name]
    /\ NoReason \notin Reasons

AllPython == Files                          \* **/*.py
NotIncluded == "Excluded by scope include pattern"

Present(tree) == {f \in Files : tree[f] # Missing}
InOrder(S) ==
    CHOOSE s \in [1..Cardinality(S) -> S] :
        \A i, j \in 1..Cardinality(S) : i < j => s[i] < s[j]

(* Mutant: a scope that extends another has its own keys only.             *)
LoadScopeAlone(name) == Filters[name]

(* _load_scope: the keys of the parent, overridden by the scope's own.  An *)
(* unknown scope is an empty one.                                          *)
Scope[name \in DOMAIN Filters] ==
    LET raw == Filters[name]
    IN IF "extends" \in DOMAIN raw
       THEN LET parent == Scope[raw.extends]
            IN [k \in (DOMAIN raw \cup DOMAIN parent) \ {"extends"} |->
                  IF k \in DOMAIN raw THEN raw[k] ELSE parent[k]]
       ELSE raw
LoadScope(name) == IF name \in DOMAIN Filters THEN Scope[name] ELSE << >>

Key(scope, key, default) == IF key \in DOMAIN scope THEN scope[key] ELSE default

Included(scope) == Key(scope, "include", AllPython)

(* The reason of the first rule that matches.                              *)
ExclusionReason(f, scope) ==
    LET rules == Key(scope, "exclude", << >>)
        hits == {i \in DOMAIN rules : f \in rules[i].paths}
    IN IF hits = {} THEN NoReason ELSE rules[Min(hits)].reason

Prefix(s, n) == SubSeq(s, 1, IF n < Len(s) THEN n ELSE Len(s))

ListPythonFiles(tree) == InOrder(Present(tree))

(* list_files walks the tree again, and cuts off what exceeds max_files.   *)
ListFiles(tree, name) ==
    LET scope == LoadScope(name)
        matching == InOrder({f \in Present(tree) :
                        f \in Included(scope) /\ ExclusionReason(f, scope) = NoReason})
    IN Prefix(matching, Key(scope, "max_files", Len(matching)))

(* A record of the manifest; hashing a file that has vanished raises.      *)
ManifestRecord(f, tree, selected, name, commit) ==
    LET reason == ExclusionReason(f, LoadScope(name))
    IN [path |-> f, scope |-> name, commit |-> commit, content |-> tree[f],
        included |-> f \in selected,
        reason |-> IF f \in selected THEN NoReason
                   ELSE IF reason # NoReason THEN reason ELSE NotIncluded]
=============================================================================
