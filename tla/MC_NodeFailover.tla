-------------------------- MODULE MC_NodeFailover --------------------------
(* Small instances of NodeFailover: the two known nodes, one custom host,  *)
(* and the setNodeConfig calls a settings dialog can make.                 *)
EXTENDS NodeFailover, TLC

CONSTANTS Custom

MCCustomHosts == {Custom}

Preset(sel) == [selected |-> sel, origin |-> NoHost, limit |-> DefaultGasLimit]
CustomUrl(h) == [selected |-> "custom", origin |-> h, limit |-> DefaultGasLimit]

(* Both presets, a custom node, and a custom URL that is node2's own.      *)
ValidCalls == {Preset("node1"), Preset("node2"), CustomUrl(Custom), CustomUrl(Node2)}

(* The same and a custom URL that is refused.                              *)
AnyCalls == ValidCalls \cup {CustomUrl(NoHost)}

OneLimit == {DefaultGasLimit}

Symmetry == Permutations(Calls)
=============================================================================
