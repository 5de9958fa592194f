-------------------------- MODULE MC_FailoverClient --------------------------
(* Small instances of FailoverClient.                                      *)
EXTENDS FailoverClient, TLC

NoConfigCalls == {}
Reconfigurations ==
  {[selected |-> "node1", origin |-> NoHost, limit |-> DefaultGasLimit],
   [selected |-> "node2", origin |-> NoHost, limit |-> DefaultGasLimit]}
OneLimit == {DefaultGasLimit}
OnlySubmit == {"submit"}
AllTiers == Tiers
=============================================================================
