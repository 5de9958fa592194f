---------------------------- MODULE MC_CrossChain ----------------------------
(* Small instances of CrossChain.                                          *)
EXTENDS CrossChain, TLC

NoConfigCalls == {}
OneLimit == {DefaultGasLimit}
AllBuilders == {"buildCrossChainTransfer", "C_TransferAcross chain 0", "C_TransferAcross"}
OneBuilder == {"buildCrossChainTransfer"}
=============================================================================
