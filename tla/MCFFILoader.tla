---------------------------- MODULE MCFFILoader -----------------------------
(***************************************************************************)
(* FFILoader with the builds that matter: the current one, one of another  *)
(* ABI, and ones that miss the last symbol looked up, one in the middle,   *)
(* or the first.                                                           *)
(***************************************************************************)
EXTENDS FFILoader

CONSTANTS current, oldAbi, noFree, noExecute, noVersion

MCExports ==
    [b \in Builds |->
        CASE b = noFree    -> Symbol \ {"free_buffer"}
          [] b = noExecute -> Symbol \ {"execute"}
          [] b = noVersion -> Symbol \ {"abi_version"}
          [] OTHER         -> Symbol]

MCAbi == [b \in Builds |-> IF b = oldAbi THEN abiVersion - 1 ELSE abiVersion]

=============================================================================
