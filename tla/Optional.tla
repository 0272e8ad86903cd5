------------------------------- MODULE Optional -------------------------------
(***************************************************************************)
(* An optional thrift field or std::optional value that is not set, shared *)
(* by the config-applier modules.                                          *)
(***************************************************************************)
CONSTANT NotSet     \* an optional field that is not __isset, or std::nullopt

IsSet(v) == v # NotSet
=============================================================================
